------------------------------ MODULE AppProofs ------------------------------
(***************************************************************************)
(* ClientRefresh and RelationEdits, the parts of the app, for any values   *)
(* of the constants of Parts; and, with the other parts, their types.      *)
(***************************************************************************)
EXTENDS ServicesProofs, SnapshotsProofs, SequenceTheorems, WellFoundedInduction

-----------------------------------------------------------------------------
(* ClientRefresh.  Nothing is under way before the first refresh; with the  *)
(* two properties, which say what keeps a page signed in, and signed out,   *)
(* that is inductive.                                                       *)

NotBegun == first => ~out /\ ~refreshing

ClientSafe == C!TypeOK /\ NotBegun /\ C!StaysSignedIn /\ C!SignedOutQuiet

(* The invariant holds when the page is loaded. *)
LEMMA ClientInit == C!Init => ClientSafe
  BY DEF C!Init, ClientSafe, C!TypeOK, NotBegun, C!StaysSignedIn, C!SignedOutQuiet

(* What refresh() does, whoever calls it: it starts no refresh of a page    *)
(* that is signed out, and none of a page in use is left without a timer.   *)
LEMMA RefreshStep ==
    ASSUME ClientSafe, NEW t, C!Refresh(t),
           t = timer \/ (t = "none" /\ timer # "none" /\ away' = away),
           UNCHANGED <<header, due, long, out, late, calls>>,
           {away', idle', visible', stray'} \subseteq BOOLEAN,
           away' => away
    PROVE  ClientSafe'
  <1>1. C!TypeOK'
    BY DEF ClientSafe, C!TypeOK, C!Refresh
  <1>2. NotBegun'
    BY DEF ClientSafe, C!TypeOK, NotBegun, C!Refresh, C!MayRefresh
  <1>3. C!StaysSignedIn'
    BY DEF ClientSafe, C!TypeOK, C!StaysSignedIn, C!Refresh, C!MayRefresh
  <1>4. C!SignedOutQuiet'
    BY DEF ClientSafe, C!TypeOK, NotBegun, C!SignedOutQuiet, C!Refresh, C!MayRefresh
  <1> QED BY <1>1, <1>2, <1>3, <1>4 DEF ClientSafe

(* A refresh is called by the router, a timer, a refused request or the     *)
(* return of the user.                                                      *)
LEMMA CallsRefresh ==
    ASSUME ClientSafe,
           C!Load \/ C!Fire \/ C!FireStray \/ C!Unauthorized \/ C!BecomeActive \/ C!Show
    PROVE  ClientSafe'
  <1>1. CASE C!Load \/ C!Unauthorized
    BY <1>1, RefreshStep DEF ClientSafe, C!TypeOK, C!Load, C!Unauthorized, C!tracker, C!token
  <1>2. CASE C!Fire
    BY <1>2, RefreshStep DEF ClientSafe, C!TypeOK, C!Fire, C!tracker, C!token
  <1>3. CASE C!FireStray
    BY <1>3, RefreshStep DEF ClientSafe, C!TypeOK, C!FireStray, C!tracker, C!token
  <1>4. CASE (C!BecomeActive \/ C!Show) /\ away
    BY <1>4, RefreshStep
       DEF ClientSafe, C!TypeOK, C!BecomeActive, C!Show, C!Return, C!token
  <1>5. CASE (C!BecomeActive \/ C!Show) /\ ~away
    <2>1. /\ UNCHANGED <<header, due, long, timer, stray, first, refreshing, calls, out,
                         overtaken, late>>
          /\ ~away' /\ {away', idle', visible'} \subseteq BOOLEAN
      BY <1>5 DEF ClientSafe, C!TypeOK, C!BecomeActive, C!Show, C!Return, C!token
    <2>2. C!TypeOK' /\ NotBegun'
      BY <2>1 DEF ClientSafe, C!TypeOK, NotBegun
    <2>3. C!StaysSignedIn' /\ C!SignedOutQuiet'
      BY <1>5, <2>1 DEF ClientSafe, C!StaysSignedIn, C!SignedOutQuiet
    <2> QED BY <2>2, <2>3 DEF ClientSafe
  <1> QED BY <1>1, <1>2, <1>3, <1>4, <1>5

(* The answer of a refresh sets a timer, and is recorded if it arrives when *)
(* the user has signed out; a refresh that fails signs out.                 *)
LEMMA AnswerStep ==
    ASSUME ClientSafe, C!RefreshAnswered \/ C!RefreshFails PROVE ClientSafe'
  <1> USE DEF C!token, C!timers, C!tracker, C!history
  <1>1. CASE C!RefreshAnswered
    <2>1. C!TypeOK'
      <3>1. timer' \in {"none", "due", "now"} /\ calls' \subseteq {"login", "logout"}
        BY <1>1 DEF ClientSafe, C!TypeOK, C!RefreshAnswered
      <3>2. {header', due', long', refreshing', late'} \subseteq BOOLEAN
        BY <1>1 DEF ClientSafe, C!TypeOK, C!RefreshAnswered, C!NewToken
      <3>3. {stray', away', idle', visible', first', out', overtaken'} \subseteq BOOLEAN
        BY <1>1 DEF ClientSafe, C!TypeOK, C!RefreshAnswered
      <3> QED BY <3>1, <3>2, <3>3 DEF C!TypeOK
    <2>2. NotBegun'
      BY <1>1 DEF ClientSafe, C!TypeOK, NotBegun, C!RefreshAnswered, C!NewToken
    <2>3. C!StaysSignedIn'
      BY <1>1 DEF ClientSafe, C!TypeOK, C!StaysSignedIn, C!RefreshAnswered, C!NewToken
    <2>4. C!SignedOutQuiet'
      BY <1>1 DEF ClientSafe, C!TypeOK, C!SignedOutQuiet, C!RefreshAnswered, C!NewToken
    <2> QED BY <2>1, <2>2, <2>3, <2>4 DEF ClientSafe
  <1>2. CASE C!RefreshFails
    <2>1. C!TypeOK'
      BY <1>2 DEF ClientSafe, C!TypeOK, C!RefreshFails
    <2>2. NotBegun'
      BY <1>2 DEF ClientSafe, C!TypeOK, NotBegun, C!RefreshFails
    <2>3. C!StaysSignedIn'
      BY <1>2 DEF ClientSafe, C!TypeOK, C!StaysSignedIn, C!RefreshFails
    <2>4. C!SignedOutQuiet'
      BY <1>2 DEF ClientSafe, C!TypeOK, C!SignedOutQuiet, C!RefreshFails
    <2> QED BY <2>1, <2>2, <2>3, <2>4 DEF ClientSafe
  <1> QED BY <1>1, <1>2

(* A login sets a timer, or the token is long-lived. *)
LEMMA LoginStep ==
    ASSUME ClientSafe, C!LoginSend \/ C!LoginAnswered \/ C!LoginFails PROVE ClientSafe'
  <1> USE DEF C!token, C!timers, C!tracker, C!history
  <1>1. CASE C!LoginSend
    <2>1. C!TypeOK'
      BY <1>1 DEF ClientSafe, C!TypeOK, C!LoginSend
    <2>2. NotBegun'
      BY <1>1 DEF ClientSafe, C!TypeOK, NotBegun, C!LoginSend
    <2>3. C!StaysSignedIn'
      BY <1>1 DEF ClientSafe, C!TypeOK, C!StaysSignedIn, C!LoginSend
    <2>4. C!SignedOutQuiet'
      BY <1>1 DEF ClientSafe, C!TypeOK, C!SignedOutQuiet, C!LoginSend
    <2> QED BY <2>1, <2>2, <2>3, <2>4 DEF ClientSafe
  <1>2. CASE C!LoginAnswered
    <2>1. C!TypeOK'
      BY <1>2 DEF ClientSafe, C!TypeOK, C!LoginAnswered, C!NewToken
    <2>2. NotBegun'
      BY <1>2 DEF ClientSafe, C!TypeOK, NotBegun, C!LoginAnswered, C!NewToken
    <2>3. C!StaysSignedIn'
      BY <1>2 DEF ClientSafe, C!TypeOK, C!StaysSignedIn, C!LoginAnswered, C!NewToken
    <2>4. C!SignedOutQuiet'
      BY <1>2 DEF ClientSafe, C!TypeOK, C!SignedOutQuiet, C!LoginAnswered, C!NewToken
    <2> QED BY <2>1, <2>2, <2>3, <2>4 DEF ClientSafe
  <1>3. CASE C!LoginFails
    <2>1. C!TypeOK'
      BY <1>3 DEF ClientSafe, C!TypeOK, C!LoginFails
    <2>2. NotBegun'
      BY <1>3 DEF ClientSafe, C!TypeOK, NotBegun, C!LoginFails
    <2>3. C!StaysSignedIn'
      BY <1>3 DEF ClientSafe, C!TypeOK, C!StaysSignedIn, C!LoginFails
    <2>4. C!SignedOutQuiet'
      BY <1>3 DEF ClientSafe, C!TypeOK, C!SignedOutQuiet, C!LoginFails
    <2> QED BY <2>1, <2>2, <2>3, <2>4 DEF ClientSafe
  <1> QED BY <1>1, <1>2, <1>3

(* Who signs out has no token and no timer. *)
LEMMA SignOutStep ==
    ASSUME ClientSafe, C!SignOut \/ C!SignOutEnds \/ C!InvalidToken PROVE ClientSafe'
  <1> USE DEF C!token, C!timers, C!tracker, C!history
  <1>1. CASE C!SignOut
    <2>1. C!TypeOK'
      BY <1>1 DEF ClientSafe, C!TypeOK, C!SignOut, C!Forget
    <2>2. NotBegun'
      BY <1>1 DEF ClientSafe, C!TypeOK, NotBegun, C!SignOut, C!Forget
    <2>3. C!StaysSignedIn'
      BY <1>1 DEF ClientSafe, C!TypeOK, C!StaysSignedIn, C!SignOut, C!Forget
    <2>4. C!SignedOutQuiet'
      BY <1>1 DEF ClientSafe, C!TypeOK, C!SignedOutQuiet, C!SignOut, C!Forget
    <2> QED BY <2>1, <2>2, <2>3, <2>4 DEF ClientSafe
  <1>2. CASE C!SignOutEnds
    <2>1. C!TypeOK'
      BY <1>2 DEF ClientSafe, C!TypeOK, C!SignOutEnds
    <2>2. NotBegun'
      BY <1>2 DEF ClientSafe, C!TypeOK, NotBegun, C!SignOutEnds
    <2>3. C!StaysSignedIn'
      BY <1>2 DEF ClientSafe, C!TypeOK, C!StaysSignedIn, C!SignOutEnds
    <2>4. C!SignedOutQuiet'
      BY <1>2 DEF ClientSafe, C!TypeOK, C!SignedOutQuiet, C!SignOutEnds
    <2> QED BY <2>1, <2>2, <2>3, <2>4 DEF ClientSafe
  <1>3. CASE C!InvalidToken
    <2>1. C!TypeOK'
      BY <1>3 DEF ClientSafe, C!TypeOK, C!InvalidToken, C!Forget
    <2>2. NotBegun'
      BY <1>3 DEF ClientSafe, C!TypeOK, NotBegun, C!InvalidToken, C!Forget
    <2>3. C!StaysSignedIn'
      BY <1>3 DEF ClientSafe, C!TypeOK, C!StaysSignedIn, C!InvalidToken, C!Forget
    <2>4. C!SignedOutQuiet'
      BY <1>3 DEF ClientSafe, C!TypeOK, C!SignedOutQuiet, C!InvalidToken, C!Forget
    <2> QED BY <2>1, <2>2, <2>3, <2>4 DEF ClientSafe
  <1> QED BY <1>1, <1>2, <1>3

(* Time passes, or the user leaves. *)
LEMMA LeaveStep ==
    ASSUME ClientSafe, C!BecomeDue \/ C!BecomeIdle \/ C!Hide PROVE ClientSafe'
  <1> USE DEF C!token, C!timers, C!tracker, C!history
  <1>1. CASE C!BecomeDue
    <2>1. C!TypeOK'
      BY <1>1 DEF ClientSafe, C!TypeOK, C!BecomeDue
    <2>2. NotBegun'
      BY <1>1 DEF ClientSafe, C!TypeOK, NotBegun, C!BecomeDue
    <2>3. C!StaysSignedIn'
      BY <1>1 DEF ClientSafe, C!TypeOK, C!StaysSignedIn, C!BecomeDue
    <2>4. C!SignedOutQuiet'
      BY <1>1 DEF ClientSafe, C!TypeOK, C!SignedOutQuiet, C!BecomeDue
    <2> QED BY <2>1, <2>2, <2>3, <2>4 DEF ClientSafe
  <1>2. CASE C!BecomeIdle
    <2>1. C!TypeOK'
      BY <1>2 DEF ClientSafe, C!TypeOK, C!BecomeIdle
    <2>2. NotBegun'
      BY <1>2 DEF ClientSafe, C!TypeOK, NotBegun, C!BecomeIdle
    <2>3. C!StaysSignedIn'
      BY <1>2 DEF ClientSafe, C!TypeOK, C!StaysSignedIn, C!BecomeIdle
    <2>4. C!SignedOutQuiet'
      BY <1>2 DEF ClientSafe, C!TypeOK, C!SignedOutQuiet, C!BecomeIdle
    <2> QED BY <2>1, <2>2, <2>3, <2>4 DEF ClientSafe
  <1>3. CASE C!Hide
    <2>1. C!TypeOK'
      BY <1>3 DEF ClientSafe, C!TypeOK, C!Hide
    <2>2. NotBegun'
      BY <1>3 DEF ClientSafe, C!TypeOK, NotBegun, C!Hide
    <2>3. C!StaysSignedIn'
      BY <1>3 DEF ClientSafe, C!TypeOK, C!StaysSignedIn, C!Hide
    <2>4. C!SignedOutQuiet'
      BY <1>3 DEF ClientSafe, C!TypeOK, C!SignedOutQuiet, C!Hide
    <2> QED BY <2>1, <2>2, <2>3, <2>4 DEF ClientSafe
  <1> QED BY <1>1, <1>2, <1>3

(* Every step preserves the invariant. *)
LEMMA ClientNext == ClientSafe /\ [C!Next]_(C!vars) => ClientSafe'
  <1> SUFFICES ASSUME ClientSafe, [C!Next]_(C!vars) PROVE ClientSafe'
    OBVIOUS
  <1>1. CASE UNCHANGED C!vars
    BY <1>1 DEF C!vars, C!tracker, C!token, C!timers, C!history, ClientSafe, C!TypeOK,
                NotBegun, C!StaysSignedIn, C!SignedOutQuiet
  <1>2. CASE C!Next
    BY <1>2, CallsRefresh, AnswerStep, LoginStep, SignOutStep, LeaveStep DEF C!Next
  <1> QED BY <1>1, <1>2

(* Every step is one of the part itself, or leaves it as it is. *)
LEMMA ClientSteps ==
    [Next]_vars => /\ part' = part
                   /\ part = "client" => [C!Next]_(C!vars)
  BY DEF Next, vars, ofClient, C!vars, C!token, C!timers, C!tracker, C!history

ClientInv == part = "client" => ClientSafe

(* The invariant holds of every behaviour of app/src/auth.ts. *)
THEOREM ClientInvariance == Spec => []ClientInv
  <1>1. Init => ClientInv
    BY ClientInit DEF Init, ClientInv
  <1>2. ClientInv /\ [Next]_vars => ClientInv'
    BY ClientSteps, ClientNext DEF ClientInv
  <1> QED BY <1>1, <1>2, PTL DEF Spec

(* Whatever timers, events and answers interleave, who is signed in and     *)
(* uses the app has a refresh under way or to come, or a long-lived token.  *)
THEOREM PageStaysSignedIn == Spec => []StaysSignedIn
  <1>1. ClientInv => StaysSignedIn
    BY DEF ClientInv, ClientSafe, StaysSignedIn
  <1> QED BY <1>1, ClientInvariance, PTL

(* No timer, event or answer that is left signs a page in again, but the    *)
(* answer to a refresh that was under way when the user signed out.         *)
THEOREM PageStaysSignedOut == Spec => []SignedOutQuiet
  <1>1. ClientInv => SignedOutQuiet
    BY DEF ClientInv, ClientSafe, SignedOutQuiet
  <1> QED BY <1>1, ClientInvariance, PTL

-----------------------------------------------------------------------------
(* Sequences.  What an index of RemoveAt(q, k) was in q.                    *)
Before(n, k) == IF n < k THEN n ELSE n + 1

(* The entries that are appended to, keep their indexes. *)
LEMMA AppendIndexes ==
    ASSUME NEW T, NEW q \in Seq(T), NEW e \in T
    PROVE  /\ Append(q, e) \in Seq(T)
           /\ DOMAIN Append(q, e) = DOMAIN q \cup {Len(q) + 1}
           /\ Len(q) + 1 \notin DOMAIN q
           /\ \A n \in DOMAIN q : Append(q, e)[n] = q[n]
           /\ Append(q, e)[Len(q) + 1] = e
  <1>1. /\ Append(q, e) \in Seq(T) /\ Len(Append(q, e)) = Len(q) + 1
        /\ \A n \in 1..Len(q) : Append(q, e)[n] = q[n]
        /\ Append(q, e)[Len(q) + 1] = e
    BY AppendProperties
  <1>2. Len(q) \in Nat /\ DOMAIN q = 1..Len(q)
    BY LenProperties
  <1>3. DOMAIN Append(q, e) = 1..(Len(q) + 1)
    BY <1>1, LenProperties
  <1> QED BY <1>1, <1>2, <1>3

(* RemoveAt removes one entry, and keeps the order of the others. *)
LEMMA RemoveIndexes ==
    ASSUME NEW T, NEW q \in Seq(T), NEW k \in DOMAIN q
    PROVE  /\ E!RemoveAt(q, k) \in Seq(T)
           /\ \A n \in DOMAIN E!RemoveAt(q, k) :
                /\ n \in Nat
                /\ Before(n, k) \in DOMAIN q \ {k}
                /\ E!RemoveAt(q, k)[n] = q[Before(n, k)]
           /\ \A m \in DOMAIN q \ {k} : \E n \in DOMAIN E!RemoveAt(q, k) : Before(n, k) = m
           /\ k \in Nat
  <1>1. Len(q) \in Nat /\ DOMAIN q = 1..Len(q) /\ \A n \in 1..Len(q) : q[n] \in T
    BY LenProperties
  <1>2. k \in 1..Len(q) /\ k \in Int /\ k - 1 \in Int /\ k + 1 \in Int /\ Len(q) \in Int
    BY <1>1
  <1> DEFINE a == SubSeq(q, 1, k - 1)
             b == SubSeq(q, k + 1, Len(q))
             r == a \o b
  <1>3. a \in Seq(T) /\ Len(a) = k - 1 /\ \A n \in 1..(k - 1) : a[n] = q[n]
    <2>1. \A n \in 1..(k - 1) : q[n] \in T
      BY <1>1, <1>2
    <2>2. /\ a \in Seq(T)
          /\ Len(a) = IF 1 <= k - 1 THEN k - 1 - 1 + 1 ELSE 0
          /\ \A n \in 1..(k - 1 - 1 + 1) : a[n] = q[1 + n - 1]
      BY <1>2, <2>1, SubSeqProperties
    <2> QED BY <1>2, <2>2
  <1>4. b \in Seq(T) /\ Len(b) = Len(q) - k /\ \A n \in 1..(Len(q) - k) : b[n] = q[k + n]
    <2>1. \A n \in (k + 1)..Len(q) : q[n] \in T
      BY <1>1, <1>2
    <2>2. /\ b \in Seq(T)
          /\ Len(b) = IF k + 1 <= Len(q) THEN Len(q) - (k + 1) + 1 ELSE 0
          /\ \A n \in 1..(Len(q) - (k + 1) + 1) : b[n] = q[k + 1 + n - 1]
      BY <1>2, <2>1, SubSeqProperties
    <2> QED BY <1>2, <2>2
  <1> HIDE DEF a, b
  <1>5. /\ r \in Seq(T) /\ Len(r) = Len(a) + Len(b)
        /\ \A n \in 1..(Len(a) + Len(b)) : r[n] = IF n <= Len(a) THEN a[n] ELSE b[n - Len(a)]
    BY <1>3, <1>4, ConcatProperties
  <1>6. DOMAIN r = 1..Len(r)
    BY <1>5, LenProperties
  <1>7. E!RemoveAt(q, k) = r
    BY DEF E!RemoveAt, a, b
  <1> HIDE DEF r
  <1>8. DOMAIN r = 1..(Len(q) - 1)
    BY <1>2, <1>3, <1>4, <1>5, <1>6
  <1>9. ASSUME NEW n \in 1..(Len(q) - 1)
        PROVE  Before(n, k) \in DOMAIN q \ {k} /\ r[n] = q[Before(n, k)]
    <2>1. CASE n < k
      <3>1. n \in 1..(k - 1) /\ n \in 1..(Len(a) + Len(b)) /\ n <= Len(a)
        BY <2>1, <1>1, <1>2, <1>3, <1>4
      <3>2. r[n] = q[n]
        BY <3>1, <1>3, <1>5
      <3>3. n \in DOMAIN q /\ n # k /\ Before(n, k) = n
        BY <2>1, <1>1, <1>2 DEF Before
      <3> QED BY <3>2, <3>3
    <2>2. CASE ~(n < k)
      <3>1. n - (k - 1) \in 1..(Len(q) - k) /\ k + (n - (k - 1)) = n + 1
        BY <2>2, <1>2, <1>9
      <3>2. n \in 1..(Len(a) + Len(b)) /\ ~(n <= Len(a)) /\ Len(a) = k - 1
        BY <2>2, <1>1, <1>2, <1>3, <1>4
      <3>3. r[n] = b[n - (k - 1)]
        BY <3>2, <1>5
      <3>4. b[n - (k - 1)] = q[n + 1]
        BY <3>1, <1>4
      <3>5. n + 1 \in DOMAIN q /\ n + 1 # k /\ Before(n, k) = n + 1
        BY <2>2, <1>1, <1>2 DEF Before
      <3> QED BY <3>3, <3>4, <3>5
    <2> QED BY <2>1, <2>2
  <1>10. ASSUME NEW m \in DOMAIN q \ {k} PROVE \E n \in 1..(Len(q) - 1) : Before(n, k) = m
    <2>1. CASE m < k
      BY <2>1, <1>1, <1>2 DEF Before
    <2>2. CASE ~(m < k)
      <3>1. m - 1 \in 1..(Len(q) - 1) /\ Before(m - 1, k) = m
        BY <2>2, <1>1, <1>2 DEF Before
      <3> QED BY <3>1
    <2> QED BY <2>1, <2>2
  <1>11. \A n \in DOMAIN r : n \in Nat /\ Before(n, k) \in DOMAIN q \ {k} /\ r[n] = q[Before(n, k)]
    <2>1. \A n \in 1..(Len(q) - 1) : n \in Nat
      BY <1>1
    <2> QED BY <2>1, <1>8, <1>9
  <1>12. \A m \in DOMAIN q \ {k} : \E n \in DOMAIN r : Before(n, k) = m
    BY <1>8, <1>10
  <1>13. k \in Nat
    BY <1>1, <1>2
  <1> QED BY <1>5, <1>7, <1>11, <1>12, <1>13

-----------------------------------------------------------------------------
(* Lists of entries.                                                        *)

Once(q) == \A n, m \in DOMAIN q : q[n].item = q[m].item => n = m
OnceEach(q) == \A n, m \in DOMAIN q : q[n] = q[m] => n = m

(* The entries of a row.                                                    *)
Of(q, i) == {e \in E!Range(q) : e.item = i}

(* The entries of the other rows are what they were.                        *)
OthersKept(q, r, i) == \A j : j # i => Of(r, j) = Of(q, j)

(* Indexes of a list are positive, up to its length. *)
LEMMA ListIndex ==
    ASSUME NEW T, NEW q \in Seq(T)
    PROVE  \A k \in Nat \ {0} : k \in DOMAIN q <=> k <= Len(q)
  <1>1. DOMAIN q = 1..Len(q) /\ Len(q) \in Nat
    BY LenProperties
  <1> QED BY <1>1

(* An entry of a row is the only one. *)
LEMMA OnlyEntry ==
    ASSUME NEW q, Once(q), NEW k \in DOMAIN q
    PROVE  Of(q, q[k].item) = {q[k]}
  BY DEF Once, Of, E!Range

(* A new entry is one of its row only. *)
LEMMA AppendEntry ==
    ASSUME NEW q \in Seq(E!Edits), NEW e \in E!Edits
    PROVE  /\ Append(q, e) \in Seq(E!Edits)
           /\ E!Range(Append(q, e)) = E!Range(q) \cup {e}
           /\ OthersKept(q, Append(q, e), e.item)
           /\ Of(q, e.item) = {} =>
                /\ Of(Append(q, e), e.item) = {e}
                /\ Once(q) => Once(Append(q, e))
  <1> DEFINE r == Append(q, e)
             l == Len(q) + 1
  <1>1. /\ r \in Seq(E!Edits)
        /\ DOMAIN r = DOMAIN q \cup {l}
        /\ l \notin DOMAIN q
        /\ \A n \in DOMAIN q : r[n] = q[n]
        /\ r[l] = e
    BY AppendIndexes
  <1> HIDE DEF r, l
  <1>2. E!Range(r) = E!Range(q) \cup {e}
    BY <1>1 DEF E!Range
  <1>3. OthersKept(q, r, e.item)
    BY <1>2 DEF OthersKept, Of
  <1>4. ASSUME Of(q, e.item) = {} PROVE Of(r, e.item) = {e}
    BY <1>2, <1>4 DEF Of
  <1>5. ASSUME Of(q, e.item) = {}, Once(q) PROVE Once(r)
    <2>1. \A n \in DOMAIN q : q[n].item # e.item
      BY <1>5 DEF Of, E!Range
    <2> QED BY <2>1, <1>1, <1>5 DEF Once
  <1> QED BY <1>1, <1>2, <1>3, <1>4, <1>5 DEF r

(* A changed entry takes the place of the one it was. *)
Changed(q, k, e) == [q EXCEPT ![k] = e]

LEMMA ChangeEntry ==
    ASSUME NEW q \in Seq(E!Edits), NEW k \in DOMAIN q, NEW e \in E!Edits
    PROVE  /\ Changed(q, k, e) \in Seq(E!Edits)
           /\ E!Range(Changed(q, k, e)) \subseteq E!Range(q) \cup {e}
           /\ Once(q) /\ q[k].item = e.item =>
                /\ Once(Changed(q, k, e))
                /\ Of(Changed(q, k, e), e.item) = {e}
                /\ OthersKept(q, Changed(q, k, e), e.item)
  <1>1. PICK r : r = Changed(q, k, e)
    OBVIOUS
  <1>2. r \in Seq(E!Edits)
    BY <1>1, LenProperties, ExceptSeq DEF Changed
  <1>3. /\ DOMAIN r = DOMAIN q /\ r[k] = e
        /\ \A n \in DOMAIN q \ {k} : r[n] = q[n]
    BY <1>1 DEF Changed
  <1>4. E!Range(r) \subseteq E!Range(q) \cup {e}
    BY <1>3 DEF E!Range
  <1>5. ASSUME Once(q), q[k].item = e.item
        PROVE  Once(r) /\ Of(r, e.item) = {e} /\ OthersKept(q, r, e.item)
    <2>1. \A n \in DOMAIN q \ {k} : q[n].item # e.item
      BY <1>5 DEF Once
    <2>2. Once(r)
      BY <2>1, <1>3, <1>5 DEF Once
    <2>3. Of(r, e.item) = {e}
      BY <2>1, <1>3 DEF Of, E!Range
    <2>4. OthersKept(q, r, e.item)
      BY <2>1, <1>3, <1>5 DEF OthersKept, Of, E!Range
    <2> QED BY <2>2, <2>3, <2>4
  <1> QED BY <1>1, <1>2, <1>4, <1>5

(* A row whose entry is removed has none. *)
LEMMA RemoveEntry ==
    ASSUME NEW q \in Seq(E!Edits), NEW k \in DOMAIN q
    PROVE  /\ E!RemoveAt(q, k) \in Seq(E!Edits)
           /\ E!Range(E!RemoveAt(q, k)) \subseteq E!Range(q)
           /\ Once(q) =>
                /\ Once(E!RemoveAt(q, k))
                /\ Of(E!RemoveAt(q, k), q[k].item) = {}
                /\ OthersKept(q, E!RemoveAt(q, k), q[k].item)
  <1> DEFINE r == E!RemoveAt(q, k)
  <1>1. /\ r \in Seq(E!Edits)
        /\ \A n \in DOMAIN r :
             n \in Nat /\ Before(n, k) \in DOMAIN q \ {k} /\ r[n] = q[Before(n, k)]
        /\ \A m \in DOMAIN q \ {k} : \E n \in DOMAIN r : Before(n, k) = m
        /\ k \in Nat
    BY RemoveIndexes
  <1> HIDE DEF r
  <1>2. \A n, m \in Nat : Before(n, k) = Before(m, k) => n = m
    BY <1>1 DEF Before
  <1>3. E!Range(r) = {q[m] : m \in DOMAIN q \ {k}}
    <2>1. ASSUME NEW m \in DOMAIN q \ {k} PROVE q[m] \in E!Range(r)
      BY <1>1 DEF E!Range
    <2>2. ASSUME NEW x \in E!Range(r) PROVE \E m \in DOMAIN q \ {k} : x = q[m]
      BY <1>1 DEF E!Range
    <2> QED BY <2>1, <2>2
  <1>4. E!Range(r) \subseteq E!Range(q)
    BY <1>3 DEF E!Range
  <1>5. ASSUME Once(q)
        PROVE  /\ Once(r)
               /\ Of(r, q[k].item) = {}
               /\ OthersKept(q, r, q[k].item)
    <2>1. \A n \in DOMAIN q \ {k} : q[n].item # q[k].item
      BY <1>5 DEF Once
    <2>2. Once(r)
      <3> SUFFICES ASSUME NEW n \in DOMAIN r, NEW m \in DOMAIN r, r[n].item = r[m].item
                   PROVE  n = m
        BY DEF Once
      <3>1. q[Before(n, k)].item = q[Before(m, k)].item
        BY <1>1
      <3>2. Before(n, k) = Before(m, k)
        BY <3>1, <1>1, <1>5 DEF Once
      <3> QED BY <3>2, <1>1, <1>2
    <2>3. Of(r, q[k].item) = {}
      BY <2>1, <1>3 DEF Of
    <2>4. OthersKept(q, r, q[k].item)
      BY <2>1, <1>3 DEF OthersKept, Of, E!Range
    <2> QED BY <2>2, <2>3, <2>4
  <1> QED BY <1>1, <1>4, <1>5 DEF r

(* A key that is added to the removals is one once. *)
LEMMA AppendRemoval ==
    ASSUME NEW q \in Seq(Related), NEW i \in Related
    PROVE  /\ Append(q, i) \in Seq(Related)
           /\ E!Range(Append(q, i)) = E!Range(q) \cup {i}
           /\ i \notin E!Range(q) /\ OnceEach(q) => OnceEach(Append(q, i))
  <1> DEFINE r == Append(q, i)
             l == Len(q) + 1
  <1>1. /\ r \in Seq(Related)
        /\ DOMAIN r = DOMAIN q \cup {l}
        /\ l \notin DOMAIN q
        /\ \A n \in DOMAIN q : r[n] = q[n]
        /\ r[l] = i
    BY AppendIndexes
  <1> HIDE DEF r, l
  <1>2. E!Range(r) = E!Range(q) \cup {i}
    BY <1>1 DEF E!Range
  <1>3. ASSUME i \notin E!Range(q), OnceEach(q) PROVE OnceEach(r)
    BY <1>1, <1>3 DEF OnceEach, E!Range
  <1> QED BY <1>1, <1>2, <1>3 DEF r

(* A key that is put back is one no more. *)
LEMMA RemoveRemoval ==
    ASSUME NEW q \in Seq(Related), NEW k \in DOMAIN q
    PROVE  /\ E!RemoveAt(q, k) \in Seq(Related)
           /\ OnceEach(q) =>
                /\ OnceEach(E!RemoveAt(q, k))
                /\ E!Range(E!RemoveAt(q, k)) = E!Range(q) \ {q[k]}
  <1> DEFINE r == E!RemoveAt(q, k)
  <1>1. /\ r \in Seq(Related)
        /\ \A n \in DOMAIN r :
             n \in Nat /\ Before(n, k) \in DOMAIN q \ {k} /\ r[n] = q[Before(n, k)]
        /\ \A m \in DOMAIN q \ {k} : \E n \in DOMAIN r : Before(n, k) = m
        /\ k \in Nat
    BY RemoveIndexes
  <1> HIDE DEF r
  <1>2. \A n, m \in Nat : Before(n, k) = Before(m, k) => n = m
    BY <1>1 DEF Before
  <1>3. ASSUME OnceEach(q) PROVE OnceEach(r) /\ E!Range(r) = E!Range(q) \ {q[k]}
    <2>1. \A n \in DOMAIN q \ {k} : q[n] # q[k]
      BY <1>3 DEF OnceEach
    <2>2. OnceEach(r)
      <3> SUFFICES ASSUME NEW n \in DOMAIN r, NEW m \in DOMAIN r, r[n] = r[m]
                   PROVE  n = m
        BY DEF OnceEach
      <3>1. Before(n, k) = Before(m, k)
        BY <1>1, <1>3 DEF OnceEach
      <3> QED BY <3>1, <1>1, <1>2
    <2>3. ASSUME NEW x \in E!Range(r) PROVE x \in E!Range(q) \ {q[k]}
      BY <2>1, <1>1 DEF E!Range
    <2>4. ASSUME NEW x \in E!Range(q) \ {q[k]} PROVE x \in E!Range(r)
      <3>1. PICK m \in DOMAIN q \ {k} : x = q[m]
        BY DEF E!Range
      <3> QED BY <3>1, <1>1 DEF E!Range
    <2> QED BY <2>2, <2>3, <2>4
  <1> QED BY <1>1, <1>3 DEF r

-----------------------------------------------------------------------------
(* Indexes.                                                                 *)

(* The relation of the library's theorem. *)
LEMMA LessThan ==
    ASSUME NEW m \in Nat, NEW n \in Nat, <<m, n>> \notin OpToRel(<, Nat)
    PROVE  n <= m
  BY DEF OpToRel

(* The least of a set of numbers is one of them. *)
LEMMA LeastIndex ==
    ASSUME NEW ns, ns \subseteq Nat, ns # {}
    PROVE  E!Min(ns) \in ns
  <1>1. PICK n \in ns : \A m \in ns : <<m, n>> \notin OpToRel(<, Nat)
    BY WFMin, NatLessThanWellFounded
  <1>2. \A m \in ns : n <= m
    BY <1>1, LessThan
  <1> QED BY <1>2 DEF E!Min

(* So is the greatest, if there is a bound. *)
LEMMA GreatestIndex ==
    ASSUME NEW ns, NEW l \in Nat, ns \subseteq 1..l, ns # {}
    PROVE  E!Max(ns) \in ns
  <1> DEFINE flipped == {l - n : n \in ns}
  <1>1. flipped \subseteq Nat /\ flipped # {}
    <2>1. \A n \in ns : l - n \in Nat
      OBVIOUS
    <2> QED BY <2>1
  <1>2. PICK f \in flipped : \A m \in flipped : <<m, f>> \notin OpToRel(<, Nat)
    BY <1>1, WFMin, NatLessThanWellFounded
  <1>3. \A m \in ns : f <= l - m
    <2>1. \A m \in flipped : f <= m
      BY <1>1, <1>2, LessThan
    <2> QED BY <2>1
  <1>4. PICK n \in ns : f = l - n
    OBVIOUS
  <1>5. \A m \in ns : n >= m
    <2>1. \A m \in ns : l - n <= l - m /\ m \in Nat /\ n \in Nat
      BY <1>3, <1>4
    <2> QED BY <2>1
  <1> QED BY <1>5 DEF E!Max

(* First finds an index, if there is one; 0 is none. *)
LEMMA FirstIndex ==
    ASSUME NEW ns, NEW l \in Nat, ns \subseteq 1..l
    PROVE  IF ns = {} THEN E!First(ns) = 0 ELSE E!First(ns) \in ns /\ E!First(ns) # 0
  <1>1. CASE ns = {}
    BY <1>1 DEF E!First
  <1>2. CASE ns # {}
    <2>1. ns \subseteq Nat /\ 0 \notin ns
      OBVIOUS
    <2>2. E!Min(ns) \in ns
      BY <1>2, <2>1, LeastIndex
    <2> QED BY <1>2, <2>1, <2>2 DEF E!First
  <1> QED BY <1>1, <1>2

(* The index of the changes to a row. *)
LEMMA UpdateIndex ==
    ASSUME E!TypeOK, NEW i
    PROVE  IF Of(staged.update, i) = {} THEN E!UpdateOf(i) = 0
           ELSE /\ E!UpdateOf(i) \in DOMAIN staged.update /\ E!UpdateOf(i) # 0
                /\ staged.update[E!UpdateOf(i)].item = i
  <1> DEFINE ns == E!Indexes(staged.update, i)
  <1>1. staged.update \in Seq(E!Edits)
    BY DEF E!TypeOK, E!Lists
  <1>2. Len(staged.update) \in Nat /\ DOMAIN staged.update = 1..Len(staged.update)
    BY <1>1, LenProperties
  <1>3. ns \subseteq 1..Len(staged.update)
    BY <1>2 DEF E!Indexes
  <1>4. ns = {} <=> Of(staged.update, i) = {}
    BY DEF E!Indexes, Of, E!Range
  <1>5. IF ns = {} THEN E!First(ns) = 0 ELSE E!First(ns) \in ns /\ E!First(ns) # 0
    BY <1>2, <1>3, FirstIndex
  <1> QED BY <1>4, <1>5 DEF E!UpdateOf, E!Indexes

(* The index of the removal of a row. *)
LEMMA DeleteIndex ==
    ASSUME E!TypeOK, NEW i
    PROVE  IF i \notin E!Range(staged.delete) THEN E!DeleteOf(i) = 0
           ELSE /\ E!DeleteOf(i) \in DOMAIN staged.delete /\ E!DeleteOf(i) # 0
                /\ staged.delete[E!DeleteOf(i)] = i
  <1> DEFINE ns == {n \in DOMAIN staged.delete : staged.delete[n] = i}
  <1>1. staged.delete \in Seq(Related)
    BY DEF E!TypeOK, E!Lists
  <1>2. Len(staged.delete) \in Nat /\ DOMAIN staged.delete = 1..Len(staged.delete)
    BY <1>1, LenProperties
  <1>3. ns \subseteq 1..Len(staged.delete)
    BY <1>2
  <1>4. ns = {} <=> i \notin E!Range(staged.delete)
    BY DEF E!Range
  <1>5. IF ns = {} THEN E!First(ns) = 0 ELSE E!First(ns) \in ns /\ E!First(ns) # 0
    BY <1>2, <1>3, FirstIndex
  <1> QED BY <1>4, <1>5 DEF E!DeleteOf

(* What an item that is displayed says of the lists. *)
LEMMA DisplayedItem ==
    ASSUME E!TypeOK, NEW d \in E!Displayed
    PROVE  /\ d.item \in Related
           /\ d.type = "created" =>
                d.index \in DOMAIN staged.create /\ staged.create[d.index].item = d.item
           /\ d.type = "updated" =>
                /\ d.index \in DOMAIN staged.update /\ staged.update[d.index].item = d.item
                /\ d.item \notin E!Range(staged.delete) \/ staged.update[d.index].attach
           /\ d.type = "deleted" =>
                /\ d.index \in DOMAIN staged.delete /\ staged.delete[d.index] = d.item
                /\ d.edits = 0 => Of(staged.update, d.item) = {}
                /\ d.edits # 0 =>
                     d.edits \in DOMAIN staged.update /\ staged.update[d.edits].item = d.item
           /\ d.type = "none" =>
                /\ d.item \in fetched
                /\ Of(staged.update, d.item) = {} /\ d.item \notin E!Range(staged.delete)
           /\ d.type \in {"created", "updated", "deleted", "none"}
  <1>1. /\ staged.create \in Seq(E!Edits) /\ staged.update \in Seq(E!Edits)
        /\ fetched \subseteq Related
    BY DEF E!TypeOK, E!Lists
  <1>2. CASE \E i \in fetched :
               d = E!Shown(i, IF E!DeleteOf(i) # 0 THEN "deleted"
                              ELSE IF E!UpdateOf(i) # 0 THEN "updated" ELSE "none",
                           IF E!DeleteOf(i) # 0 THEN E!DeleteOf(i) ELSE E!UpdateOf(i),
                           E!UpdateOf(i))
    <2>1. PICK i \in fetched :
               d = E!Shown(i, IF E!DeleteOf(i) # 0 THEN "deleted"
                              ELSE IF E!UpdateOf(i) # 0 THEN "updated" ELSE "none",
                           IF E!DeleteOf(i) # 0 THEN E!DeleteOf(i) ELSE E!UpdateOf(i),
                           E!UpdateOf(i))
      BY <1>2
    <2>2. IF Of(staged.update, i) = {} THEN E!UpdateOf(i) = 0
          ELSE /\ E!UpdateOf(i) \in DOMAIN staged.update /\ E!UpdateOf(i) # 0
               /\ staged.update[E!UpdateOf(i)].item = i
      BY UpdateIndex
    <2>3. IF i \notin E!Range(staged.delete) THEN E!DeleteOf(i) = 0
          ELSE /\ E!DeleteOf(i) \in DOMAIN staged.delete /\ E!DeleteOf(i) # 0
               /\ staged.delete[E!DeleteOf(i)] = i
      BY DeleteIndex
    <2>4. /\ d.item = i /\ d.edits = E!UpdateOf(i) /\ i \in Related
          /\ d.type = IF E!DeleteOf(i) # 0 THEN "deleted"
                      ELSE IF E!UpdateOf(i) # 0 THEN "updated" ELSE "none"
          /\ d.index = IF E!DeleteOf(i) # 0 THEN E!DeleteOf(i) ELSE E!UpdateOf(i)
      BY <2>1, <1>1 DEF E!Shown
    <2>5. CASE E!DeleteOf(i) # 0
      BY <2>2, <2>3, <2>4, <2>5
    <2>6. CASE E!DeleteOf(i) = 0
      BY <2>2, <2>3, <2>4, <2>6
    <2> QED BY <2>5, <2>6
  <1>3. CASE \E n \in DOMAIN staged.update :
               staged.update[n].attach /\ d = E!Shown(staged.update[n].item, "updated", n, 0)
    <2>1. PICK n \in DOMAIN staged.update :
               staged.update[n].attach /\ d = E!Shown(staged.update[n].item, "updated", n, 0)
      BY <1>3
    <2>2. staged.update[n] \in E!Edits
      BY <1>1, LenProperties
    <2>3. staged.update[n].item \in Related
      BY <2>2 DEF E!Edits
    <2> QED BY <2>1, <2>3 DEF E!Shown
  <1>4. CASE \E n \in DOMAIN staged.create : d = E!Shown(staged.create[n].item, "created", n, 0)
    <2>1. PICK n \in DOMAIN staged.create : d = E!Shown(staged.create[n].item, "created", n, 0)
      BY <1>4
    <2>2. staged.create[n] \in E!Edits
      BY <1>1, LenProperties
    <2>3. staged.create[n].item \in Related
      BY <2>2 DEF E!Edits
    <2> QED BY <2>1, <2>3 DEF E!Shown
  <1> QED BY <1>2, <1>3, <1>4 DEF E!Displayed

(* A row that is not displayed, and has no entry, is new to the page. *)
LEMMA NotDisplayed ==
    ASSUME E!TypeOK, NEW i, \A d \in E!Displayed : d.item # i
    PROVE  i \notin fetched /\ Of(staged.create, i) = {}
  <1>1. ASSUME i \in fetched PROVE FALSE
    <2> DEFINE t == IF E!DeleteOf(i) # 0 THEN "deleted"
                    ELSE IF E!UpdateOf(i) # 0 THEN "updated" ELSE "none"
               x == IF E!DeleteOf(i) # 0 THEN E!DeleteOf(i) ELSE E!UpdateOf(i)
    <2>1. E!Shown(i, t, x, E!UpdateOf(i)) \in E!Displayed
      BY <1>1 DEF E!Displayed
    <2>2. E!Shown(i, t, x, E!UpdateOf(i)).item = i
      BY DEF E!Shown
    <2> QED BY <2>1, <2>2
  <1>2. ASSUME NEW n \in DOMAIN staged.create PROVE staged.create[n].item # i
    <2>1. E!Shown(staged.create[n].item, "created", n, 0) \in E!Displayed
      BY DEF E!Displayed
    <2>2. E!Shown(staged.create[n].item, "created", n, 0).item = staged.create[n].item
      BY DEF E!Shown
    <2> QED BY <2>1, <2>2
  <1> QED BY <1>1, <1>2 DEF Of, E!Range

-----------------------------------------------------------------------------
(* RelationEdits.  Until the next save, and unless an edit was muddled, the *)
(* lists have at most one entry of a row each, which say what the user      *)
(* asked for it: a row that is created is in no other list, and one that    *)
(* is to be removed was not selected.                                       *)

(* A row that is created always has a value.                                *)
ValuesGiven == \A e \in E!Range(staged.create) : e.value \in Values

EntriesOnce == Once(staged.create) /\ Once(staged.update) /\ OnceEach(staged.delete)

ToRemove(i) == i \in E!Range(staged.delete)

AskedToCreate(i) ==
    /\ Of(staged.update, i) = {} /\ ~ToRemove(i)
    /\ rows[i] = Missing /\ i \notin fetched
    /\ \E v \in Values : /\ Of(staged.create, i) = {E!Edit(i, v, FALSE)}
                         /\ E!Asked[i] = E!Ask("created", v)

AskedToEdit(i) ==
    /\ Of(staged.create, i) = {}
    /\ \E v \in Values \cup {Same}, attach \in BOOLEAN :
         /\ Of(staged.update, i) = {E!Edit(i, v, attach)}
         /\ attach => ~ToRemove(i)
         /\ E!Asked[i] = E!Ask(IF ToRemove(i) THEN "unlinked" ELSE "linked", v)

NotEdited(i) ==
    /\ Of(staged.create, i) = {} /\ Of(staged.update, i) = {}
    /\ E!Asked[i] = IF ToRemove(i) THEN E!Ask("unlinked", Same) ELSE E!Nothing

AsAsked(i) == AskedToCreate(i) \/ AskedToEdit(i) \/ NotEdited(i)

StagedAsAsked == EntriesOnce /\ \A i \in Related : AsAsked(i)

EditsSafe ==
    /\ E!TypeOK /\ ValuesGiven
    /\ saves = 0 /\ ~muddled => StagedAsAsked

(* The lists have their types. *)
LEMMA ListTypes ==
    ASSUME E!TypeOK
    PROVE  /\ staged \in E!Lists
           /\ staged.create \in Seq(E!Edits) /\ staged.update \in Seq(E!Edits)
           /\ staged.delete \in Seq(Related)
           /\ E!Range(staged.create) \subseteq E!Edits /\ E!Range(staged.update) \subseteq E!Edits
           /\ \A x \in Seq(E!Edits) : [staged EXCEPT !.create = x] \in E!Lists
           /\ \A x \in Seq(E!Edits) : [staged EXCEPT !.update = x] \in E!Lists
           /\ \A x \in Seq(Related) : [staged EXCEPT !.delete = x] \in E!Lists
  <1>1. /\ staged \in E!Lists
        /\ staged.create \in Seq(E!Edits) /\ staged.update \in Seq(E!Edits)
        /\ staged.delete \in Seq(Related)
    BY DEF E!TypeOK, E!Lists
  <1>2. E!Range(staged.create) \subseteq E!Edits /\ E!Range(staged.update) \subseteq E!Edits
    BY <1>1, LenProperties DEF E!Range
  <1>3. /\ \A x \in Seq(E!Edits) : [staged EXCEPT !.create = x] \in E!Lists
        /\ \A x \in Seq(E!Edits) : [staged EXCEPT !.update = x] \in E!Lists
        /\ \A x \in Seq(Related) : [staged EXCEPT !.delete = x] \in E!Lists
    BY <1>1 DEF E!Lists
  <1> QED BY <1>1, <1>2, <1>3

(* What is asked of one item leaves what is asked of the others. *)
LEMMA AskStep ==
    ASSUME E!TypeOK, NEW i \in Related, NEW a \in E!Asks, E!Want(i, a)
    PROVE  /\ want' \in [Related -> E!Asks] /\ dropped' \subseteq Related
           /\ E!Asked'[i] = a
           /\ \A j \in Related \ {i} : E!Asked'[j] = E!Asked[j]
  <1>1. /\ want' \in [Related -> E!Asks] /\ dropped' \subseteq Related
        /\ want'[i] = a /\ i \notin dropped'
        /\ \A j \in Related \ {i} :
             want'[j] = want[j] /\ (j \in dropped' <=> j \in dropped)
    BY DEF E!TypeOK, E!Want
  <1> QED BY <1>1 DEF E!Asked

(* What was asked of a row last is a value or none. *)
LEMMA AskedType ==
    ASSUME E!TypeOK, NEW i \in Related
    PROVE  E!Asked[i] \in E!Asks /\ E!Asked[i].value \in Values \cup {Same}
  <1>1. E!Nothing \in E!Asks
    BY DEF E!Nothing, E!Ask, E!Asks
  <1>2. E!Asked[i] \in E!Asks
    BY <1>1 DEF E!Asked, E!TypeOK
  <1> QED BY <1>2 DEF E!Asks

(* A row of which nothing changes has what is asked for it staged. *)
LEMMA AsAskedStill ==
    ASSUME NEW j, AsAsked(j),
           Of(staged.create, j)' = Of(staged.create, j),
           Of(staged.update, j)' = Of(staged.update, j),
           ToRemove(j)' <=> ToRemove(j),
           E!Asked'[j] = E!Asked[j], rows'[j] = rows[j], fetched' = fetched
    PROVE  AsAsked(j)'
  <1>1. CASE AskedToCreate(j)
    BY <1>1 DEF AskedToCreate, AsAsked
  <1>2. CASE AskedToEdit(j)
    BY <1>2 DEF AskedToEdit, AsAsked
  <1>3. CASE NotEdited(j)
    BY <1>3 DEF NotEdited, AsAsked, E!Nothing, E!Ask
  <1> QED BY <1>1, <1>2, <1>3 DEF AsAsked

(* What the user does to one item leaves what is staged of the others. *)
LEMMA EditStep ==
    ASSUME EditsSafe, NEW i \in Related, NEW a \in E!Asks,
           staged' \in E!Lists, ValuesGiven', E!Want(i, a),
           muddled' \in BOOLEAN, muddled => muddled',
           UNCHANGED E!elsewhere,
           StagedAsAsked /\ ~muddled' =>
             /\ EntriesOnce' /\ AsAsked(i)'
             /\ \A j \in Related \ {i} : /\ Of(staged.create, j)' = Of(staged.create, j)
                                         /\ Of(staged.update, j)' = Of(staged.update, j)
                                         /\ ToRemove(j)' <=> ToRemove(j)
    PROVE  EditsSafe'
  <1>1. /\ want' \in [Related -> E!Asks] /\ dropped' \subseteq Related
        /\ \A j \in Related \ {i} : E!Asked'[j] = E!Asked[j]
    BY AskStep DEF EditsSafe
  <1>2. E!TypeOK' /\ saves' = saves /\ rows' = rows /\ fetched' = fetched
    BY <1>1 DEF EditsSafe, E!TypeOK, E!elsewhere
  <1>3. ASSUME saves' = 0, ~muddled' PROVE StagedAsAsked'
    <2>1. StagedAsAsked
      BY <1>2, <1>3 DEF EditsSafe
    <2>2. ASSUME NEW j \in Related \ {i} PROVE AsAsked(j)'
      <3>1. /\ Of(staged.create, j)' = Of(staged.create, j)
            /\ Of(staged.update, j)' = Of(staged.update, j)
            /\ ToRemove(j)' <=> ToRemove(j)
        BY <1>3, <2>1, <2>2
      <3>2. E!Asked'[j] = E!Asked[j] /\ rows'[j] = rows[j] /\ fetched' = fetched
        BY <1>1, <1>2, <2>2
      <3>3. AsAsked(j)
        BY <2>1, <2>2 DEF StagedAsAsked
      <3> QED BY <3>1, <3>2, <3>3, AsAskedStill
    <2> QED BY <1>3, <2>1, <2>2 DEF StagedAsAsked
  <1> QED BY <1>2, <1>3 DEF EditsSafe

(* Create. *)
LEMMA CreateStep == ASSUME EditsSafe, NEW i \in Related, E!Create(i) PROVE EditsSafe'
  <1>1. E!TypeOK /\ ValuesGiven
    BY DEF EditsSafe
  <1>2. PICK v \in Values :
             /\ staged' = [staged EXCEPT !.create = Append(@, E!Edit(i, v, FALSE))]
             /\ E!Want(i, E!Ask("created", v))
    BY DEF E!Create
  <1>3. PICK e : e = E!Edit(i, v, FALSE)
    OBVIOUS
  <1>4. e \in E!Edits /\ e.item = i /\ e.value = v
    BY <1>3 DEF E!Edit, E!Edits
  <1>5. /\ Append(staged.create, e) \in Seq(E!Edits)
        /\ OthersKept(staged.create, Append(staged.create, e), i)
        /\ Of(staged.create, i) = {} =>
             /\ Of(Append(staged.create, e), i) = {e}
             /\ Once(staged.create) => Once(Append(staged.create, e))
    BY <1>1, <1>4, ListTypes, AppendEntry
  <1>6. /\ staged' \in E!Lists
        /\ staged'.create = Append(staged.create, e)
        /\ staged'.update = staged.update /\ staged'.delete = staged.delete
    BY <1>1, <1>2, <1>3, <1>5, ListTypes DEF E!Lists
  <1>7. ValuesGiven'
    <2>1. E!Range(staged'.create) = E!Range(staged.create) \cup {e}
      BY <1>1, <1>4, <1>6, ListTypes, AppendEntry
    <2> QED BY <2>1, <1>1, <1>4 DEF ValuesGiven
  <1>8. /\ rows[i] = Missing /\ i \notin fetched /\ Of(staged.create, i) = {}
        /\ Of(staged.update, i) = {} /\ i \notin E!Range(staged.delete)
    <2>1. i \notin fetched /\ Of(staged.create, i) = {}
      BY <1>1, NotDisplayed DEF E!Create
    <2>2. Of(staged.update, i) = {} /\ i \notin E!Range(staged.delete)
      BY <1>1, UpdateIndex, DeleteIndex DEF E!Create
    <2> QED BY <2>1, <2>2 DEF E!Create
  <1>9. E!Ask("created", v) \in E!Asks
    BY DEF E!Ask, E!Asks
  <1>10. E!Asked'[i] = E!Ask("created", v)
    BY <1>1, <1>2, <1>9, AskStep
  <1>11. UNCHANGED <<E!elsewhere, rows, fetched, muddled>>
    BY DEF E!Create, E!elsewhere
  <1>12. AsAsked(i)'
    <2>1. Of(staged'.create, i) = {E!Edit(i, v, FALSE)}
      BY <1>3, <1>5, <1>6, <1>8
    <2>2. Of(staged'.update, i) = {} /\ i \notin E!Range(staged'.delete)
      BY <1>6, <1>8
    <2> QED BY <2>1, <2>2, <1>8, <1>10, <1>11 DEF AsAsked, AskedToCreate, ToRemove
  <1>13. StagedAsAsked => EntriesOnce'
    BY <1>5, <1>6, <1>8 DEF StagedAsAsked, EntriesOnce
  <1>14. \A j \in Related \ {i} : /\ Of(staged.create, j)' = Of(staged.create, j)
                                  /\ Of(staged.update, j)' = Of(staged.update, j)
                                  /\ ToRemove(j)' <=> ToRemove(j)
    BY <1>5, <1>6 DEF ToRemove, OthersKept
  <1>15. muddled' \in BOOLEAN /\ (muddled => muddled')
    BY <1>1, <1>11 DEF E!TypeOK
  <1> QED BY <1>2, <1>6, <1>7, <1>9, <1>11, <1>12, <1>13, <1>14, <1>15, EditStep

(* What is known of the row of an entry. *)
LEMMA CreatedRow ==
    ASSUME StagedAsAsked, NEW n \in DOMAIN staged.create, NEW i \in Related,
           staged.create[n].item = i
    PROVE  /\ Of(staged.create, i) = {staged.create[n]} /\ Of(staged.update, i) = {}
           /\ ~ToRemove(i) /\ rows[i] = Missing /\ i \notin fetched
  <1>1. Of(staged.create, i) = {staged.create[n]}
    BY OnlyEntry DEF StagedAsAsked, EntriesOnce
  <1>2. AskedToCreate(i)
    BY <1>1 DEF StagedAsAsked, AsAsked, AskedToEdit, NotEdited
  <1> QED BY <1>1, <1>2 DEF AskedToCreate

LEMMA EditedRow ==
    ASSUME StagedAsAsked, NEW n \in DOMAIN staged.update, NEW i \in Related,
           staged.update[n].item = i
    PROVE  /\ Of(staged.create, i) = {} /\ Of(staged.update, i) = {staged.update[n]}
           /\ staged.update[n].attach \in BOOLEAN
           /\ staged.update[n] = E!Edit(i, staged.update[n].value, staged.update[n].attach)
           /\ staged.update[n].attach => ~ToRemove(i)
           /\ E!Asked[i] = E!Ask(IF ToRemove(i) THEN "unlinked" ELSE "linked",
                              staged.update[n].value)
  <1>1. Of(staged.update, i) = {staged.update[n]}
    BY OnlyEntry DEF StagedAsAsked, EntriesOnce
  <1>2. AskedToEdit(i)
    BY <1>1 DEF StagedAsAsked, AsAsked, AskedToCreate, NotEdited
  <1>3. PICK v \in Values \cup {Same}, attach \in BOOLEAN :
         /\ Of(staged.update, i) = {E!Edit(i, v, attach)}
         /\ attach => ~ToRemove(i)
         /\ E!Asked[i] = E!Ask(IF ToRemove(i) THEN "unlinked" ELSE "linked", v)
    BY <1>2 DEF AskedToEdit
  <1>4. staged.update[n] = E!Edit(i, v, attach)
    BY <1>1, <1>3
  <1>5. staged.update[n].value = v /\ staged.update[n].attach = attach
    BY <1>4 DEF E!Edit
  <1>6. Of(staged.create, i) = {}
    BY <1>2 DEF AskedToEdit
  <1> QED BY <1>1, <1>3, <1>4, <1>5, <1>6

LEMMA UneditedRow ==
    ASSUME StagedAsAsked, NEW i \in Related, Of(staged.update, i) = {},
           i \in fetched \/ ToRemove(i)
    PROVE  Of(staged.create, i) = {} /\ NotEdited(i)
  <1>1. NotEdited(i)
    BY DEF StagedAsAsked, AsAsked, AskedToCreate, AskedToEdit
  <1> QED BY <1>1 DEF NotEdited

(* UpdateCreated. *)
LEMMA UpdateCreatedStep ==
    ASSUME EditsSafe, NEW d \in E!Displayed, E!UpdateCreated(d) PROVE EditsSafe'
  <1>1. E!TypeOK /\ ValuesGiven
    BY DEF EditsSafe
  <1>2. PICK i : i = d.item
    OBVIOUS
  <1>3. PICK k : k = d.index
    OBVIOUS
  <1>4. PICK v \in Values :
             /\ staged' = [staged EXCEPT !.create[k] = E!Edit(i, v, FALSE)]
             /\ E!Want(i, E!Ask("created", v))
    BY <1>2, <1>3 DEF E!UpdateCreated
  <1>5. PICK e : e = E!Edit(i, v, FALSE)
    OBVIOUS
  <1>6. i \in Related /\ k \in DOMAIN staged.create /\ staged.create[k].item = i
    BY <1>1, <1>2, <1>3, DisplayedItem DEF E!UpdateCreated
  <1>7. e \in E!Edits /\ e.item = i /\ e.value = v
    BY <1>5, <1>6 DEF E!Edit, E!Edits
  <1>8. PICK r : r = Changed(staged.create, k, e)
    OBVIOUS
  <1>9. /\ r \in Seq(E!Edits)
        /\ E!Range(r) \subseteq E!Range(staged.create) \cup {e}
        /\ Once(staged.create) =>
             Once(r) /\ Of(r, i) = {e} /\ OthersKept(staged.create, r, i)
    <2>1. PICK q : q = staged.create
      OBVIOUS
    <2>2. q \in Seq(E!Edits) /\ k \in DOMAIN q /\ q[k].item = e.item
      BY <2>1, <1>1, <1>6, <1>7, ListTypes
    <2>3. r = Changed(q, k, e)
      BY <2>1, <1>8
    <2>4. r \in Seq(E!Edits) /\ E!Range(r) \subseteq E!Range(q) \cup {e}
      BY <2>2, <2>3, <1>7, ChangeEntry
    <2>5. Once(q) => Once(r)
      BY <2>2, <2>3, <1>7, ChangeEntry
    <2>6. Once(q) => Of(r, e.item) = {e}
      BY <2>2, <2>3, <1>7, ChangeEntry
    <2>7. Once(q) => OthersKept(q, r, e.item)
      BY <2>2, <2>3, <1>7, ChangeEntry
    <2> QED BY <2>1, <2>4, <2>5, <2>6, <2>7, <1>7
  <1>10. /\ staged' \in E!Lists
         /\ staged'.create = r
         /\ staged'.update = staged.update /\ staged'.delete = staged.delete
    BY <1>1, <1>4, <1>5, <1>8, <1>9, ListTypes DEF E!Lists, Changed
  <1>11. ValuesGiven'
    BY <1>1, <1>7, <1>9, <1>10 DEF ValuesGiven
  <1>12. UNCHANGED <<E!elsewhere, rows, fetched, muddled>>
    BY DEF E!UpdateCreated, E!elsewhere
  <1>13. E!Ask("created", v) \in E!Asks /\ E!Asked'[i] = E!Ask("created", v)
    <2>1. E!Ask("created", v) \in E!Asks
      BY DEF E!Ask, E!Asks
    <2> QED BY <2>1, <1>1, <1>4, <1>6, AskStep
  <1>14. muddled' \in BOOLEAN /\ (muddled => muddled')
    BY <1>1, <1>12 DEF E!TypeOK
  <1>15. ASSUME StagedAsAsked
         PROVE  /\ EntriesOnce' /\ AsAsked(i)'
                /\ \A j \in Related \ {i} : /\ Of(staged.create, j)' = Of(staged.create, j)
                                            /\ Of(staged.update, j)' = Of(staged.update, j)
                                            /\ ToRemove(j)' <=> ToRemove(j)
    <2>1. Once(r) /\ Of(r, i) = {e} /\ OthersKept(staged.create, r, i)
      BY <1>9, <1>15 DEF StagedAsAsked, EntriesOnce
    <2>2. EntriesOnce'
      BY <2>1, <1>10, <1>15 DEF StagedAsAsked, EntriesOnce
    <2>3. /\ Of(staged.update, i) = {} /\ i \notin E!Range(staged.delete)
          /\ rows[i] = Missing /\ i \notin fetched
      BY <1>6, <1>15, CreatedRow DEF ToRemove
    <2>4. AsAsked(i)'
      BY <2>1, <2>3, <1>5, <1>10, <1>12, <1>13 DEF AsAsked, AskedToCreate, ToRemove
    <2> QED BY <2>1, <2>2, <2>4, <1>10 DEF ToRemove, OthersKept
  <1> QED BY <1>4, <1>6, <1>10, <1>11, <1>12, <1>13, <1>14, <1>15, EditStep

(* UpdateFirst. *)
LEMMA UpdateFirstStep ==
    ASSUME EditsSafe, NEW d \in E!Displayed, E!UpdateFirst(d) PROVE EditsSafe'
  <1>1. E!TypeOK /\ ValuesGiven
    BY DEF EditsSafe
  <1>2. PICK i : i = d.item
    OBVIOUS
  <1>3. PICK link : link = IF d.type = "none" THEN "linked" ELSE "unlinked"
    OBVIOUS
  <1>4. PICK v \in Values \cup {Same} :
             /\ staged' = [staged EXCEPT !.update = Append(staged.update, E!Edit(i, v, FALSE))]
             /\ E!Want(i, E!Ask(link, v))
    BY <1>2, <1>3 DEF E!UpdateFirst, E!StageEdits
  <1>5. PICK e : e = E!Edit(i, v, FALSE)
    OBVIOUS
  <1>6. /\ i \in Related /\ Of(staged.update, i) = {}
        /\ i \in fetched \/ ToRemove(i)
        /\ link = IF ToRemove(i) THEN "unlinked" ELSE "linked"
    BY <1>1, <1>2, <1>3, DisplayedItem DEF E!UpdateFirst, ToRemove, E!Range
  <1>7. e \in E!Edits /\ e.item = i
    BY <1>5, <1>6 DEF E!Edit, E!Edits
  <1>8. PICK r : r = Append(staged.update, e)
    OBVIOUS
  <1>9. /\ r \in Seq(E!Edits)
        /\ Of(r, i) = {e} /\ OthersKept(staged.update, r, i)
        /\ Once(staged.update) => Once(r)
    <2>1. staged.update \in Seq(E!Edits)
      BY <1>1, ListTypes
    <2>2. /\ r \in Seq(E!Edits)
          /\ OthersKept(staged.update, r, e.item)
          /\ Of(staged.update, e.item) = {} =>
               Of(r, e.item) = {e} /\ (Once(staged.update) => Once(r))
      BY <2>1, <1>7, <1>8, AppendEntry
    <2> QED BY <2>2, <1>6, <1>7
  <1>10. /\ staged' \in E!Lists
         /\ staged'.update = r
         /\ staged'.create = staged.create /\ staged'.delete = staged.delete
    BY <1>1, <1>4, <1>5, <1>8, <1>9, ListTypes DEF E!Lists
  <1>11. ValuesGiven'
    BY <1>1, <1>10 DEF ValuesGiven
  <1>12. UNCHANGED <<E!elsewhere, muddled>>
    BY DEF E!UpdateFirst
  <1>13. E!Ask(link, v) \in E!Asks /\ E!Asked'[i] = E!Ask(link, v)
    <2>1. E!Ask(link, v) \in E!Asks
      BY <1>3 DEF E!Ask, E!Asks
    <2> QED BY <2>1, <1>1, <1>4, <1>6, AskStep
  <1>14. muddled' \in BOOLEAN /\ (muddled => muddled')
    BY <1>1, <1>12 DEF E!TypeOK
  <1>15. ASSUME StagedAsAsked
         PROVE  /\ EntriesOnce' /\ AsAsked(i)'
                /\ \A j \in Related \ {i} : /\ Of(staged.create, j)' = Of(staged.create, j)
                                            /\ Of(staged.update, j)' = Of(staged.update, j)
                                            /\ ToRemove(j)' <=> ToRemove(j)
    <2>1. EntriesOnce'
      BY <1>9, <1>10, <1>15 DEF StagedAsAsked, EntriesOnce
    <2>2. Of(staged.create, i) = {}
      BY <1>6, <1>15, UneditedRow
    <2>3. ToRemove(i)' <=> ToRemove(i)
      BY <1>10 DEF ToRemove
    <2>4. AskedToEdit(i)'
      BY <2>2, <2>3, <1>5, <1>6, <1>9, <1>10, <1>13 DEF AskedToEdit
    <2> QED BY <2>1, <2>4, <1>9, <1>10 DEF ToRemove, AsAsked, OthersKept
  <1> QED BY <1>4, <1>6, <1>10, <1>11, <1>12, <1>13, <1>14, <1>15, EditStep

(* UpdateAgain, when the entry says nothing any more: it is removed, or, if *)
(* the item is to be removed itself, another one, which muddles.            *)
LEMMA ForgetEditStep ==
    ASSUME EditsSafe, NEW i \in Related, NEW k \in Nat \ {0},
           NEW n \in DOMAIN staged.update, staged.update[n].item = i,
           NEW link, link = IF ToRemove(i) THEN "unlinked" ELSE "as is",
           NEW r, r = (IF k <= Len(staged.update) THEN E!RemoveAt(staged.update, k)
                       ELSE staged.update),
           staged' = [staged EXCEPT !.update = r],
           E!Want(i, E!Ask(link, Same)),
           muddled' \in BOOLEAN, muddled => muddled', k # n => muddled',
           UNCHANGED E!elsewhere
    PROVE  EditsSafe'
  <1>1. E!TypeOK /\ ValuesGiven
    BY DEF EditsSafe
  <1>2. PICK q : q = staged.update
    OBVIOUS
  <1>3. q \in Seq(E!Edits)
    BY <1>1, <1>2, ListTypes
  <1>4. k \in DOMAIN q <=> k <= Len(q)
    BY <1>3, ListIndex
  <1>5. r = IF k <= Len(q) THEN E!RemoveAt(q, k) ELSE q
    BY <1>2
  <1>6. r \in Seq(E!Edits)
    <2>1. CASE k <= Len(q)
      <3>1. k \in DOMAIN q
        BY <2>1, <1>4
      <3>2. E!RemoveAt(q, k) \in Seq(E!Edits)
        BY <3>1, <1>3, RemoveEntry
      <3> QED BY <2>1, <3>2, <1>5
    <2>2. CASE ~(k <= Len(q))
      BY <2>2, <1>3, <1>5
    <2> QED BY <2>1, <2>2
  <1>7. /\ staged' \in E!Lists
        /\ staged'.update = r
        /\ staged'.create = staged.create /\ staged'.delete = staged.delete
    BY <1>1, <1>2, <1>5, <1>6, ListTypes DEF E!Lists
  <1>8. ValuesGiven'
    BY <1>1, <1>7 DEF ValuesGiven
  <1>9. E!Ask(link, Same) \in E!Asks
    BY DEF E!Ask, E!Asks
  <1>10. E!Asked'[i] = E!Ask(link, Same)
    BY <1>1, <1>9, AskStep
  <1>11. ASSUME StagedAsAsked, ~muddled'
         PROVE  /\ EntriesOnce' /\ AsAsked(i)'
                /\ \A j \in Related \ {i} : /\ Of(staged.create, j)' = Of(staged.create, j)
                                            /\ Of(staged.update, j)' = Of(staged.update, j)
                                            /\ ToRemove(j)' <=> ToRemove(j)
    <2>1. n \in DOMAIN q /\ q[n].item = i
      BY <1>2
    <2>2. k = n /\ r = E!RemoveAt(q, n)
      <3>1. k = n
        BY <1>11
      <3>2. k <= Len(q)
        BY <3>1, <2>1, <1>4
      <3> QED BY <3>1, <3>2, <1>5
    <2>3. Once(q)
      BY <1>2, <1>11 DEF StagedAsAsked, EntriesOnce
    <2>4. Once(r) /\ Of(r, q[n].item) = {} /\ OthersKept(q, r, q[n].item)
      BY <2>1, <2>2, <2>3, <1>3, RemoveEntry
    <2>5. EntriesOnce'
      BY <2>4, <1>7, <1>11 DEF StagedAsAsked, EntriesOnce
    <2>6. Of(staged.create, i) = {}
      BY <1>11, EditedRow
    <2>7. ToRemove(i)' <=> ToRemove(i)
      BY <1>7 DEF ToRemove
    <2>8. NotEdited(i)'
      BY <2>1, <2>4, <2>6, <2>7, <1>7, <1>10 DEF NotEdited, E!Nothing
    <2> QED BY <2>1, <2>4, <2>5, <2>8, <1>2, <1>7 DEF ToRemove, AsAsked, OthersKept
  <1> QED BY <1>7, <1>8, <1>9, <1>11, EditStep

(* UpdateAgain, with another value.                                         *)
LEMMA ChangeEditStep ==
    ASSUME EditsSafe, NEW i \in Related, NEW link,
           NEW n \in DOMAIN staged.update, staged.update[n].item = i,
           StagedAsAsked => link = IF ToRemove(i) THEN "unlinked" ELSE "linked",
           link \in {"linked", "unlinked"},
           NEW v \in Values \cup {Same},
           staged' = [staged EXCEPT
                        !.update = [staged.update EXCEPT
                                      ![n] = E!Edit(i, v, staged.update[n].attach)]],
           E!Want(i, E!Ask(link, v)),
           UNCHANGED <<E!elsewhere, muddled>>
    PROVE  EditsSafe'
  <1>1. E!TypeOK /\ ValuesGiven
    BY DEF EditsSafe
  <1>2. PICK q : q = staged.update
    OBVIOUS
  <1>3. q \in Seq(E!Edits) /\ n \in DOMAIN q /\ q[n].item = i
    BY <1>1, <1>2, ListTypes
  <1>4. PICK e : e = E!Edit(i, v, q[n].attach)
    OBVIOUS
  <1>5. e \in E!Edits
    <2>1. q[n] \in E!Edits
      BY <1>3, LenProperties
    <2>2. q[n].attach \in BOOLEAN
      BY <2>1 DEF E!Edits
    <2> QED BY <2>2, <1>4 DEF E!Edit, E!Edits
  <1>6. e.item = i
    BY <1>4 DEF E!Edit
  <1>7. PICK r : r = Changed(q, n, e)
    OBVIOUS
  <1>8. r \in Seq(E!Edits)
    BY <1>3, <1>5, <1>7, ChangeEntry
  <1>9. Once(q) => Once(r) /\ Of(r, e.item) = {e} /\ OthersKept(q, r, e.item)
    <2>1. q[n].item = e.item
      BY <1>3, <1>6
    <2>2. Once(q) => Once(r)
      BY <2>1, <1>3, <1>5, <1>7, ChangeEntry
    <2>3. Once(q) => Of(r, e.item) = {e}
      BY <2>1, <1>3, <1>5, <1>7, ChangeEntry
    <2>4. Once(q) => OthersKept(q, r, e.item)
      BY <2>1, <1>3, <1>5, <1>7, ChangeEntry
    <2> QED BY <2>2, <2>3, <2>4
  <1>10. /\ staged' \in E!Lists
         /\ staged'.update = r
         /\ staged'.create = staged.create /\ staged'.delete = staged.delete
    <2>1. staged' = [staged EXCEPT !.update = r]
      BY <1>2, <1>4, <1>7 DEF Changed
    <2> QED BY <2>1, <1>1, <1>8, ListTypes DEF E!Lists
  <1>11. ValuesGiven'
    BY <1>1, <1>10 DEF ValuesGiven
  <1>12. E!Ask(link, v) \in E!Asks /\ E!Asked'[i] = E!Ask(link, v)
    <2>1. E!Ask(link, v) \in E!Asks
      BY DEF E!Ask, E!Asks
    <2> QED BY <2>1, <1>1, AskStep
  <1>13. muddled' \in BOOLEAN /\ (muddled => muddled')
    BY <1>1 DEF E!TypeOK
  <1>14. ASSUME StagedAsAsked
         PROVE  /\ EntriesOnce' /\ AsAsked(i)'
                /\ \A j \in Related \ {i} : /\ Of(staged.create, j)' = Of(staged.create, j)
                                            /\ Of(staged.update, j)' = Of(staged.update, j)
                                            /\ ToRemove(j)' <=> ToRemove(j)
    <2>1. Once(r) /\ Of(r, i) = {e} /\ OthersKept(q, r, i)
      BY <1>2, <1>6, <1>9, <1>14 DEF StagedAsAsked, EntriesOnce
    <2>2. EntriesOnce'
      BY <2>1, <1>10, <1>14 DEF StagedAsAsked, EntriesOnce
    <2>3. /\ Of(staged.create, i) = {}
          /\ staged.update[n].attach \in BOOLEAN
          /\ staged.update[n].attach => ~ToRemove(i)
      BY <1>14, EditedRow
    <2>4. ToRemove(i)' <=> ToRemove(i)
      BY <1>10 DEF ToRemove
    <2>5. AskedToEdit(i)'
      <3>1. PICK at \in BOOLEAN : at = q[n].attach
        BY <2>3, <1>2
      <3>2. e = E!Edit(i, v, at) /\ (at => ~ToRemove(i))
        BY <3>1, <2>3, <1>2, <1>4
      <3> QED BY <3>2, <2>1, <2>3, <2>4, <1>10, <1>12, <1>14 DEF AskedToEdit
    <2> QED BY <2>1, <2>2, <2>5, <1>2, <1>10 DEF ToRemove, AsAsked, OthersKept
  <1> QED BY <1>10, <1>11, <1>12, <1>13, <1>14, EditStep

(* UpdateAgain. *)
LEMMA UpdateAgainStep ==
    ASSUME EditsSafe, NEW d \in E!Displayed, E!UpdateAgain(d) PROVE EditsSafe'
  <1>1. E!TypeOK
    BY DEF EditsSafe
  <1>2. PICK i : i = d.item
    OBVIOUS
  <1>3. PICK n : n = IF d.type = "deleted" THEN d.edits ELSE d.index
    OBVIOUS
  <1>4. d.type = "updated" \/ (d.type = "deleted" /\ d.edits # 0)
    BY DEF E!UpdateAgain
  <1>5. /\ i \in Related /\ n \in DOMAIN staged.update /\ staged.update[n].item = i
        /\ d.type = "deleted" => ToRemove(i)
        /\ d.type = "updated" => ~ToRemove(i) \/ staged.update[n].attach
    BY <1>1, <1>2, <1>3, <1>4, DisplayedItem DEF ToRemove, E!Range
  <1>6. E!Entry(d) = staged.update[n]
    BY <1>3, <1>4 DEF E!Entry
  <1>7. PICK v \in Values \cup {Same} :
          IF v = Same /\ ~staged.update[n].attach
          THEN /\ E!StageEdits(IF d.index <= Len(staged.update)
                               THEN E!RemoveAt(staged.update, d.index) ELSE staged.update)
               /\ E!Want(i, E!Ask(IF d.type = "deleted" THEN "unlinked" ELSE "as is", Same))
               /\ muddled' = (muddled \/ d.index # n)
          ELSE /\ E!StageEdits([staged.update EXCEPT
                                  ![n] = E!Edit(i, v, staged.update[n].attach)])
               /\ E!Want(i, E!Ask(IF d.type = "deleted" THEN "unlinked" ELSE "linked", v))
               /\ UNCHANGED muddled
    BY <1>2, <1>3, <1>6 DEF E!UpdateAgain
  <1>8. UNCHANGED E!elsewhere
    BY DEF E!UpdateAgain
  <1>9. CASE v = Same /\ ~staged.update[n].attach
    <2>1. PICK link : link = IF d.type = "deleted" THEN "unlinked" ELSE "as is"
      OBVIOUS
    <2>2. link = IF ToRemove(i) THEN "unlinked" ELSE "as is"
      BY <2>1, <1>4, <1>5, <1>9
    <2>3. PICK k : k = d.index
      OBVIOUS
    <2>4. k \in Nat \ {0}
      BY <2>3, <1>1, <1>4, DisplayedItem, ListTypes, LenProperties
    <2>7. PICK r : r = IF k <= Len(staged.update) THEN E!RemoveAt(staged.update, k)
                       ELSE staged.update
      OBVIOUS
    <2>5. /\ staged' = [staged EXCEPT !.update = r]
          /\ E!Want(i, E!Ask(link, Same))
          /\ muddled' = (muddled \/ k # n)
      BY <2>1, <2>3, <2>7, <1>7, <1>9 DEF E!StageEdits
    <2>6. muddled' \in BOOLEAN /\ (muddled => muddled') /\ (k # n => muddled')
      BY <2>5
    <2> QED BY <2>2, <2>4, <2>5, <2>6, <2>7, <1>5, <1>8, ForgetEditStep
  <1>10. CASE ~(v = Same /\ ~staged.update[n].attach)
    <2>1. PICK link : link = IF d.type = "deleted" THEN "unlinked" ELSE "linked"
      OBVIOUS
    <2>2. StagedAsAsked => link = IF ToRemove(i) THEN "unlinked" ELSE "linked"
      <3>1. StagedAsAsked => (staged.update[n].attach => ~ToRemove(i))
        BY <1>5, EditedRow
      <3> QED BY <3>1, <2>1, <1>4, <1>5
    <2>3. link \in {"linked", "unlinked"}
      BY <2>1
    <2>4. /\ staged' = [staged EXCEPT
                          !.update = [staged.update EXCEPT
                                        ![n] = E!Edit(i, v, staged.update[n].attach)]]
          /\ E!Want(i, E!Ask(link, v))
          /\ UNCHANGED muddled
      BY <2>1, <1>7, <1>10 DEF E!StageEdits
    <2> QED BY <2>2, <2>3, <2>4, <1>5, <1>8, ChangeEditStep
  <1> QED BY <1>9, <1>10

(* Drop. *)
LEMMA DropStep == ASSUME EditsSafe, NEW d \in E!Displayed, E!Drop(d) PROVE EditsSafe'
  <1>1. E!TypeOK /\ ValuesGiven
    BY DEF EditsSafe
  <1>2. PICK i : i = d.item
    OBVIOUS
  <1>3. PICK k : k = d.index
    OBVIOUS
  <1>4. E!Want(i, E!Nothing) /\ E!Nothing \in E!Asks /\ i \in Related
    BY <1>1, <1>2, DisplayedItem DEF E!Drop, E!Nothing, E!Ask, E!Asks
  <1>5. E!Asked'[i] = E!Nothing
    BY <1>1, <1>4, AskStep
  <1>6. UNCHANGED <<E!elsewhere, muddled>>
    BY DEF E!Drop
  <1>7. muddled' \in BOOLEAN /\ (muddled => muddled')
    BY <1>1, <1>6 DEF E!TypeOK
  <1>8. CASE d.type = "created" /\ staged' = [staged EXCEPT !.create = E!RemoveAt(@, k)]
    <2>1. PICK q : q = staged.create
      OBVIOUS
    <2>2. q \in Seq(E!Edits) /\ k \in DOMAIN q /\ q[k].item = i
      BY <2>1, <1>1, <1>2, <1>3, <1>8, DisplayedItem, ListTypes
    <2>3. PICK r : r = E!RemoveAt(q, k)
      OBVIOUS
    <2>4. /\ r \in Seq(E!Edits) /\ E!Range(r) \subseteq E!Range(q)
          /\ Once(q) => Once(r) /\ Of(r, q[k].item) = {} /\ OthersKept(q, r, q[k].item)
      BY <2>2, <2>3, RemoveEntry
    <2>5. /\ staged' \in E!Lists
          /\ staged'.create = r
          /\ staged'.update = staged.update /\ staged'.delete = staged.delete
      BY <2>1, <2>3, <2>4, <1>1, <1>8, ListTypes DEF E!Lists
    <2>6. ValuesGiven'
      BY <2>1, <2>4, <2>5, <1>1 DEF ValuesGiven
    <2>7. ASSUME StagedAsAsked
          PROVE  /\ EntriesOnce' /\ AsAsked(i)'
                 /\ \A j \in Related \ {i} : /\ Of(staged.create, j)' = Of(staged.create, j)
                                             /\ Of(staged.update, j)' = Of(staged.update, j)
                                             /\ ToRemove(j)' <=> ToRemove(j)
      <3>1. Once(r) /\ Of(r, i) = {} /\ OthersKept(q, r, i)
        BY <2>1, <2>2, <2>4, <2>7 DEF StagedAsAsked, EntriesOnce
      <3>2. EntriesOnce'
        BY <3>1, <2>5, <2>7 DEF StagedAsAsked, EntriesOnce
      <3>3. Of(staged.update, i) = {} /\ ~ToRemove(i)
        BY <2>1, <2>2, <2>7, <1>4, CreatedRow
      <3>4. NotEdited(i)'
        BY <3>1, <3>3, <2>5, <1>5 DEF NotEdited, ToRemove, E!Nothing
      <3> QED BY <3>1, <3>2, <3>4, <2>1, <2>5 DEF ToRemove, AsAsked, OthersKept
    <2> QED BY <2>5, <2>6, <2>7, <1>4, <1>6, <1>7, EditStep
  <1>9. CASE /\ d.type = "updated" /\ E!Entry(d).attach
             /\ staged' = [staged EXCEPT !.update = E!RemoveAt(staged.update, k)]
    <2>1. PICK q : q = staged.update
      OBVIOUS
    <2>2. q \in Seq(E!Edits) /\ k \in DOMAIN q /\ q[k].item = i /\ q[k].attach
      BY <2>1, <1>1, <1>2, <1>3, <1>9, DisplayedItem, ListTypes DEF E!Entry
    <2>3. PICK r : r = E!RemoveAt(q, k)
      OBVIOUS
    <2>4. /\ r \in Seq(E!Edits)
          /\ Once(q) => Once(r) /\ Of(r, q[k].item) = {} /\ OthersKept(q, r, q[k].item)
      BY <2>2, <2>3, RemoveEntry
    <2>5. /\ staged' \in E!Lists
          /\ staged'.update = r
          /\ staged'.create = staged.create /\ staged'.delete = staged.delete
      BY <2>1, <2>3, <2>4, <1>1, <1>9, ListTypes DEF E!Lists
    <2>6. ValuesGiven'
      BY <2>5, <1>1 DEF ValuesGiven
    <2>7. ASSUME StagedAsAsked
          PROVE  /\ EntriesOnce' /\ AsAsked(i)'
                 /\ \A j \in Related \ {i} : /\ Of(staged.create, j)' = Of(staged.create, j)
                                             /\ Of(staged.update, j)' = Of(staged.update, j)
                                             /\ ToRemove(j)' <=> ToRemove(j)
      <3>1. Once(r) /\ Of(r, i) = {} /\ OthersKept(q, r, i)
        BY <2>1, <2>2, <2>4, <2>7 DEF StagedAsAsked, EntriesOnce
      <3>2. EntriesOnce'
        BY <3>1, <2>5, <2>7 DEF StagedAsAsked, EntriesOnce
      <3>3. Of(staged.create, i) = {} /\ ~ToRemove(i)
        BY <2>1, <2>2, <2>7, <1>4, EditedRow
      <3>4. NotEdited(i)'
        BY <3>1, <3>3, <2>5, <1>5 DEF NotEdited, ToRemove, E!Nothing
      <3> QED BY <3>1, <3>2, <3>4, <2>1, <2>5 DEF ToRemove, AsAsked, OthersKept
    <2> QED BY <2>5, <2>6, <2>7, <1>4, <1>6, <1>7, EditStep
  <1> QED BY <1>3, <1>8, <1>9 DEF E!Drop, E!StageEdits

(* What becomes of the request when only the removals change. *)
LEMMA RemovalStep ==
    ASSUME EditsSafe, NEW i \in Related, NEW a \in E!Asks, NEW r \in Seq(Related),
           staged' = [staged EXCEPT !.delete = r],
           E!Want(i, a),
           UNCHANGED <<E!elsewhere, muddled>>,
           StagedAsAsked => /\ OnceEach(r)
                            /\ \A j \in Related \ {i} : j \in E!Range(r) <=> ToRemove(j)
                            /\ AsAsked(i)'
    PROVE  EditsSafe'
  <1>1. E!TypeOK /\ ValuesGiven
    BY DEF EditsSafe
  <1>2. /\ staged' \in E!Lists
        /\ staged'.delete = r
        /\ staged'.create = staged.create /\ staged'.update = staged.update
    BY <1>1, ListTypes DEF E!Lists
  <1>3. ValuesGiven'
    BY <1>1, <1>2 DEF ValuesGiven
  <1>4. muddled' \in BOOLEAN /\ (muddled => muddled')
    BY <1>1 DEF E!TypeOK
  <1>5. ASSUME StagedAsAsked
        PROVE  /\ EntriesOnce' /\ AsAsked(i)'
               /\ \A j \in Related \ {i} : /\ Of(staged.create, j)' = Of(staged.create, j)
                                           /\ Of(staged.update, j)' = Of(staged.update, j)
                                           /\ ToRemove(j)' <=> ToRemove(j)
    BY <1>2, <1>5 DEF StagedAsAsked, EntriesOnce, ToRemove
  <1> QED BY <1>2, <1>3, <1>4, <1>5, EditStep

(* StageRemoval. *)
LEMMA StageRemovalStep ==
    ASSUME EditsSafe, NEW d \in E!Displayed, E!StageRemoval(d) PROVE EditsSafe'
  <1>1. E!TypeOK
    BY DEF EditsSafe
  <1>2. PICK i : i = d.item
    OBVIOUS
  <1>3. i \in Related
    BY <1>1, <1>2, DisplayedItem
  <1>4. PICK v : v = E!Asked[i].value
    OBVIOUS
  <1>5. v \in Values \cup {Same}
    BY <1>1, <1>3, <1>4, AskedType
  <1>6. E!Ask("unlinked", v) \in E!Asks
    BY <1>5 DEF E!Ask, E!Asks
  <1>7. PICK r : r = Append(staged.delete, i)
    OBVIOUS
  <1>8. /\ r \in Seq(Related) /\ E!Range(r) = E!Range(staged.delete) \cup {i}
        /\ i \notin E!Range(staged.delete) /\ OnceEach(staged.delete) => OnceEach(r)
    BY <1>1, <1>3, <1>7, ListTypes, AppendRemoval
  <1>9. /\ staged' = [staged EXCEPT !.delete = r]
        /\ E!Want(i, E!Ask("unlinked", v))
        /\ UNCHANGED <<E!elsewhere, muddled>>
    BY <1>2, <1>4, <1>7 DEF E!StageRemoval
  <1>10. /\ staged'.delete = r
         /\ staged'.create = staged.create /\ staged'.update = staged.update
         /\ E!Asked'[i] = E!Ask("unlinked", v)
    BY <1>1, <1>3, <1>6, <1>9, AskStep DEF E!TypeOK, E!Lists
  <1>11. ToRemove(i)'
    BY <1>8, <1>10 DEF ToRemove
  <1>12. ASSUME StagedAsAsked
         PROVE  /\ OnceEach(r)
                /\ \A j \in Related \ {i} : j \in E!Range(r) <=> ToRemove(j)
                /\ AsAsked(i)'
    <2>1. CASE d.type = "none"
      <3>1. Of(staged.update, i) = {} /\ ~ToRemove(i) /\ i \in fetched
        BY <2>1, <1>1, <1>2, DisplayedItem DEF ToRemove
      <3>2. NotEdited(i)
        BY <3>1, <1>3, <1>12, UneditedRow
      <3>3. v = Same
        <4>1. E!Asked[i] = E!Nothing
          BY <3>1, <3>2 DEF NotEdited
        <4>2. E!Nothing.value = Same
          BY DEF E!Nothing, E!Ask
        <4> QED BY <4>1, <4>2, <1>4
      <3>4. NotEdited(i)'
        BY <3>1, <3>2, <3>3, <1>10, <1>11 DEF NotEdited
      <3> QED BY <3>1, <3>4, <1>8, <1>12 DEF ToRemove, AsAsked, StagedAsAsked, EntriesOnce
    <2>2. CASE d.type = "updated" /\ ~E!Entry(d).attach
      <3>1. PICK n : n = d.index
        OBVIOUS
      <3>2. /\ n \in DOMAIN staged.update /\ staged.update[n].item = i
            /\ ~staged.update[n].attach /\ ~ToRemove(i)
        BY <3>1, <2>2, <1>1, <1>2, DisplayedItem DEF E!Entry, ToRemove
      <3>3. /\ Of(staged.update, i) = {staged.update[n]}
            /\ staged.update[n] = E!Edit(i, staged.update[n].value, staged.update[n].attach)
            /\ E!Asked[i] = E!Ask("linked", staged.update[n].value)
            /\ Of(staged.create, i) = {}
            /\ staged.update[n].attach \in BOOLEAN
        BY <3>2, <1>3, <1>12, EditedRow
      <3>4. v = staged.update[n].value
        BY <3>3, <1>4 DEF E!Ask
      <3>5. PICK at \in BOOLEAN : at = staged.update[n].attach
        BY <3>3
      <3>6. Of(staged.update, i) = {E!Edit(i, v, at)} /\ ~at
        BY <3>2, <3>3, <3>4, <3>5
      <3>7. AskedToEdit(i)'
        BY <3>3, <3>6, <1>5, <1>10, <1>11 DEF AskedToEdit
      <3> QED BY <3>2, <3>7, <1>8, <1>12 DEF ToRemove, AsAsked, StagedAsAsked, EntriesOnce
    <2> QED BY <2>1, <2>2 DEF E!StageRemoval
  <1> QED BY <1>3, <1>6, <1>8, <1>9, <1>12, RemovalStep

(* TakeBack: the entry goes, and with it all that is asked. *)
LEMMA TakeBackStep ==
    ASSUME EditsSafe, NEW d \in E!Displayed, E!TakeBack(d) PROVE EditsSafe'
  <1>1. E!TypeOK /\ ValuesGiven
    BY DEF EditsSafe
  <1>2. PICK i : i = d.item
    OBVIOUS
  <1>3. PICK k : k = d.index
    OBVIOUS
  <1>4. PICK q : q = staged.update
    OBVIOUS
  <1>5. /\ i \in Related /\ q \in Seq(E!Edits) /\ k \in DOMAIN q /\ q[k].item = i
        /\ ~q[k].attach /\ ~ToRemove(i)
    BY <1>1, <1>2, <1>3, <1>4, DisplayedItem, ListTypes DEF E!TakeBack, E!Entry, ToRemove
  <1>6. PICK r : r = E!RemoveAt(q, k)
    OBVIOUS
  <1>7. /\ r \in Seq(E!Edits)
        /\ Once(q) => Once(r) /\ Of(r, q[k].item) = {} /\ OthersKept(q, r, q[k].item)
    BY <1>5, <1>6, RemoveEntry
  <1>8. PICK a : a = E!Ask("unlinked", want[i].value)
    OBVIOUS
  <1>9. /\ staged' = [staged EXCEPT !.update = r]
        /\ want' = [want EXCEPT ![i] = a] /\ dropped' = dropped \cup {i}
        /\ UNCHANGED <<rows, fetched, withItem, saves, sent, again, muddled>>
    BY <1>2, <1>3, <1>4, <1>6, <1>8 DEF E!TakeBack, E!StageEdits, E!elsewhere
  <1>10. /\ staged' \in E!Lists
         /\ staged'.update = r
         /\ staged'.create = staged.create /\ staged'.delete = staged.delete
    BY <1>1, <1>7, <1>9, ListTypes DEF E!Lists
  <1>11. ValuesGiven'
    BY <1>1, <1>10 DEF ValuesGiven
  <1>12. a \in E!Asks
    <2>1. want[i] \in E!Asks
      BY <1>1, <1>5 DEF E!TypeOK
    <2> QED BY <2>1, <1>8 DEF E!Ask, E!Asks
  <1>13. want' \in [Related -> E!Asks] /\ dropped' \subseteq Related
    BY <1>1, <1>5, <1>9, <1>12 DEF E!TypeOK
  <1>14. E!Asked'[i] = E!Nothing /\ \A j \in Related \ {i} : E!Asked'[j] = E!Asked[j]
    <2>1. /\ i \in dropped'
          /\ \A j \in Related \ {i} : want'[j] = want[j] /\ (j \in dropped' <=> j \in dropped)
      BY <1>1, <1>9 DEF E!TypeOK
    <2> QED BY <2>1, <1>5 DEF E!Asked, E!Nothing, E!Ask
  <1>15. E!TypeOK'
    BY <1>1, <1>9, <1>10, <1>13 DEF E!TypeOK
  <1>16. ASSUME saves' = 0, ~muddled' PROVE StagedAsAsked'
    <2>1. StagedAsAsked
      BY <1>9, <1>16 DEF EditsSafe
    <2>2. Once(r) /\ Of(r, i) = {} /\ OthersKept(q, r, i)
      BY <2>1, <1>4, <1>5, <1>7 DEF StagedAsAsked, EntriesOnce
    <2>3. EntriesOnce'
      BY <2>1, <2>2, <1>10 DEF StagedAsAsked, EntriesOnce
    <2>4. Of(staged.create, i) = {}
      BY <2>1, <1>4, <1>5, EditedRow
    <2>5. NotEdited(i)'
      BY <2>2, <2>4, <1>5, <1>10, <1>14 DEF NotEdited, ToRemove, E!Nothing
    <2>6. ASSUME NEW j \in Related \ {i} PROVE AsAsked(j)'
      <3>1. /\ Of(staged.create, j)' = Of(staged.create, j)
            /\ Of(staged.update, j)' = Of(staged.update, j)
            /\ ToRemove(j)' <=> ToRemove(j)
            /\ E!Asked'[j] = E!Asked[j] /\ rows'[j] = rows[j] /\ fetched' = fetched
        BY <2>2, <2>6, <1>4, <1>9, <1>10, <1>14 DEF ToRemove, OthersKept
      <3>2. AsAsked(j)
        BY <2>1, <2>6 DEF StagedAsAsked
      <3> QED BY <3>1, <3>2, AsAskedStill
    <2> QED BY <2>3, <2>5, <2>6 DEF StagedAsAsked, AsAsked
  <1> QED BY <1>11, <1>15, <1>16 DEF EditsSafe

(* PutBack. *)
LEMMA PutBackStep ==
    ASSUME EditsSafe, NEW d \in E!Displayed, E!PutBack(d) PROVE EditsSafe'
  <1>1. E!TypeOK
    BY DEF EditsSafe
  <1>2. PICK i : i = d.item
    OBVIOUS
  <1>3. PICK k : k = d.index
    OBVIOUS
  <1>4. PICK q : q = staged.delete
    OBVIOUS
  <1>5. i \in Related /\ q \in Seq(Related) /\ k \in DOMAIN q /\ q[k] = i
    BY <1>1, <1>2, <1>3, <1>4, DisplayedItem, ListTypes DEF E!PutBack
  <1>6. PICK v : v = E!Asked[i].value
    OBVIOUS
  <1>7. v \in Values \cup {Same}
    BY <1>1, <1>5, <1>6, AskedType
  <1>8. PICK link : link = IF d.edits # 0 THEN "linked" ELSE "as is"
    OBVIOUS
  <1>9. E!Ask(link, v) \in E!Asks
    BY <1>7, <1>8 DEF E!Ask, E!Asks
  <1>10. PICK r : r = E!RemoveAt(q, k)
    OBVIOUS
  <1>11. r \in Seq(Related) /\ (OnceEach(q) => OnceEach(r) /\ E!Range(r) = E!Range(q) \ {q[k]})
    BY <1>5, <1>10, RemoveRemoval
  <1>12. /\ staged' = [staged EXCEPT !.delete = r]
         /\ E!Want(i, E!Ask(link, v))
         /\ UNCHANGED <<E!elsewhere, muddled>>
    BY <1>2, <1>3, <1>4, <1>6, <1>8, <1>10 DEF E!PutBack
  <1>13. /\ staged'.delete = r
         /\ staged'.create = staged.create /\ staged'.update = staged.update
         /\ E!Asked'[i] = E!Ask(link, v)
    BY <1>1, <1>5, <1>9, <1>12, AskStep DEF E!TypeOK, E!Lists
  <1>14. ToRemove(i)
    BY <1>4, <1>5 DEF ToRemove, E!Range
  <1>15. ASSUME StagedAsAsked
         PROVE  /\ OnceEach(r)
                /\ \A j \in Related \ {i} : j \in E!Range(r) <=> ToRemove(j)
                /\ AsAsked(i)'
    <2>1. OnceEach(r) /\ E!Range(r) = E!Range(q) \ {i}
      BY <1>4, <1>5, <1>11, <1>15 DEF StagedAsAsked, EntriesOnce
    <2>2. ~ToRemove(i)'
      BY <2>1, <1>13 DEF ToRemove
    <2>3. CASE d.edits = 0
      <3>1. Of(staged.update, i) = {}
        BY <2>3, <1>1, <1>2, DisplayedItem DEF E!PutBack
      <3>2. NotEdited(i)
        BY <3>1, <1>5, <1>14, <1>15, UneditedRow
      <3>3. v = Same
        BY <3>2, <1>6, <1>14 DEF NotEdited, E!Ask
      <3>4. NotEdited(i)'
        BY <3>2, <3>3, <2>2, <2>3, <1>8, <1>13 DEF NotEdited, E!Nothing
      <3> QED BY <3>4, <2>1, <1>4 DEF ToRemove, AsAsked
    <2>4. CASE d.edits # 0
      <3>1. PICK n : n = d.edits
        OBVIOUS
      <3>2. n \in DOMAIN staged.update /\ staged.update[n].item = i
        BY <3>1, <2>4, <1>1, <1>2, DisplayedItem DEF E!PutBack
      <3>3. /\ Of(staged.update, i) = {staged.update[n]}
            /\ staged.update[n] = E!Edit(i, staged.update[n].value, staged.update[n].attach)
            /\ E!Asked[i] = E!Ask("unlinked", staged.update[n].value)
            /\ Of(staged.create, i) = {}
            /\ staged.update[n].attach \in BOOLEAN
        BY <3>2, <1>5, <1>14, <1>15, EditedRow
      <3>4. v = staged.update[n].value
        BY <3>3, <1>6 DEF E!Ask
      <3>5. PICK at \in BOOLEAN : at = staged.update[n].attach
        BY <3>3
      <3>6. Of(staged.update, i) = {E!Edit(i, v, at)}
        BY <3>3, <3>4, <3>5
      <3>7. AskedToEdit(i)'
        BY <3>3, <3>6, <2>2, <2>4, <1>7, <1>8, <1>13 DEF AskedToEdit
      <3> QED BY <3>7, <2>1, <1>4 DEF ToRemove, AsAsked
    <2> QED BY <2>3, <2>4
  <1> QED BY <1>5, <1>9, <1>11, <1>12, <1>15, RemovalStep

(* Select. *)
LEMMA SelectItemStep == ASSUME EditsSafe, NEW i \in Related, E!Select(i) PROVE EditsSafe'
  <1>1. E!TypeOK /\ ValuesGiven
    BY DEF EditsSafe
  <1>2. PICK e : e = E!Edit(i, Same, TRUE)
    OBVIOUS
  <1>3. e \in E!Edits /\ e.item = i
    BY <1>2 DEF E!Edit, E!Edits
  <1>4. PICK q : q = staged.update
    OBVIOUS
  <1>5. PICK r : r = Append(q, e)
    OBVIOUS
  <1>6. q \in Seq(E!Edits)
    BY <1>1, <1>4, ListTypes
  <1>7. /\ r \in Seq(E!Edits) /\ OthersKept(q, r, e.item)
        /\ Of(q, e.item) = {} => Of(r, e.item) = {e} /\ (Once(q) => Once(r))
    BY <1>3, <1>5, <1>6, AppendEntry
  <1>8. /\ staged' = [staged EXCEPT !.update = r]
        /\ E!Want(i, E!Ask("linked", Same))
        /\ UNCHANGED E!elsewhere
    BY <1>2, <1>4, <1>5 DEF E!Select, E!StageEdits
  <1>9. /\ staged' \in E!Lists
        /\ staged'.update = r
        /\ staged'.create = staged.create /\ staged'.delete = staged.delete
    BY <1>1, <1>7, <1>8, ListTypes DEF E!Lists
  <1>10. ValuesGiven'
    BY <1>1, <1>9 DEF ValuesGiven
  <1>11. E!Ask("linked", Same) \in E!Asks /\ E!Asked'[i] = E!Ask("linked", Same)
    <2>1. E!Ask("linked", Same) \in E!Asks
      BY DEF E!Ask, E!Asks
    <2> QED BY <2>1, <1>1, <1>8, AskStep
  <1>12. /\ muddled' \in BOOLEAN /\ (muddled => muddled')
         /\ ~muddled' => E!UpdateOf(i) = 0 /\ E!DeleteOf(i) = 0
    BY <1>1 DEF E!Select, E!TypeOK
  <1>13. ASSUME StagedAsAsked, ~muddled'
         PROVE  /\ EntriesOnce' /\ AsAsked(i)'
                /\ \A j \in Related \ {i} : /\ Of(staged.create, j)' = Of(staged.create, j)
                                            /\ Of(staged.update, j)' = Of(staged.update, j)
                                            /\ ToRemove(j)' <=> ToRemove(j)
    <2>1. Of(staged.update, i) = {} /\ ~ToRemove(i)
      BY <1>1, <1>12, <1>13, UpdateIndex, DeleteIndex DEF ToRemove
    <2>2. Of(r, i) = {e} /\ OthersKept(q, r, i) /\ (Once(q) => Once(r))
      BY <2>1, <1>3, <1>4, <1>7
    <2>3. EntriesOnce'
      BY <2>2, <1>4, <1>9, <1>13 DEF StagedAsAsked, EntriesOnce
    <2>4. rows[i] # Missing
      BY DEF E!Select
    <2>5. Of(staged.create, i) = {}
      BY <2>4, <1>13 DEF StagedAsAsked, AsAsked, AskedToCreate, AskedToEdit, NotEdited
    <2>6. ~ToRemove(i)'
      BY <2>1, <1>9 DEF ToRemove
    <2>7. \E v \in Values \cup {Same}, attach \in BOOLEAN :
             /\ Of(staged'.update, i) = {E!Edit(i, v, attach)}
             /\ attach => ~ToRemove(i)'
             /\ E!Asked'[i] = E!Ask(IF ToRemove(i)' THEN "unlinked" ELSE "linked", v)
      <3>1. Of(staged'.update, i) = {E!Edit(i, Same, TRUE)}
        BY <2>2, <1>2, <1>9
      <3>2. /\ TRUE => ~ToRemove(i)'
            /\ E!Asked'[i] = E!Ask(IF ToRemove(i)' THEN "unlinked" ELSE "linked", Same)
        BY <2>6, <1>11
      <3>3. Same \in Values \cup {Same} /\ TRUE \in BOOLEAN
        OBVIOUS
      <3> QED BY <3>1, <3>2, <3>3, Zenon
    <2>8. AskedToEdit(i)'
      BY <2>5, <2>7, <1>9 DEF AskedToEdit
    <2> QED BY <2>2, <2>3, <2>8, <1>4, <1>9 DEF ToRemove, AsAsked, OthersKept
  <1> QED BY <1>8, <1>9, <1>10, <1>11, <1>12, <1>13, EditStep

(* Other users take a row to the item or away, or delete it. *)
LEMMA ElsewhereStep == ASSUME EditsSafe, NEW i \in Related, E!Elsewhere(i) PROVE EditsSafe'
  <1>1. E!TypeOK /\ ValuesGiven
    BY DEF EditsSafe
  <1>2. PICK r \in {E!Row(~rows[i].here, rows[i].value), Missing} : rows' = [rows EXCEPT ![i] = r]
    BY DEF E!Elsewhere
  <1>3. /\ rows[i] \in E!Rows /\ rows[i] # Missing
        /\ UNCHANGED <<staged, fetched, withItem, saves, want, dropped, sent, again, muddled>>
    BY <1>1 DEF E!Elsewhere, E!TypeOK, E!page, E!asks
  <1>9. E!Asked' = E!Asked
    BY <1>3 DEF E!Asked
  <1>4. r \in E!Rows \cup {Missing}
    <2>1. rows[i].value \in Values
      BY <1>3 DEF E!Rows
    <2>2. (~rows[i].here) \in BOOLEAN
      OBVIOUS
    <2>3. E!Row(~rows[i].here, rows[i].value) \in E!Rows
      BY <2>1, <2>2 DEF E!Row, E!Rows
    <2> QED BY <2>3
  <1>5. rows' \in [Related -> E!Rows \cup {Missing}] /\ \A j \in Related \ {i} : rows'[j] = rows[j]
    BY <1>1, <1>2, <1>4 DEF E!TypeOK
  <1>6. E!TypeOK'
    BY <1>1, <1>3, <1>5 DEF E!TypeOK
  <1>7. ASSUME StagedAsAsked PROVE StagedAsAsked'
    <2>1. ASSUME NEW j \in Related PROVE AsAsked(j)'
      <3>1. AsAsked(j)
        BY <1>7 DEF StagedAsAsked
      <3>2. CASE AskedToCreate(j)
        <4>1. rows'[j] = Missing
          BY <3>2, <1>3, <1>5 DEF AskedToCreate
        <4> QED BY <4>1, <3>2, <1>3, <1>9 DEF AskedToCreate, AsAsked, ToRemove
      <3>3. CASE AskedToEdit(j)
        BY <3>3, <1>3, <1>9 DEF AskedToEdit, AsAsked, ToRemove
      <3>4. CASE NotEdited(j)
        BY <3>4, <1>3, <1>9 DEF NotEdited, AsAsked, ToRemove, E!Nothing, E!Ask
      <3> QED BY <3>1, <3>2, <3>3, <3>4 DEF AsAsked
    <2> QED BY <2>1, <1>3, <1>7 DEF StagedAsAsked, EntriesOnce
  <1>8. ValuesGiven'
    BY <1>1, <1>3 DEF ValuesGiven
  <1> QED BY <1>3, <1>6, <1>7, <1>8 DEF EditsSafe

(* Fetch. *)
LEMMA FetchStep == ASSUME EditsSafe, E!Fetch PROVE EditsSafe'
  <1>1. E!TypeOK /\ ValuesGiven
    BY DEF EditsSafe
  <1>2. /\ fetched' = {i \in Related : E!IsChild(i)}
        /\ UNCHANGED <<rows, staged, withItem, saves, want, dropped, sent, again, muddled>>
    BY DEF E!Fetch, E!asks
  <1>5. E!Asked' = E!Asked
    BY <1>2 DEF E!Asked
  <1>3. E!TypeOK' /\ ValuesGiven'
    BY <1>1, <1>2 DEF E!TypeOK, ValuesGiven
  <1>4. ASSUME StagedAsAsked PROVE StagedAsAsked'
    <2>1. ASSUME NEW j \in Related PROVE AsAsked(j)'
      <3>1. AsAsked(j)
        BY <1>4 DEF StagedAsAsked
      <3>2. CASE AskedToCreate(j)
        <4>1. j \notin fetched'
          BY <3>2, <1>2 DEF AskedToCreate, E!IsChild
        <4> QED BY <4>1, <3>2, <1>2, <1>5 DEF AskedToCreate, AsAsked, ToRemove
      <3>3. CASE AskedToEdit(j)
        BY <3>3, <1>2, <1>5 DEF AskedToEdit, AsAsked, ToRemove
      <3>4. CASE NotEdited(j)
        BY <3>4, <1>2, <1>5 DEF NotEdited, AsAsked, ToRemove, E!Nothing, E!Ask
      <3> QED BY <3>1, <3>2, <3>3, <3>4 DEF AsAsked
    <2> QED BY <2>1, <1>2, <1>4 DEF StagedAsAsked, EntriesOnce
  <1> QED BY <1>2, <1>3, <1>4 DEF EditsSafe

(* The page starts, and goes on after an answer, with nothing staged and    *)
(* nothing asked for.                                                       *)
LEMMA NothingStaged ==
    staged = E!NoChanges /\ (\A i \in Related : E!Asked[i] = E!Nothing) =>
        staged \in E!Lists /\ ValuesGiven /\ StagedAsAsked
  <1> SUFFICES ASSUME staged = E!NoChanges, \A i \in Related : E!Asked[i] = E!Nothing
               PROVE  staged \in E!Lists /\ ValuesGiven /\ StagedAsAsked
    OBVIOUS
  <1>1. staged.create = <<>> /\ staged.update = <<>> /\ staged.delete = <<>>
    BY DEF E!NoChanges
  <1>2. DOMAIN staged.create = {} /\ DOMAIN staged.update = {} /\ DOMAIN staged.delete = {}
    BY <1>1
  <1>3. E!Range(staged.create) = {} /\ E!Range(staged.update) = {} /\ E!Range(staged.delete) = {}
    BY <1>2 DEF E!Range
  <1>4. staged \in E!Lists
    BY DEF E!Lists, E!NoChanges
  <1>5. ValuesGiven
    BY <1>3 DEF ValuesGiven
  <1>6. EntriesOnce
    BY <1>2 DEF EntriesOnce, Once, OnceEach
  <1>7. \A i \in Related : NotEdited(i)
    BY <1>3 DEF NotEdited, Of, ToRemove
  <1> QED BY <1>4, <1>5, <1>6, <1>7 DEF StagedAsAsked, AsAsked

(* The invariant holds when the page is opened. *)
LEMMA EditsInit == E!Init => EditsSafe
  <1> SUFFICES ASSUME E!Init PROVE EditsSafe
    OBVIOUS
  <1>1. E!Nothing \in E!Asks
    BY DEF E!Nothing, E!Ask, E!Asks
  <1>2. want \in [Related -> E!Asks] /\ sent \in [Related -> E!Asks] /\ dropped = {}
    BY <1>1 DEF E!Init
  <1>3. \A i \in Related : E!Asked[i] = E!Nothing
    BY DEF E!Init, E!Asked
  <1>4. staged \in E!Lists /\ ValuesGiven /\ StagedAsAsked
    BY <1>3, NothingStaged DEF E!Init
  <1>5. saves \in 0..MaxSaves
    BY EditsAssumption DEF E!Init
  <1>6. E!TypeOK
    BY <1>2, <1>4, <1>5 DEF E!Init, E!TypeOK
  <1> QED BY <1>4, <1>6 DEF EditsSafe

(* Answered. *)
LEMMA AnsweredStep == ASSUME EditsSafe, E!Answered PROVE EditsSafe'
  <1>1. E!TypeOK /\ E!Nothing \in E!Asks
    BY DEF EditsSafe, E!Nothing, E!Ask, E!Asks
  <1>2. PICK d : d = dropped \cup {i \in Related : E!Asked[i] # sent[i]}
    OBVIOUS
  <1>3. dropped' = d /\ want' = [i \in Related |-> IF i \in d THEN want[i] ELSE E!Nothing]
    BY <1>2 DEF E!Answered
  <1>4. dropped' \subseteq Related /\ want' \in [Related -> E!Asks]
    BY <1>1, <1>2, <1>3 DEF E!TypeOK
  <1>5. sent' \in [Related -> E!Asks]
    BY <1>1 DEF E!Answered
  <1>6. \A i \in Related : E!Asked'[i] = E!Nothing
    BY <1>3 DEF E!Asked, E!Nothing, E!Ask
  <1>7. staged' \in E!Lists /\ ValuesGiven' /\ StagedAsAsked'
    <2>1. (staged = E!NoChanges /\ (\A i \in Related : E!Asked[i] = E!Nothing) =>
             staged \in E!Lists /\ ValuesGiven /\ StagedAsAsked)'
      BY NothingStaged, PTL
    <2>2. staged' = E!NoChanges
      BY DEF E!Answered
    <2>3. (staged = E!NoChanges /\ (\A i \in Related : E!Asked[i] = E!Nothing))'
      BY <2>2, <1>6 DEF E!NoChanges, E!Nothing, E!Ask
    <2> QED BY <2>1, <2>3, <2>2 DEF E!Lists
  <1>8. saves' \in 0..MaxSaves
    BY <1>1, EditsAssumption DEF E!Answered, E!TypeOK
  <1>9. E!TypeOK'
    BY <1>1, <1>4, <1>5, <1>7, <1>8 DEF E!Answered, E!TypeOK
  <1> QED BY <1>7, <1>9 DEF EditsSafe

(* The entries of a row give it the value of the last that has one. *)
LEMMA LastValueType ==
    ASSUME NEW q \in Seq(E!Edits), NEW i, NEW v,
           E!Indexes(q, i) # {},
           v \in Values \/ (v = Same /\ \A n \in DOMAIN q : q[n].value \in Values)
    PROVE  E!LastValue(q, i, v) \in Values
  <1> DEFINE ns == {n \in E!Indexes(q, i) : q[n].value # Same}
  <1>1. CASE ns = {}
    <2>1. E!LastValue(q, i, v) = v
      BY <1>1 DEF E!LastValue
    <2>2. CASE v \in Values
      BY <2>1, <2>2
    <2>3. CASE v = Same /\ \A n \in DOMAIN q : q[n].value \in Values
      <3>1. PICK n \in E!Indexes(q, i) : q[n].value = Same
        BY <1>1
      <3>2. n \in DOMAIN q
        BY DEF E!Indexes
      <3> QED BY <2>1, <2>3, <3>1, <3>2
    <2> QED BY <2>1, <2>2, <2>3
  <1>2. CASE ns # {}
    <2>1. Len(q) \in Nat /\ DOMAIN q = 1..Len(q)
      BY LenProperties
    <2>2. ns \subseteq 1..Len(q)
      BY <2>1 DEF E!Indexes
    <2>3. E!Max(ns) \in ns
      BY <2>1, <2>2, <1>2, GreatestIndex
    <2>4. E!Max(ns) \in DOMAIN q /\ q[E!Max(ns)].value # Same
      BY <2>3 DEF E!Indexes
    <2>5. q[E!Max(ns)] \in E!Edits
      BY <2>4, LenProperties
    <2>6. E!LastValue(q, i, v) = q[E!Max(ns)].value
      BY <1>2 DEF E!LastValue
    <2> QED BY <2>4, <2>5, <2>6 DEF E!Edits
  <1> QED BY <1>1, <1>2

(* The only entry of a row gives it its value. *)
LEMMA OneValue ==
    ASSUME NEW q \in Seq(E!Edits), Once(q), NEW i, NEW v, NEW e, Of(q, i) = {e}
    PROVE  /\ E!Indexes(q, i) # {}
           /\ E!LastValue(q, i, v) = IF e.value # Same THEN e.value ELSE v
  <1>1. PICK n \in DOMAIN q : q[n] = e /\ q[n].item = i
    BY DEF Of, E!Range
  <1>2. E!Indexes(q, i) = {n}
    BY <1>1 DEF E!Indexes, Once
  <1> DEFINE ns == {m \in E!Indexes(q, i) : q[m].value # Same}
  <1>3. CASE e.value = Same
    <2>1. ns = {}
      BY <1>1, <1>2, <1>3
    <2> QED BY <2>1, <1>2, <1>3 DEF E!LastValue
  <1>4. CASE e.value # Same
    <2>1. ns = {n}
      BY <1>1, <1>2, <1>4
    <2>2. Len(q) \in Nat /\ DOMAIN q = 1..Len(q)
      BY LenProperties
    <2>3. E!Max(ns) \in ns
      <3>1. ns \subseteq 1..Len(q)
        BY <2>1, <2>2, <1>1
      <3> QED BY <3>1, <2>1, <2>2, GreatestIndex
    <2>4. E!Max(ns) = n
      BY <2>1, <2>3
    <2>5. E!LastValue(q, i, v) = q[E!Max(ns)].value
      BY <2>1 DEF E!LastValue
    <2> QED BY <2>4, <2>5, <1>1, <1>2, <1>4
  <1> QED BY <1>3, <1>4

(* The parts of processO2M. *)
WithCreation(i) ==
    IF E!Indexes(staged.create, i) = {} THEN rows[i]
    ELSE E!Row(TRUE, E!LastValue(staged.create, i, Same))
WithUpdate(i) == E!UpdateRow(WithCreation(i), staged.update, i)

LEMMA ProcessedRow ==
    E!Processed(staged) =
        [i \in Related |-> IF i \in E!Range(staged.delete) /\ WithUpdate(i) # Missing
                        THEN [WithUpdate(i) EXCEPT !.here = FALSE] ELSE WithUpdate(i)]
  BY DEF E!Processed, WithUpdate, WithCreation

(* A save leaves rows of the right type. *)
LEMMA ProcessedType ==
    ASSUME E!TypeOK, ValuesGiven
    PROVE  E!Processed(staged) \in [Related -> E!Rows \cup {Missing}]
  <1> SUFFICES ASSUME NEW i \in Related
               PROVE  /\ WithUpdate(i) \in E!Rows \cup {Missing}
                      /\ WithUpdate(i) \in E!Rows =>
                           [WithUpdate(i) EXCEPT !.here = FALSE] \in E!Rows
    BY ProcessedRow
  <1>1. WithCreation(i) \in E!Rows \cup {Missing}
    <2>1. CASE E!Indexes(staged.create, i) = {}
      BY <2>1 DEF WithCreation, E!TypeOK
    <2>2. CASE E!Indexes(staged.create, i) # {}
      <3>1. \A n \in DOMAIN staged.create : staged.create[n].value \in Values
        BY DEF ValuesGiven, E!Range
      <3>2. E!LastValue(staged.create, i, Same) \in Values
        BY <2>2, <3>1, ListTypes, LastValueType
      <3> QED BY <2>2, <3>2 DEF WithCreation, E!Row, E!Rows
    <2> QED BY <2>1, <2>2
  <1>2. PICK r : r = WithCreation(i)
    OBVIOUS
  <1>3. WithUpdate(i) \in E!Rows \cup {Missing}
    <2>1. CASE r = Missing \/ E!Indexes(staged.update, i) = {}
      BY <2>1, <1>1, <1>2 DEF WithUpdate, E!UpdateRow
    <2>2. CASE ~(r = Missing \/ E!Indexes(staged.update, i) = {})
      <3>1. r.value \in Values
        BY <2>2, <1>1, <1>2 DEF E!Rows
      <3>2. E!LastValue(staged.update, i, r.value) \in Values
        BY <2>2, <3>1, ListTypes, LastValueType
      <3>3. WithUpdate(i) = E!Row(TRUE, E!LastValue(staged.update, i, r.value))
        BY <2>2, <1>2 DEF WithUpdate, E!UpdateRow
      <3> QED BY <3>2, <3>3 DEF E!Row, E!Rows
    <2> QED BY <2>1, <2>2
  <1>4. ASSUME WithUpdate(i) \in E!Rows PROVE [WithUpdate(i) EXCEPT !.here = FALSE] \in E!Rows
    BY <1>4 DEF E!Rows
  <1> QED BY <1>3, <1>4

(* Save. *)
LEMMA SaveStep == ASSUME EditsSafe, E!Save PROVE EditsSafe'
  <1>1. E!TypeOK /\ ValuesGiven
    BY DEF EditsSafe
  <1>2. rows' \in [Related -> E!Rows \cup {Missing}]
    BY <1>1, ProcessedType DEF E!Save
  <1>3. saves \in Nat /\ saves' = saves + 1 /\ saves' \in 0..MaxSaves
    BY <1>1, EditsAssumption DEF E!Save, E!TypeOK
  <1>4. again' \in BOOLEAN
    BY <1>1 DEF E!Save, E!TypeOK
  <1>5. UNCHANGED <<staged, fetched, withItem, want, dropped, muddled>>
    BY DEF E!Save, E!page
  <1>9. sent' \in [Related -> E!Asks]
    <2>1. sent' = E!Asked
      BY DEF E!Save
    <2>2. \A i \in Related : E!Asked[i] \in E!Asks
      BY <1>1, AskedType
    <2>3. E!Asked = [i \in Related |-> E!Asked[i]]
      BY DEF E!Asked
    <2> QED BY <2>1, <2>2, <2>3
  <1>6. E!TypeOK'
    BY <1>1, <1>2, <1>3, <1>4, <1>5, <1>9 DEF E!TypeOK
  <1>7. ValuesGiven'
    BY <1>1, <1>5 DEF ValuesGiven
  <1>8. saves' # 0
    BY <1>3
  <1> QED BY <1>6, <1>7, <1>8 DEF EditsSafe

(* Every step preserves the invariant. *)
LEMMA EditsNext == EditsSafe /\ [E!Next]_(E!vars) => EditsSafe'
  <1> SUFFICES ASSUME EditsSafe, [E!Next]_(E!vars) PROVE EditsSafe'
    OBVIOUS
  <1>1. CASE UNCHANGED E!vars
    <2>1. UNCHANGED <<rows, staged, fetched, withItem, saves, want, dropped, sent, again, muddled>>
      BY <1>1 DEF E!vars, E!page, E!asks
    <2>4. E!Asked' = E!Asked
      BY <2>1 DEF E!Asked
    <2>2. E!TypeOK' /\ ValuesGiven'
      BY <2>1 DEF EditsSafe, E!TypeOK, ValuesGiven
    <2>3. StagedAsAsked => StagedAsAsked'
      <3>1. EntriesOnce' = EntriesOnce
        BY <2>1 DEF EntriesOnce
      <3>2. \A i \in Related : ToRemove(i)' = ToRemove(i)
        BY <2>1 DEF ToRemove
      <3>3. ASSUME NEW i \in Related, AsAsked(i) PROVE AsAsked(i)'
        <4>1. AskedToCreate(i) => AskedToCreate(i)'
          BY <2>1, <2>4, <3>2 DEF AskedToCreate
        <4>2. AskedToEdit(i) => AskedToEdit(i)'
          BY <2>1, <2>4, <3>2 DEF AskedToEdit
        <4>3. NotEdited(i) => NotEdited(i)'
          BY <2>1, <2>4, <3>2 DEF NotEdited
        <4> QED BY <3>3, <4>1, <4>2, <4>3 DEF AsAsked
      <3> QED BY <3>1, <3>3 DEF StagedAsAsked
    <2> QED BY <2>1, <2>2, <2>3 DEF EditsSafe
  <1>2. CASE \E i \in Related : E!Create(i) \/ E!Select(i) \/ E!Elsewhere(i)
    BY <1>2, CreateStep, SelectItemStep, ElsewhereStep
  <1>3. CASE \E d \in E!Displayed : E!UpdateCreated(d) \/ E!UpdateFirst(d) \/ E!UpdateAgain(d)
                                 \/ E!Drop(d) \/ E!StageRemoval(d) \/ E!TakeBack(d)
                                 \/ E!PutBack(d)
    BY <1>3, UpdateCreatedStep, UpdateFirstStep, UpdateAgainStep, DropStep, StageRemovalStep,
       TakeBackStep, PutBackStep
  <1>4. CASE E!Fetch \/ E!Save \/ E!Answered
    BY <1>4, FetchStep, SaveStep, AnsweredStep
  <1> QED BY <1>1, <1>2, <1>3, <1>4 DEF E!Next

(* What the user asked, of a row that is gone, and of one that is not. *)
LEMMA WantedMissing ==
    ASSUME NEW a
    PROVE  /\ a.link = "created" => E!Wanted(Missing, a) = E!Row(TRUE, a.value)
           /\ a.link \in {"as is", "linked", "unlinked"} => E!Wanted(Missing, a) = Missing
  BY DEF E!Wanted

LEMMA AskFields == \A link, v : E!Ask(link, v).link = link /\ E!Ask(link, v).value = v
  BY DEF E!Ask

(* A row of which nothing is asked stays as it is. *)
LEMMA WantedNothing ==
    ASSUME NEW r \in E!Rows \cup {Missing}
    PROVE  E!Wanted(r, E!Nothing) = r
  <1>1. E!Nothing.link = "as is" /\ E!Nothing.value = Same
    BY AskFields DEF E!Nothing
  <1>2. CASE r = Missing
    BY <1>1, <1>2, WantedMissing
  <1>3. CASE r # Missing
    <2>1. r = E!Row(r.here, r.value)
      BY <1>3 DEF E!Rows, E!Row
    <2> QED BY <2>1, <1>1, <1>3 DEF E!Wanted
  <1> QED BY <1>2, <1>3

(* A row that is taken from the item keeps its value. *)
LEMMA TakenAway ==
    ASSUME NEW r \in E!Rows
    PROVE  [r EXCEPT !.here = FALSE] = E!Row(FALSE, r.value)
  <1>1. PICK x : x = [r EXCEPT !.here = FALSE]
    OBVIOUS
  <1>2. x.value = r.value /\ x.here = FALSE
    BY <1>1 DEF E!Rows
  <1>3. x \in E!Rows
    BY <1>1 DEF E!Rows
  <1>4. x = E!Row(x.here, x.value)
    BY <1>3 DEF E!Rows, E!Row
  <1> QED BY <1>1, <1>2, <1>4

(* A save that is the first does to a row that is created, edited or        *)
(* removed what the user asked, and nothing to the others.                  *)
LEMMA SavedRow ==
    ASSUME E!TypeOK, StagedAsAsked, NEW i \in Related
    PROVE  /\ E!Processed(staged)[i] = E!Wanted(rows[i], E!Asked[i])
           /\ E!Asked[i].link = "created" => rows[i] = Missing
  <1>1. /\ staged.create \in Seq(E!Edits) /\ staged.update \in Seq(E!Edits)
        /\ Once(staged.create) /\ Once(staged.update)
    BY ListTypes DEF StagedAsAsked, EntriesOnce
  <1>2. rows[i] \in E!Rows \cup {Missing} /\ Missing \notin E!Rows
    BY EditsAssumption DEF E!TypeOK
  <1>3. E!Processed(staged)[i] =
          IF ToRemove(i) /\ WithUpdate(i) # Missing
          THEN [WithUpdate(i) EXCEPT !.here = FALSE] ELSE WithUpdate(i)
    BY ProcessedRow DEF ToRemove
  <1>4. \A q : Of(q, i) = {} => E!Indexes(q, i) = {}
    BY DEF Of, E!Range, E!Indexes
  <1>5. CASE AskedToCreate(i)
    <2>1. PICK v \in Values :
               Of(staged.create, i) = {E!Edit(i, v, FALSE)} /\ E!Asked[i] = E!Ask("created", v)
      BY <1>5 DEF AskedToCreate
    <2>2. PICK e : e = E!Edit(i, v, FALSE)
      OBVIOUS
    <2>3. e.value = v
      BY <2>2 DEF E!Edit
    <2>4. /\ E!Indexes(staged.create, i) # {}
          /\ E!LastValue(staged.create, i, Same) = IF e.value # Same THEN e.value ELSE Same
      <3>1. PICK q : q = staged.create
        OBVIOUS
      <3>2. q \in Seq(E!Edits) /\ Once(q) /\ Of(q, i) = {e}
        BY <3>1, <2>1, <2>2, <1>1
      <3>3. E!Indexes(q, i) # {}
        BY <3>2, OneValue
      <3>4. E!LastValue(q, i, Same) = IF e.value # Same THEN e.value ELSE Same
        BY <3>2, OneValue
      <3> QED BY <3>1, <3>3, <3>4
    <2>5. WithCreation(i) = E!Row(TRUE, v)
      BY <2>3, <2>4 DEF WithCreation
    <2>6. WithUpdate(i) = E!Row(TRUE, v)
      BY <2>5, <1>4, <1>5 DEF AskedToCreate, WithUpdate, E!UpdateRow
    <2>7. ~ToRemove(i) /\ rows[i] = Missing
      BY <1>5 DEF AskedToCreate
    <2>8. E!Processed(staged)[i] = E!Row(TRUE, v)
      BY <2>6, <2>7, <1>3
    <2>9. E!Wanted(rows[i], E!Asked[i]) = E!Row(TRUE, v)
      <3>1. E!Asked[i].link = "created" /\ E!Asked[i].value = v
        BY <2>1, AskFields
      <3> QED BY <3>1, <2>7, WantedMissing
    <2> QED BY <2>7, <2>8, <2>9
  <1>6. CASE AskedToEdit(i)
    <2>1. PICK v \in Values \cup {Same}, attach \in BOOLEAN :
            /\ Of(staged.update, i) = {E!Edit(i, v, attach)}
            /\ E!Asked[i] = E!Ask(IF ToRemove(i) THEN "unlinked" ELSE "linked", v)
      BY <1>6 DEF AskedToEdit
    <2>2. PICK e : e = E!Edit(i, v, attach)
      OBVIOUS
    <2>3. e.value = v
      BY <2>2 DEF E!Edit
    <2>4. WithCreation(i) = rows[i]
      BY <1>4, <1>6 DEF AskedToEdit, WithCreation
    <2>5. CASE rows[i] = Missing
      <3>1. WithUpdate(i) = Missing
        BY <2>4, <2>5 DEF WithUpdate, E!UpdateRow
      <3>2. E!Processed(staged)[i] = Missing
        BY <3>1, <1>3
      <3>3. E!Asked[i].link \in {"linked", "unlinked"}
        BY <2>1, AskFields
      <3>4. E!Wanted(rows[i], E!Asked[i]) = Missing
        BY <2>5, <3>3, WantedMissing
      <3> QED BY <3>2, <3>3, <3>4
    <2>6. CASE rows[i] # Missing
      <3>1. PICK r \in E!Rows : r = rows[i]
        BY <2>6, <1>2
      <3>2. PICK w : w = IF v # Same THEN v ELSE r.value
        OBVIOUS
      <3>3. /\ E!Indexes(staged.update, i) # {}
            /\ E!LastValue(staged.update, i, r.value) =
                 IF e.value # Same THEN e.value ELSE r.value
        BY <2>1, <2>2, <1>1, OneValue
      <3>4. WithUpdate(i) = E!Row(TRUE, w)
        BY <2>3, <2>4, <2>6, <3>1, <3>2, <3>3 DEF WithUpdate, E!UpdateRow
      <3>5. w \in Values
        BY <3>1, <3>2 DEF E!Rows
      <3>6. WithUpdate(i) # Missing /\ [WithUpdate(i) EXCEPT !.here = FALSE] = E!Row(FALSE, w)
        <4>1. WithUpdate(i) \in E!Rows /\ WithUpdate(i).value = w
          BY <3>4, <3>5 DEF E!Row, E!Rows
        <4> QED BY <4>1, <1>2, TakenAway
      <3>7. E!Processed(staged)[i] = IF ToRemove(i) THEN E!Row(FALSE, w) ELSE E!Row(TRUE, w)
        BY <3>4, <3>6, <1>3
      <3>8. CASE ToRemove(i)
        <4>1. E!Asked[i] = E!Ask("unlinked", v)
          BY <2>1, <3>8
        <4>2. /\ E!Wanted(r, E!Ask("unlinked", v)) = E!Row(FALSE, w)
              /\ E!Ask("unlinked", v).link # "created"
          BY <2>6, <3>1, <3>2 DEF E!Wanted, E!Ask
        <4> QED BY <4>1, <4>2, <3>1, <3>7, <3>8
      <3>9. CASE ~ToRemove(i)
        <4>1. E!Asked[i] = E!Ask("linked", v)
          BY <2>1, <3>9
        <4>2. /\ E!Wanted(r, E!Ask("linked", v)) = E!Row(TRUE, w)
              /\ E!Ask("linked", v).link # "created"
          BY <2>6, <3>1, <3>2 DEF E!Wanted, E!Ask
        <4> QED BY <4>1, <4>2, <3>1, <3>7, <3>9
      <3> QED BY <3>8, <3>9
    <2> QED BY <2>5, <2>6
  <1>7. CASE NotEdited(i)
    <2>1. WithUpdate(i) = rows[i]
      BY <1>4, <1>7 DEF NotEdited, WithCreation, WithUpdate, E!UpdateRow
    <2>2. CASE rows[i] = Missing
      <3>1. E!Processed(staged)[i] = Missing
        BY <2>1, <2>2, <1>3
      <3>2. E!Asked[i].link \in {"as is", "unlinked"}
        BY <1>7, AskFields DEF NotEdited, E!Nothing
      <3>3. E!Wanted(rows[i], E!Asked[i]) = Missing
        BY <3>2, <2>2, WantedMissing
      <3> QED BY <3>1, <3>2, <3>3
    <2>3. CASE rows[i] # Missing
      <3>1. PICK r \in E!Rows : r = rows[i]
        BY <2>3, <1>2
      <3>2. CASE ToRemove(i)
        <4>1. E!Asked[i] = E!Ask("unlinked", Same)
          BY <3>2, <1>7 DEF NotEdited
        <4>2. /\ E!Wanted(r, E!Ask("unlinked", Same)) = E!Row(FALSE, r.value)
              /\ E!Ask("unlinked", Same).link # "created"
          BY <2>3, <3>1 DEF E!Wanted, E!Ask
        <4>3. [r EXCEPT !.here = FALSE] = E!Row(FALSE, r.value)
          BY TakenAway
        <4> QED BY <4>1, <4>2, <4>3, <3>1, <3>2, <2>1, <2>3, <1>3
      <3>3. CASE ~ToRemove(i)
        <4>1. E!Asked[i] = E!Ask("as is", Same)
          BY <3>3, <1>7 DEF NotEdited, E!Nothing
        <4>2. /\ E!Wanted(r, E!Ask("as is", Same)) = E!Row(r.here, r.value)
              /\ E!Ask("as is", Same).link # "created"
          BY <2>3, <3>1 DEF E!Wanted, E!Ask
        <4>3. r = E!Row(r.here, r.value)
          BY DEF E!Rows, E!Row
        <4> QED BY <4>1, <4>2, <4>3, <3>1, <3>3, <2>1, <2>3, <1>3
      <3> QED BY <3>2, <3>3
    <2> QED BY <2>2, <2>3
  <1> QED BY <1>5, <1>6, <1>7 DEF StagedAsAsked, AsAsked

(* Every step is one of the part itself, or leaves it as it is. *)
LEMMA EditsSteps ==
    [Next]_vars => /\ part' = part
                   /\ part = "edits" => [E!Next]_(E!vars)
  BY DEF Next, vars, ofEdits, E!vars, E!page, E!asks

EditsInv == part = "edits" => EditsSafe

(* The invariant holds of every behaviour of the page. *)
THEOREM EditsInvariance == Spec => []EditsInv
  <1>1. Init => EditsInv
    BY EditsInit DEF Init, EditsInv
  <1>2. EditsInv /\ [Next]_vars => EditsInv'
    BY EditsSteps, EditsNext DEF EditsInv
  <1> QED BY <1>1, <1>2, PTL DEF Spec

(* However a user adds, edits, removes and puts back items of a relation,   *)
(* and other users their rows: a save does to every row what was asked for  *)
(* it last on the page when the request was sent, and nothing to the        *)
(* others, creating a row once.  Excepted are, by name, the rows that were  *)
(* dropped (which it leaves as they are): by an answer that came after they *)
(* were edited, or as an edited child that passes for selected; a save that *)
(* is sent again before an answer; and what was muddled before one.         *)
THEOREM EditsStaySaved == Spec => EditsSaved
  <1>1. EditsInv /\ [Next]_vars => [part = "edits" => E!SavedAsAsked]_vars
    <2> SUFFICES ASSUME EditsInv, part = "edits", E!Save, ~again', ~muddled, NEW i \in Related
                 PROVE  \/ i \in dropped /\ rows'[i] = rows[i]
                        \/ /\ i \notin dropped
                           /\ rows'[i] = E!Wanted(rows[i], want[i])
                           /\ want[i].link = "created" => rows[i] = Missing
      BY DEF E!SavedAsAsked
    <2>1. EditsSafe
      BY DEF EditsInv
    <2>2. saves = 0
      <3>1. saves # 0 => saves > 0
        BY <2>1, EditsAssumption DEF EditsSafe, E!TypeOK
      <3> QED BY <3>1 DEF E!Save
    <2>3. /\ rows'[i] = E!Wanted(rows[i], E!Asked[i])
          /\ E!Asked[i].link = "created" => rows[i] = Missing
      <3>1. rows' = E!Processed(staged)
        BY DEF E!Save
      <3> QED BY <2>1, <2>2, <3>1, SavedRow DEF EditsSafe
    <2>4. CASE i \in dropped
      <3>1. E!Asked[i] = E!Nothing
        BY <2>4 DEF E!Asked
      <3>2. rows[i] \in E!Rows \cup {Missing}
        BY <2>1 DEF EditsSafe, E!TypeOK
      <3> QED BY <2>3, <2>4, <3>1, <3>2, WantedNothing
    <2>5. CASE i \notin dropped
      <3>1. E!Asked[i] = want[i]
        BY <2>5 DEF E!Asked
      <3> QED BY <2>3, <2>5, <3>1
    <2> QED BY <2>4, <2>5
  <1> QED BY <1>1, EditsInvariance, PTL DEF Spec, EditsSaved

-----------------------------------------------------------------------------
(* Items.  The part is instantiated or it is not, for good; if it is, its   *)
(* variables behave as those of the module do, of which ItemsProofs shows   *)
(* what follows.                                                            *)

P == INSTANCE ItemsProofs

(* No step changes which part is instantiated. *)
LEMMA PartStays == Spec => [](part = "items") \/ []~(part = "items")
  <1>1. [Next]_vars => part' = part
    BY DEF Next, vars
  <1>2. part = "items" /\ [Next]_vars => (part = "items")'
    BY <1>1
  <1>3. ~(part = "items") /\ [Next]_vars => (~(part = "items"))'
    BY <1>1
  <1> QED BY <1>2, <1>3, PTL DEF Spec

(* The two instances of Items are one: so are their assumption, ... *)
LEMMA SameCount ==
    /\ \A K : I!Cardinality(K) = P!Cardinality(K)
    /\ \A K : IsFiniteSet(K) <=> P!IsFiniteSet(K)
  BY DEF I!Cardinality, P!Cardinality, IsFiniteSet, P!IsFiniteSet

LEMMA SameAssumption ==
    /\ Keys \subseteq Nat /\ P!IsFiniteSet(Keys) /\ Existing \subseteq Keys
    /\ Admins \subseteq Reqs
    /\ Kinds \subseteq P!Operations
    /\ AsText \in [Keys -> Nat] /\ \A j, k \in Keys : AsText[j] = AsText[k] => j = k
    /\ Limit \in Nat \ {0} /\ MaxDeaths \in Nat
    /\ None \notin Keys \cup Reqs
  BY ItemsAssumption, SameCount DEF Operations, P!Operations

(* ... their helpers, ... *)
LEMMA SameHelpers ==
    /\ I!NoResponse = P!NoResponse /\ I!EmitsInside = P!EmitsInside
    /\ \A k : I!Exists(k) <=> P!Exists(k)
    /\ \A r, k : I!Free(r, k) <=> P!Free(r, k)
    /\ \A r : I!PurgeDue(r) <=> P!PurgeDue(r)
    /\ \A r, K : I!Lock(r, K) => P!Lock(r, K)
    /\ \A r : I!Unlock(r) => P!Unlock(r)
    /\ \A r, k : I!Snapshot(r, k) = P!Snapshot(r, k)
    /\ \A r, k : I!RevisionOf(r, k) = P!RevisionOf(r, k)
  <1>1. /\ I!NoResponse = P!NoResponse /\ I!EmitsInside = P!EmitsInside
        /\ \A k : I!Exists(k) <=> P!Exists(k)
        /\ \A r, k : I!Free(r, k) <=> P!Free(r, k)
        /\ \A r : I!PurgeDue(r) <=> P!PurgeDue(r)
    BY DEF I!NoResponse, P!NoResponse, I!EmitsInside, P!EmitsInside, I!Exists, P!Exists,
           I!Free, P!Free, I!PurgeDue, P!PurgeDue
  <1>2. ASSUME NEW r, NEW K, I!Lock(r, K) PROVE P!Lock(r, K)
    BY <1>2 DEF I!Lock, P!Lock
  <1>3. ASSUME NEW r, I!Unlock(r) PROVE P!Unlock(r)
    BY <1>3 DEF I!Unlock, P!Unlock
  <1>4. ASSUME NEW r, NEW k PROVE I!Snapshot(r, k) = P!Snapshot(r, k)
    <2>1. /\ \A K : I!Rank(k, K) = P!Rank(k, K) /\ I!TextRank(k, K) = P!TextRank(k, K)
          /\ \A j, K : I!Rank(j, K) = P!Rank(j, K)
      BY SameCount DEF I!Rank, P!Rank, I!TextRank, P!TextRank
    <2>2. PICK found : found = {j \in req[r].written :
                                  P!Rank(j, req[r].written) = P!TextRank(k, req[r].keys)}
      OBVIOUS
    <2>3. found = {j \in req[r].written :
                                  I!Rank(j, req[r].written) = I!TextRank(k, req[r].keys)}
      BY <2>1, <2>2
    <2>4. P!Snapshot(r, k) = IF found = {} THEN None ELSE CHOOSE j \in found : TRUE
      BY <2>2 DEF P!Snapshot
    <2>5. I!Snapshot(r, k) = IF found = {} THEN None ELSE CHOOSE j \in found : TRUE
      BY <2>3 DEF I!Snapshot
    <2> QED BY <2>4, <2>5
  <1>5. ASSUME NEW r, NEW k PROVE I!RevisionOf(r, k) = P!RevisionOf(r, k)
    BY <1>1, <1>4 DEF I!RevisionOf, P!RevisionOf
  <1> QED BY <1>1, <1>2, <1>3, <1>4, <1>5

(* ... and their actions. *)
LEMMA SameSteps == I!Next => P!Next
  <1>1. ASSUME NEW r, I!Begin(r) PROVE P!Begin(r)
    <2>1. ASSUME NEW kind, NEW K, I!BeginMany(r, kind, K) PROVE P!BeginMany(r, kind, K)
      BY <2>1, SameCount DEF I!BeginMany, P!BeginMany
    <2>2. ASSUME NEW kind, NEW K, I!BeginBatch(r, kind, K) PROVE P!BeginBatch(r, kind, K)
      BY <2>2 DEF I!BeginBatch, P!BeginBatch
    <2>3. ASSUME NEW k, I!BeginUpsert(r, k) PROVE P!BeginUpsert(r, k)
      BY <2>3 DEF I!BeginUpsert, P!BeginUpsert
    <2> QED BY <1>1, <2>1, <2>2, <2>3 DEF I!Begin, P!Begin
  <1>2. ASSUME NEW r, I!UpsertDecide(r) PROVE P!UpsertDecide(r)
    BY <1>2, SameHelpers DEF I!UpsertDecide, P!UpsertDecide
  <1>3. ASSUME NEW r, I!Check(r) PROVE P!Check(r)
    BY <1>3, SameHelpers DEF I!Check, P!Check
  <1>4. ASSUME NEW r, I!WriteMany(r) PROVE P!WriteMany(r)
    BY <1>4, SameHelpers DEF I!WriteMany, P!WriteMany
  <1>5. ASSUME NEW r, NEW k, I!Find(r, k) PROVE P!Find(r, k)
    BY <1>5, SameHelpers DEF I!Find, P!Find
  <1>6. ASSUME NEW r, NEW k, I!CreateItem(r, k) PROVE P!CreateItem(r, k)
    BY <1>6, SameHelpers DEF I!CreateItem, P!CreateItem
  <1>7. ASSUME NEW r, NEW k, I!UpdateItem(r, k) PROVE P!UpdateItem(r, k)
    BY <1>7, SameHelpers DEF I!UpdateItem, P!UpdateItem
  <1>8. ASSUME NEW r, I!Commit(r) PROVE P!Commit(r)
    BY <1>8, SameHelpers DEF I!Commit, P!Commit
  <1>9. ASSUME NEW r, I!Rollback(r) PROVE P!Rollback(r)
    BY <1>9, SameHelpers DEF I!Rollback, P!Rollback
  <1>10. ASSUME NEW r, I!Purge(r) PROVE P!Purge(r)
    BY <1>10, SameHelpers DEF I!Purge, P!Purge
  <1>11. ASSUME NEW r, I!Emit(r) PROVE P!Emit(r)
    BY <1>11, SameHelpers DEF I!Emit, P!Emit
  <1>12. ASSUME NEW r, I!Die(r) PROVE P!Die(r)
    BY <1>12, SameHelpers DEF I!Die, P!Die
  <1>13. ASSUME NEW d, I!Read(d) \/ I!Respond(d) PROVE P!Read(d) \/ P!Respond(d)
    BY <1>13, SameHelpers DEF I!Read, P!Read, I!Respond, P!Respond
  <1>14. ASSUME I!Expire PROVE P!Expire
    BY <1>14, SameHelpers DEF I!Expire, P!Expire
  <1>15. ASSUME NEW r \in Reqs, I!Write(r) PROVE P!Write(r)
    BY <1>4, <1>5, <1>6, <1>7, <1>15 DEF I!Write, P!Write
  <1> QED
    BY <1>1, <1>2, <1>3, <1>8, <1>9, <1>10, <1>11, <1>12, <1>13, <1>14, <1>15 DEF I!Next, P!Next

(* Where the part is instantiated, Items is implemented. *)
LEMMA ItemsImplemented == Spec /\ part = "items" => P!Spec
  <1>1. Init /\ part = "items" => P!Init
    BY DEF Init, I!Init, P!Init, I!NoResponse, P!NoResponse
  <1>2. [Next]_vars => part' = part /\ (part = "items" => [I!Next]_(I!vars))
    BY DEF Next, vars, ofItems, I!vars
  <1>3. UNCHANGED I!vars => UNCHANGED P!vars
    BY DEF I!vars, P!vars
  <1>4. part = "items" /\ [Next]_vars => (part = "items")' /\ [P!Next]_(P!vars)
    BY <1>2, <1>3, SameSteps
  <1> QED BY <1>1, <1>4, PTL DEF Spec, P!Spec

(* Action events tell of nothing that is not committed, but for those that  *)
(* are emitted inside a transaction (updateBatch, upsertMany).              *)
THEOREM EventsFollowCommits == Spec => []ActionsFollowCommit
  <1>1. P!Spec => []P!ActionsFollowCommit
    BY P!EventsFollowCommits, SameAssumption, PTL
  <1>2. P!ActionsFollowCommit => ActionsFollowCommit
    BY SameHelpers, SameCount
       DEF ActionsFollowCommit, I!ActionsFollowCommit, P!ActionsFollowCommit
  <1>3. ~(part = "items") => ActionsFollowCommit
    BY DEF ActionsFollowCommit
  <1> QED BY <1>1, <1>2, <1>3, ItemsImplemented, PartStays, PTL

(* A mutation that is done has told of all its keys if it committed, and of *)
(* none if it was rolled back, with the same exceptions.                    *)
THEOREM EventsComplete == Spec => []AllAnnounced
  <1>1. P!Spec => []P!AllAnnounced
    BY P!EventsComplete, SameAssumption, PTL
  <1>2. P!AllAnnounced => AllAnnounced
    BY SameHelpers, SameCount
       DEF AllAnnounced, I!AllAnnounced, P!AllAnnounced
  <1>3. ~(part = "items") => AllAnnounced
    BY DEF AllAnnounced
  <1> QED BY <1>1, <1>2, <1>3, ItemsImplemented, PartStays, PTL

(* One request changes no more items than MAX_BATCH_MUTATION, over all the  *)
(* nested calls it makes.                                                   *)
THEOREM BatchesBounded == Spec => []BatchLimit
  <1>1. P!Spec => []P!BatchLimit
    BY P!BatchesBounded, SameAssumption, PTL
  <1>2. P!BatchLimit => BatchLimit
    BY SameHelpers, SameCount
       DEF BatchLimit, I!BatchLimit, P!BatchLimit
  <1>3. ~(part = "items") => BatchLimit
    BY DEF BatchLimit
  <1> QED BY <1>1, <1>2, <1>3, ItemsImplemented, PartStays, PTL

(* The newest revision of an item was written by the mutation that wrote    *)
(* the item last and holds its data, whenever the committed mutations that  *)
(* named it found all their items in the order of their sorted keys.        *)
THEOREM RevisionsFit == Spec => []RevisionsFollowItems
  <1>1. P!Spec => []P!RevisionsFollowItems
    BY P!RevisionsFit, SameAssumption, PTL
  <1>2. P!RevisionsFollowItems => RevisionsFollowItems
    BY SameHelpers, SameCount
       DEF RevisionsFollowItems, I!RevisionsFollowItems, P!RevisionsFollowItems,
           I!NewestRevisionFits, P!NewestRevisionFits, I!SnapshotsFit, P!SnapshotsFit
  <1>3. ~(part = "items") => RevisionsFollowItems
    BY DEF RevisionsFollowItems
  <1> QED BY <1>1, <1>2, <1>3, ItemsImplemented, PartStays, PTL

(* A stale response is cached only until the purge of the mutation that     *)
(* made it so, but for late responses and processes that died.              *)
THEOREM CacheStaleness == Spec => []StaleUntilPurge
  <1>1. P!Spec => []P!StaleUntilPurge
    BY P!CacheStaleness, SameAssumption, PTL
  <1>2. P!StaleUntilPurge => StaleUntilPurge
    BY SameHelpers, SameCount
       DEF StaleUntilPurge, I!StaleUntilPurge, P!StaleUntilPurge
  <1>3. ~(part = "items") => StaleUntilPurge
    BY DEF StaleUntilPurge
  <1> QED BY <1>1, <1>2, <1>3, ItemsImplemented, PartStays, PTL

ItemsInv == part = "items" => I!TypeOK

(* The variables of the part have their types. *)
LEMMA ItemsInvariance == Spec => []ItemsInv
  <1>1. P!Spec => []P!TypeOK
    BY P!TypeCorrect, SameAssumption, PTL
  <1>2. P!TypeOK => ItemsInv
    BY DEF ItemsInv, I!TypeOK, P!TypeOK, I!Item, P!Item, I!Contents, P!Contents, I!Request,
           P!Request, I!Operations, P!Operations, I!Revision, P!Revision, I!Response, P!Response
  <1>3. ~(part = "items") => ItemsInv
    BY DEF ItemsInv
  <1> QED BY <1>1, <1>2, <1>3, ItemsImplemented, PartStays, PTL

-----------------------------------------------------------------------------
(* Whatever part is instantiated, its variables have their types: each of   *)
(* the inductive invariants, here and in the modules of the other parts,    *)
(* says so of its own.                                                      *)
THEOREM PartsStayTyped == Spec => []TypeOK
  <1>1. SharesInv => (part = "shares" => S!TypeOK)
    BY DEF SharesInv, SharesSafe
  <1>2. WebhooksInv => (part = "webhooks" => W!TypeOK)
    BY DEF WebhooksInv, WebhooksSafe
  <1>3. RegistrationInv => (part = "registration" => R!TypeOK)
    BY DEF RegistrationInv, RegistrationSafe
  <1>4. UploadsInv => (part = "uploads" => U!TypeOK)
    BY DEF UploadsInv, UploadsSafe
  <1>5. ClientInv => (part = "client" => C!TypeOK)
    BY DEF ClientInv, ClientSafe
  <1>6. EditsInv => (part = "edits" => E!TypeOK)
    BY DEF EditsInv, EditsSafe
  <1>7. SharesInv /\ WebhooksInv /\ RegistrationInv /\ UploadsInv /\ ClientInv /\ EditsInv
        /\ ItemsInv /\ (part = "snapshots" => D!TypeOK) => TypeOK
    BY <1>1, <1>2, <1>3, <1>4, <1>5, <1>6 DEF TypeOK, ItemsInv
  <1> QED
    BY <1>7, SharesInvariance, WebhooksInvariance, RegistrationInvariance, UploadsInvariance,
       ClientInvariance, EditsInvariance, ItemsInvariance, SchemaStaysSound,
       PTL
==============================================================================
