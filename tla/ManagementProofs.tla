-------------------------- MODULE ManagementProofs --------------------------
(***************************************************************************)
(* Proofs about the administration of the local workspace, for any groups, *)
(* users, channels, products and bounds.                                   *)
(*                                                                         *)
(* Management: the types, the sessions that are stored, and the numbering  *)
(* of the reset links, which makes "the latest link" a single one.         *)
(*                                                                         *)
(* Catalog: Stocked says what the rows of products, cards and lists are,   *)
(* and that a list with the revision of its product shows that product.    *)
(*                                                                         *)
(* Fx: FxFits says that answers are to reads that were begun, that         *)
(* relations are between records there are, and that a clean report is     *)
(* what rebuilding gives.  The sums of a report are then cut into those of *)
(* the details, less the strays (SumSplit and SumOfParts of SumProofs).    *)
(***************************************************************************)
EXTENDS Management, Catalog, Fx, SumProofs, FunctionTheorems

(* The actions that leave the reset links alone.                           *)
Settings ==
  \/ \E g \in Groups : CreateGroup(g) \/ \E s \in {"active", "disabled"} : GroupStatusChange(g, s)
  \/ \E u \in Users :
       \/ MemberLogin(u)
       \/ \E g \in Groups : CreateUser(u, g) \/ MoveUser(u, g)
       \/ \E s \in {"active", "disabled"} : UserStatusChange(u, s)
       \/ \E s \in {"active", "rejected"} : ReviewUser(u, s)
  \/ \E s \in sessions : SessionExpires(s)

(* No session belongs to a user or a group that is not there.              *)
Entered ==
  /\ group \in [Groups -> GroupStatus]
  /\ user \in [Users -> [status : UserStatus, group : Groups \cup {"none"}, credential : Nat]]
  /\ sessions \subseteq [subject : Users, credential : Nat]
  /\ IsFiniteSet(resets) /\ resets \subseteq [user : Users, number : Nat, open : BOOLEAN]
  /\ SessionsCurrent

(* The links of a user are numbered without a repetition, and a link that  *)
(* is still open is the last one.                                          *)
Numbered ==
  /\ \A q, r \in resets : q.user = r.user /\ q.number = r.number => q = r
  /\ \A r \in resets : /\ r.number <= Cardinality(ResetsOf(r.user))
                       /\ r.open => r.number = Cardinality(ResetsOf(r.user))

-----------------------------------------------------------------------------
(* Sessions.                                                               *)

LEMMA EnteredInit == ManagementInit => Entered
  BY FS_EmptySet DEF ManagementInit, Entered, SessionsCurrent, GroupStatus, UserStatus

LEMMA EnteredSettings == ASSUME Entered, Settings PROVE Entered'
<1> USE DEF Entered, SessionsCurrent, MayEnter, GroupActive
<1>1. ASSUME NEW g \in Groups, CreateGroup(g) PROVE Entered'
  BY <1>1 DEF CreateGroup, GroupStatus
<1>2. ASSUME NEW g \in Groups, NEW s \in {"active", "disabled"}, GroupStatusChange(g, s)
      PROVE  Entered'
  BY <1>2 DEF GroupStatusChange, GroupStatus, Without
<1>3. ASSUME NEW u \in Users, NEW g \in Groups, CreateUser(u, g) PROVE Entered'
  BY <1>3 DEF CreateUser, UserStatus
<1>4. ASSUME NEW u \in Users, NEW g \in Groups, MoveUser(u, g) PROVE Entered'
  BY <1>4 DEF MoveUser, UserStatus
<1>5. ASSUME NEW u \in Users, NEW s \in {"active", "disabled"}, UserStatusChange(u, s)
      PROVE  Entered'
  BY <1>5 DEF UserStatusChange, UserStatus, Without
<1>6. ASSUME NEW u \in Users, NEW s \in {"active", "rejected"}, ReviewUser(u, s) PROVE Entered'
  BY <1>6 DEF ReviewUser, UserStatus
<1>7. ASSUME NEW u \in Users, MemberLogin(u) PROVE Entered'
  BY <1>7 DEF MemberLogin
<1>8. ASSUME NEW s \in sessions, SessionExpires(s) PROVE Entered'
  BY <1>8 DEF SessionExpires
<1> QED BY <1>1, <1>2, <1>3, <1>4, <1>5, <1>6, <1>7, <1>8 DEF Settings

(* Closing the links of a user leaves finitely many records.               *)
LEMMA ConsumedIsTyped ==
  ASSUME Entered, NEW u \in Users
  PROVE  IsFiniteSet(Consumed(u)) /\ Consumed(u) \subseteq [user : Users, number : Nat, open : BOOLEAN]
<1> DEFINE Close == [r \in resets |-> IF r.user = u THEN [r EXCEPT !.open = FALSE] ELSE r]
<1>1. Close \in [resets -> Consumed(u)] /\ \A q \in Consumed(u) : \E r \in resets : Close[r] = q
  BY DEF Consumed
<1>2. Close \in Surjection(resets, Consumed(u))
  BY <1>1, Fun_IsSurj
<1>3. IsFiniteSet(Consumed(u))
  BY <1>2, FS_Surjection DEF Entered
<1>4. ASSUME NEW r \in resets
      PROVE  [r EXCEPT !.open = FALSE] \in [user : Users, number : Nat, open : BOOLEAN]
  BY DEF Entered
<1>5. Consumed(u) \subseteq [user : Users, number : Nat, open : BOOLEAN]
  BY <1>4 DEF Consumed, Entered
<1> QED BY <1>3, <1>5

LEMMA NewResetIsTyped ==
  ASSUME Entered, NEW u \in Users
  PROVE  /\ IsFiniteSet(ResetsOf(u)) /\ Cardinality(ResetsOf(u)) \in Nat
         /\ NewReset(u) \in [user : Users, number : Nat, open : BOOLEAN]
<1>1. ResetsOf(u) \in SUBSET resets
  BY DEF ResetsOf
<1>2. IsFiniteSet(ResetsOf(u)) /\ Cardinality(ResetsOf(u)) \in Nat
  BY <1>1, FS_Subset, FS_CardinalityType DEF Entered
<1> QED BY <1>2 DEF NewReset

LEMMA EnteredNext == ASSUME Entered, [ManagementNext]_managementVars PROVE Entered'
<1>1. ASSUME NEW u \in Users, RequestReset(u) PROVE Entered'
  <2>1. IsFiniteSet(resets') /\ resets' \subseteq [user : Users, number : Nat, open : BOOLEAN]
    <3>1. resets' = Consumed(u) \cup {NewReset(u)}
      BY <1>1 DEF RequestReset
    <3>2. IsFiniteSet(Consumed(u) \cup {NewReset(u)})
      BY ConsumedIsTyped, FS_AddElement
    <3>3. Consumed(u) \cup {NewReset(u)} \subseteq [user : Users, number : Nat, open : BOOLEAN]
      BY ConsumedIsTyped, NewResetIsTyped
    <3> QED BY <3>1, <3>2, <3>3, Zenon
  <2> QED
    BY <1>1, <2>1 DEF RequestReset, Entered, SessionsCurrent, MayEnter, GroupActive
<1>2. ASSUME NEW r \in resets, CompleteReset(r) PROVE Entered'
  <2>0. r.user \in Users
    BY DEF Entered
  <2>1. user[r.user].credential + 1 \in Nat
    BY <2>0 DEF Entered
  <2>2. /\ user' \in [Users -> [status : UserStatus, group : Groups \cup {"none"}, credential : Nat]]
        /\ \A u \in Users \ {r.user} : user'[u] = user[u]
    BY <1>2, <2>0, <2>1 DEF CompleteReset, SetPassword, Entered
  <2>3. sessions' = {s \in sessions : s.subject # r.user} /\ group' = group
    BY <1>2 DEF CompleteReset, Without
  <2>4. IsFiniteSet(resets') /\ resets' \subseteq [user : Users, number : Nat, open : BOOLEAN]
    BY <1>2, <2>0, ConsumedIsTyped DEF CompleteReset
  <2> QED BY <2>2, <2>3, <2>4 DEF Entered, SessionsCurrent, MayEnter, GroupActive
<1>3. ASSUME NEW r \in resets, ResetExpires(r) PROVE Entered'
  <2>1. IsFiniteSet(resets')
    BY <1>3, FS_RemoveElement, FS_AddElement DEF ResetExpires, Entered
  <2>2. [r EXCEPT !.open = FALSE] \in [user : Users, number : Nat, open : BOOLEAN]
    BY DEF Entered
  <2> QED BY <1>3, <2>1, <2>2 DEF ResetExpires, Entered, SessionsCurrent, MayEnter, GroupActive
<1>4. CASE UNCHANGED managementVars
  BY <1>4 DEF managementVars, Entered, SessionsCurrent, MayEnter, GroupActive
<1> QED BY <1>1, <1>2, <1>3, <1>4, EnteredSettings DEF ManagementNext, Settings

(* A stored session is one of an active user of an active group who        *)
(* entered with the password in use, so that enabling the user or the      *)
(* group again brings no old session back (managementWrite, completeReset).*)
THEOREM SessionsStayCurrent == ManagementSpec => []SessionsCurrent
<1>1. Entered => SessionsCurrent
  BY DEF Entered
<1> QED BY <1>1, EnteredInit, EnteredNext, PTL DEF ManagementSpec

-----------------------------------------------------------------------------
(* Reset links.                                                            *)

(* What closes links changes no number and no count of links.              *)
LEMMA ClosedKeepsNumbers ==
  ASSUME Entered, Numbered, NEW u \in Users
  PROVE  LET Closed == {[r EXCEPT !.open = FALSE] : r \in ResetsOf(u)}
         IN  IsFiniteSet(Closed) /\ Cardinality(Closed) = Cardinality(ResetsOf(u))
<1> DEFINE S == ResetsOf(u)
           T == {[r EXCEPT !.open = FALSE] : r \in S}
           Close == [r \in S |-> [r EXCEPT !.open = FALSE]]
<1>1. ASSUME NEW q \in S, NEW r \in S, Close[q] = Close[r] PROVE q = r
  <2>1. q \in [user : Users, number : Nat, open : BOOLEAN] /\ r \in [user : Users, number : Nat, open : BOOLEAN]
    BY DEF Entered, ResetsOf
  <2>2. Close[q].number = q.number /\ Close[r].number = r.number /\ q.user = r.user
    BY <2>1 DEF ResetsOf
  <2>3. q.number = r.number
    BY <1>1, <2>2
  <2>4. q \in resets /\ r \in resets
    BY DEF ResetsOf
  <2> HIDE DEF S, Close
  <2> QED BY <2>2, <2>3, <2>4 DEF Numbered
<1>2. Close \in [S -> T] /\ \A t \in T : \E r \in S : Close[r] = t
  OBVIOUS
<1>3. Close \in Bijection(S, T)
  <2> HIDE DEF Close, S, T
  <2> QED BY <1>1, <1>2, Fun_IsBij
<1>4. ExistsBijection(S, T)
  BY <1>3 DEF ExistsBijection
<1>5. IsFiniteSet(S)
  BY NewResetIsTyped
<1> QED BY <1>4, <1>5, FS_Bijection

LEMMA ConsumedIsNumbered ==
  ASSUME Entered, Numbered, NEW u \in Users, resets' = Consumed(u)
  PROVE  /\ Numbered'
         /\ \A v \in Users : Cardinality(ResetsOf(v)') = Cardinality(ResetsOf(v))
         /\ \A r \in resets' : r.user = u => ~r.open
<1>1. ResetsOf(u)' = {[r EXCEPT !.open = FALSE] : r \in ResetsOf(u)}
  BY DEF ResetsOf, Consumed, Entered
<1>2. \A v \in Users \ {u} : ResetsOf(v)' = ResetsOf(v)
  BY DEF ResetsOf, Consumed, Entered
<1>3. \A v \in Users : Cardinality(ResetsOf(v)') = Cardinality(ResetsOf(v))
  BY <1>1, <1>2, ClosedKeepsNumbers
<1>4. ASSUME NEW q \in resets'
      PROVE  \E r \in resets : /\ q.user = r.user /\ q.number = r.number
                               /\ q.open = (r.user # u /\ r.open)
                               /\ q = [user |-> r.user, number |-> r.number, open |-> q.open]
  BY DEF Consumed, Entered
<1>5. \A q, r \in resets' : q.user = r.user /\ q.number = r.number => q = r
  BY <1>4 DEF Numbered
<1>6. ASSUME NEW q \in resets'
      PROVE  /\ q.number <= Cardinality(ResetsOf(q.user)')
             /\ q.open => q.number = Cardinality(ResetsOf(q.user)')
  <2> PICK r \in resets : q.user = r.user /\ q.number = r.number /\ (q.open => r.open)
    BY <1>4
  <2> r.user \in Users
    BY DEF Entered
  <2> QED BY <1>3 DEF Numbered
<1> QED BY <1>3, <1>4, <1>5, <1>6 DEF Numbered, ResetsOf

(* A new link is the last one and the only one that is open.               *)
LEMMA RequestResetIsNumbered ==
  ASSUME Entered, Numbered, NEW u \in Users, RequestReset(u)
  PROVE  Numbered'
<1> DEFINE n == Cardinality(ResetsOf(u))
<1>1. n \in Nat /\ IsFiniteSet(ResetsOf(u))
  BY NewResetIsTyped
<1>2. ASSUME NEW q \in Consumed(u)
      PROVE  \E r \in resets : /\ q.user = r.user /\ q.number = r.number
                               /\ q.open = (r.user # u /\ r.open)
                               /\ q = [user |-> r.user, number |-> r.number, open |-> q.open]
  BY DEF Consumed, Entered
<1>3. ASSUME NEW q \in Consumed(u), q.user = u PROVE q.number <= n /\ ~q.open
  <2> PICK r \in resets : q.user = r.user /\ q.number = r.number /\ q.open = (r.user # u /\ r.open)
    BY <1>2
  <2>1. r.number <= Cardinality(ResetsOf(r.user))
    BY DEF Numbered
  <2> QED BY <1>3, <2>1
<1>4. ResetsOf(u)' = {[r EXCEPT !.open = FALSE] : r \in ResetsOf(u)} \cup {NewReset(u)}
  BY DEF RequestReset, ResetsOf, Consumed, NewReset, Entered
<1>5. NewReset(u) \notin {[r EXCEPT !.open = FALSE] : r \in ResetsOf(u)}
  <2>1. \A r \in ResetsOf(u) : [r EXCEPT !.open = FALSE].open = FALSE
    BY DEF ResetsOf, Entered
  <2> QED BY <2>1 DEF NewReset
<1>6. Cardinality(ResetsOf(u)') = n + 1
  BY <1>4, <1>5, ClosedKeepsNumbers, FS_AddElement
<1>7. \A v \in Users \ {u} : ResetsOf(v)' = ResetsOf(v)
  BY DEF RequestReset, ResetsOf, Consumed, NewReset, Entered
<1>8. NewReset(u).user = u /\ NewReset(u).number = n + 1
  BY DEF NewReset
<1>9. resets' = Consumed(u) \cup {NewReset(u)}
  BY DEF RequestReset
<1>10. ASSUME NEW q \in resets', NEW r \in resets', q.user = r.user, q.number = r.number
       PROVE  q = r
  <2>1. CASE q \in Consumed(u) /\ r \in Consumed(u)
    BY <1>2, <1>10, <2>1 DEF Numbered
  <2>2. CASE q = NewReset(u) /\ r \in Consumed(u)
    BY <1>1, <1>3, <1>8, <1>10, <2>2, <1>2 DEF Numbered, Entered
  <2>3. CASE q \in Consumed(u) /\ r = NewReset(u)
    BY <1>1, <1>3, <1>8, <1>10, <2>3, <1>2 DEF Numbered, Entered
  <2> QED BY <1>9, <2>1, <2>2, <2>3
<1>11. ASSUME NEW q \in resets'
       PROVE  /\ q.number <= Cardinality(ResetsOf(q.user)')
              /\ q.open => q.number = Cardinality(ResetsOf(q.user)')
  <2>1. CASE q = NewReset(u)
    BY <1>1, <1>6, <1>8, <2>1
  <2>2. CASE q \in Consumed(u) /\ q.user = u
    BY <1>1, <1>2, <1>3, <1>6, <2>2 DEF Entered
  <2>3. CASE q \in Consumed(u) /\ q.user # u
    <3> PICK r \in resets : q.user = r.user /\ q.number = r.number /\ q.open = (r.user # u /\ r.open)
      BY <1>2, <2>3
    <3> r.user \in Users \ {u}
      BY <2>3 DEF Entered
    <3> QED BY <1>7, <2>3 DEF Numbered
  <2> QED BY <1>9, <2>1, <2>2, <2>3
<1> QED BY <1>10, <1>11 DEF Numbered, ResetsOf

(* A link that expires keeps its number.                                   *)
LEMMA ResetExpiresIsNumbered ==
  ASSUME Entered, Numbered, NEW r \in resets, ResetExpires(r)
  PROVE  Numbered'
<1> DEFINE closed == [r EXCEPT !.open = FALSE]
           u == r.user
<1>0. r \in [user : Users, number : Nat, open : BOOLEAN]
  BY DEF Entered
<1>1. /\ u \in Users /\ r \in ResetsOf(u)
      /\ closed = [user |-> u, number |-> r.number, open |-> FALSE] /\ r.open
  <2>1. closed = [user |-> u, number |-> r.number, open |-> FALSE]
    <3>1. closed \in [user : Users, number : Nat, open : BOOLEAN]
      BY <1>0
    <3>2. closed.user = u /\ closed.number = r.number /\ closed.open = FALSE
      BY <1>0
    <3>3. closed = [user |-> closed.user, number |-> closed.number, open |-> closed.open]
      <4> HIDE DEF closed
      <4> QED BY <3>1
    <3> HIDE DEF closed, u
    <3> QED BY <3>2, <3>3
  <2>2. u \in Users /\ r \in ResetsOf(u)
    BY <1>0 DEF ResetsOf
  <2>3. r.open
    BY DEF ResetExpires
  <2> QED BY <2>1, <2>2, <2>3
<1>2. resets' = (resets \ {r}) \cup {closed}
  BY DEF ResetExpires
<1>3. closed \notin resets
  <2>1. closed.user = r.user /\ closed.number = r.number /\ closed # r
    BY <1>1
  <2> QED BY <2>1 DEF Numbered
<1>4. ResetsOf(u)' = (ResetsOf(u) \ {r}) \cup {closed}
  BY <1>1, <1>2 DEF ResetsOf
<1>5. Cardinality(ResetsOf(u)') = Cardinality(ResetsOf(u))
  <2>1. IsFiniteSet(ResetsOf(u)) /\ Cardinality(ResetsOf(u)) \in Nat
    BY <1>1, NewResetIsTyped
  <2>2. closed \notin ResetsOf(u) \ {r}
    BY <1>3 DEF ResetsOf
  <2>3. r \in ResetsOf(u)
    BY <1>1
  <2> HIDE DEF closed, u
  <2>4. IsFiniteSet(ResetsOf(u) \ {r}) /\ Cardinality(ResetsOf(u) \ {r}) = Cardinality(ResetsOf(u)) - 1
    BY <2>1, <2>3, FS_RemoveElement
  <2>5. Cardinality((ResetsOf(u) \ {r}) \cup {closed}) = Cardinality(ResetsOf(u) \ {r}) + 1
    BY <2>2, <2>4, FS_AddElement
  <2> QED BY <1>4, <2>1, <2>4, <2>5
<1>6. \A v \in Users \ {u} : ResetsOf(v)' = ResetsOf(v)
  BY <1>1, <1>2 DEF ResetsOf
<1>7. \A q \in resets : q.user = u /\ q.number = r.number => q = r
  BY DEF Numbered
<1>8. \A p, q \in resets' : p.user = q.user /\ p.number = q.number => p = q
  <2>1. closed.user = u /\ closed.number = r.number
    BY <1>1
  <2> HIDE DEF closed, u
  <2> QED BY <1>2, <1>7, <2>1 DEF Numbered
<1>9. ASSUME NEW q \in resets'
      PROVE  /\ q.number <= Cardinality(ResetsOf(q.user)')
             /\ q.open => q.number = Cardinality(ResetsOf(q.user)')
  <2>1. CASE q = closed
    <3>1. q.user = u /\ q.number = r.number /\ ~q.open
      BY <1>1, <2>1
    <3> QED BY <1>5, <3>1 DEF Numbered
  <2>2. CASE q \in resets /\ q.user = u
    BY <1>5, <2>2 DEF Numbered
  <2>3. CASE q \in resets /\ q.user # u
    BY <1>6, <2>3 DEF Numbered, Entered
  <2> QED BY <1>2, <2>1, <2>2, <2>3
<1> QED BY <1>8, <1>9 DEF Numbered, ResetsOf

LEMMA SettingsKeepLinks ==
  ASSUME Entered, Settings \/ UNCHANGED managementVars
  PROVE  resets' = resets /\ \A u \in Users : user'[u].credential = user[u].credential
<1> USE DEF Entered
<1>1. ASSUME NEW g \in Groups, NEW s \in {"active", "disabled"},
             CreateGroup(g) \/ GroupStatusChange(g, s)
      PROVE  resets' = resets /\ user' = user
  BY <1>1 DEF CreateGroup, GroupStatusChange
<1>2. ASSUME NEW u \in Users, NEW g \in Groups, CreateUser(u, g) \/ MoveUser(u, g)
      PROVE  resets' = resets /\ \A v \in Users : user'[v].credential = user[v].credential
  <2>1. CASE CreateUser(u, g)
    <3>1. user' = [user EXCEPT ![u] = [user[u] EXCEPT !.status = "pending", !.group = g]] /\ resets' = resets
      BY <2>1 DEF CreateUser
    <3>2. user'[u].credential = user[u].credential
      BY <3>1
    <3> QED BY <3>1, <3>2
  <2>2. CASE MoveUser(u, g)
    <3>1. user' = [user EXCEPT ![u].group = g] /\ resets' = resets
      BY <2>2 DEF MoveUser
    <3> QED BY <3>1
  <2> QED BY <1>2, <2>1, <2>2
<1>3. ASSUME NEW u \in Users, NEW s \in {"active", "disabled", "rejected"},
             UserStatusChange(u, s) \/ ReviewUser(u, s)
      PROVE  resets' = resets /\ \A v \in Users : user'[v].credential = user[v].credential
  BY <1>3 DEF UserStatusChange, ReviewUser
<1>4. ASSUME NEW u \in Users, MemberLogin(u) PROVE resets' = resets /\ user' = user
  BY <1>4 DEF MemberLogin
<1>5. ASSUME NEW s \in sessions, SessionExpires(s) PROVE resets' = resets /\ user' = user
  BY <1>5 DEF SessionExpires
<1>6. CASE UNCHANGED managementVars
  BY <1>6 DEF managementVars
<1> QED BY <1>1, <1>2, <1>3, <1>4, <1>5, <1>6 DEF Settings

LEMMA NumberedNext ==
  ASSUME Entered, Numbered, [ManagementNext]_managementVars PROVE Numbered'
<1>1. ASSUME NEW r \in resets, CompleteReset(r) PROVE Numbered'
  BY <1>1, ConsumedIsNumbered DEF CompleteReset, Entered
<1>2. CASE Settings \/ UNCHANGED managementVars
  BY <1>2, SettingsKeepLinks DEF Numbered, ResetsOf
<1> QED
  BY <1>1, <1>2, RequestResetIsNumbered, ResetExpiresIsNumbered DEF ManagementNext, Settings

(* A password is only set with the latest link issued for the user, and    *)
(* then no link of the user is left (completeReset).                       *)
THEOREM AlwaysLatestLinkOnce == ManagementSpec => LatestLinkOnce
<1>1. ManagementInit => Numbered
  BY DEF ManagementInit, Numbered
<1>2. ASSUME Entered, Numbered, [ManagementNext]_managementVars, NEW u \in Users,
             user'[u].credential # user[u].credential
      PROVE  \E r \in ResetsOf(u) : /\ r.open /\ r.number = Cardinality(ResetsOf(u))
                                    /\ \A q \in resets' : q.user = u => ~q.open
  <2>1. PICK r \in resets : CompleteReset(r)
    <3>1. \A v \in Users : ~RequestReset(v)
      BY <1>2 DEF RequestReset
    <3>2. \A r \in resets : ~ResetExpires(r)
      BY <1>2 DEF ResetExpires
    <3> QED BY <1>2, <3>1, <3>2, SettingsKeepLinks DEF ManagementNext, Settings
  <2>2. r.user = u
    BY <1>2, <2>1 DEF CompleteReset, SetPassword, Entered
  <2>3. r \in ResetsOf(u) /\ r.open /\ r.number = Cardinality(ResetsOf(u))
    <3>1. r.open
      BY <2>1 DEF CompleteReset
    <3>2. r.number = Cardinality(ResetsOf(r.user))
      BY <1>2, <3>1 DEF Numbered
    <3>3. r \in ResetsOf(u)
      BY <2>2 DEF ResetsOf
    <3> QED BY <2>2, <3>1, <3>2, <3>3
  <2>4. \A q \in resets' : q.user = u => ~q.open
    BY <1>2, <2>1, <2>2, ConsumedIsNumbered DEF CompleteReset
  <2> QED BY <2>3, <2>4
<1>3. Entered /\ Numbered /\ [ManagementNext]_managementVars =>
        [\A u \in Users : user'[u].credential # user[u].credential =>
           \E r \in ResetsOf(u) :
             /\ r.open /\ r.number = Cardinality(ResetsOf(u))
             /\ \A q \in resets' : q.user = u => ~q.open]_managementVars
  BY <1>2
<1> QED
  BY <1>1, <1>3, EnteredInit, EnteredNext, NumberedNext, PTL DEF ManagementSpec, LatestLinkOnce

(* Types, for any number of records.                                       *)
THEOREM ManagementTypesHold == ManagementSpec => []ManagementTypes
<1>1. Entered => ManagementTypes
  BY DEF Entered, ManagementTypes
<1> QED BY <1>1, EnteredInit, EnteredNext, PTL DEF ManagementSpec
-----------------------------------------------------------------------------
(* The catalogue.                                                          *)

ProductRows ==
  [status : ProductStatus \cup {"absent"}, max : Nat, revision : Int, prefix : Prefixes \cup {"none"},
   platform : {"Demo", "Slash"}, upstream : Sources \cup {"none"}, channel : Channels \cup {"none"}]

Stocked ==
  /\ channel \in [Channels -> {"absent", "active", "paused"}]
  /\ directory \in [Channels -> [Sources -> [prefix : Prefixes \cup {"none"},
                                             status : {"absent", "active", "inactive"}]]]
  /\ product \in [Products -> ProductRows] /\ listed \in [Products -> ProductRows]
  /\ \A p \in Products :
       /\ product[p].channel # "none" => product[p].upstream \in Sources /\ product[p].prefix \in Prefixes
       /\ product[p].status = "active" => product[p].prefix \in Prefixes /\ product[p].revision \in Nat
       /\ listed[p] # NoProduct =>
            /\ listed[p].revision <= product[p].revision
            /\ listed[p].revision = product[p].revision => listed[p] = product[p]
  /\ IsFiniteSet(cards)
  /\ cards \subseteq [product : Products, number : Nat, prefix : Prefixes, revision : Nat]
  /\ \A p \in Products : product[p].max \in Limits \cup {0} /\ listed[p].max \in Limits \cup {0}
                         /\ product[p].revision \in Nat \cup {-1}

CatalogInv == Stocked /\ CardsAsListed

LEMMA CardsCounted ==
  ASSUME IsFiniteSet(cards), NEW p
  PROVE  /\ Issued(p) \in Nat
         /\ Issued(p) = 0 <=> \A c \in cards : c.product # p
<1> DEFINE of == {c \in cards : c.product = p}
<1>1. IsFiniteSet(of)
  BY FS_Subset
<1>2. Cardinality(of) \in Nat /\ (Cardinality(of) = 0 <=> of = {})
  BY <1>1, FS_CardinalityType, FS_EmptySet
<1> QED BY <1>2 DEF Issued

LEMMA CatalogStarts == CatalogInit => CatalogInv
<1> SUFFICES ASSUME CatalogInit PROVE CatalogInv
  OBVIOUS
<1>1. IsFiniteSet(cards) /\ \A p : Issued(p) = 0
  BY FS_EmptySet, CardsCounted DEF CatalogInit
<1>2. NoProduct \in ProductRows /\ NoProduct.max = 0 /\ NoProduct.channel = "none"
  BY DEF NoProduct, ProductRows
<1>3. Stocked
  BY <1>1, <1>2 DEF CatalogInit, Stocked, NoProduct, NoSource
<1>4. CardsAsListed
  BY <1>1, <1>2 DEF CatalogInit, CardsAsListed
<1> QED BY <1>3, <1>4 DEF CatalogInv

LEMMA ChannelKeepsCatalog ==
  ASSUME CatalogInv, NEW c \in Channels,
         \/ \E status \in {"active", "paused"} : SaveChannel(c, status)
         \/ \E items \in Items : ImportChannelProducts(c, items)
  PROVE  CatalogInv'
<1>1. /\ UNCHANGED <<product, cards, listed>>
      /\ \A p : Issued(p)' = Issued(p)
  BY DEF SaveChannel, ImportChannelProducts, Imported, Issued
<1>2. CASE \E status \in {"active", "paused"} : SaveChannel(c, status)
  BY <1>1, <1>2 DEF SaveChannel, CatalogInv, Stocked, CardsAsListed
<1>3. ASSUME NEW items \in Items, ImportChannelProducts(c, items) PROVE CatalogInv'
  <2>1. /\ channel' = channel
        /\ directory' = [directory EXCEPT ![c] =
             [s \in Sources |-> IF items[s] = NoSource THEN directory[c][s] ELSE items[s]]]
    BY <1>3 DEF ImportChannelProducts, Imported
  <2>2. \A s \in Sources :
          /\ items[s] = NoSource \/ items[s] \in [prefix : Prefixes, status : {"active", "inactive"}]
          /\ items[s] \in [prefix : Prefixes \cup {"none"}, status : {"absent", "active", "inactive"}]
    BY DEF Items, NoSource
  <2>3. directory' \in [Channels -> [Sources -> [prefix : Prefixes \cup {"none"},
                                                 status : {"absent", "active", "inactive"}]]]
    BY <2>1, <2>2 DEF CatalogInv, Stocked
  <2>4. ASSUME NEW p \in Products, product[p].channel # "none"
        PROVE  directory'[product[p].channel][product[p].upstream].prefix = product[p].prefix
    <3> DEFINE d == product[p].channel
               s == product[p].upstream
    <3>1. d \in Channels /\ s \in Sources /\ product[p].prefix \in Prefixes
      BY <2>4 DEF CatalogInv, Stocked, ProductRows
    <3>2. directory[d][s].prefix = product[p].prefix
      BY <2>4 DEF CatalogInv, CardsAsListed
    <3>3. directory[d][s] # NoSource
      BY <3>1, <3>2, CatalogAssumption DEF NoSource
    <3>4. CASE d = c /\ items[s] # NoSource
      <4>1. directory'[d][s] = items[s]
        BY <2>1, <3>1, <3>4 DEF CatalogInv, Stocked
      <4>2. ListedAt(p, c, s)
        BY <3>4 DEF ListedAt
      <4> QED BY <1>3, <3>1, <3>2, <3>3, <3>4, <4>1, <4>2 DEF ImportChannelProducts
    <3>5. CASE d # c \/ items[s] = NoSource
      BY <2>1, <3>1, <3>2, <3>5 DEF CatalogInv, Stocked
    <3> QED BY <3>4, <3>5
  <2> QED BY <1>1, <2>1, <2>3, <2>4 DEF CatalogInv, Stocked, CardsAsListed
<1> QED BY <1>2, <1>3

LEMMA SaveKeepsCatalog ==
  ASSUME CatalogInv, NEW p \in Products, NEW row \in Rows, SaveBin(p, row)
  PROVE  CatalogInv'
<1> DEFINE new == [row EXCEPT !.revision = product[p].revision + 1]
<1>1. /\ UNCHANGED <<channel, directory, cards, listed>>
      /\ product' = [product EXCEPT ![p] = new]
      /\ row.max >= Issued(p) /\ Bindable(row)
      /\ Issued(p) > 0 => Identity(row) = Identity(product[p])
  BY DEF SaveBin, MaySave, Saved
<1>2. /\ new \in ProductRows /\ new.max = row.max /\ new.prefix = row.prefix
      /\ new.channel = row.channel /\ new.upstream = row.upstream
      /\ new.revision = product[p].revision + 1 /\ new.revision \in Nat
      /\ row.max \in Limits /\ row.prefix \in Prefixes
      /\ row.upstream \in Sources \cup {"none"} /\ row.channel \in Channels \cup {"none"}
  <2>1. product[p].revision \in Nat \cup {-1}
    BY DEF CatalogInv, Stocked
  <2>2. product[p].revision + 1 \in Nat
    BY <2>1
  <2> QED BY <2>2, CatalogAssumption DEF Rows, ProductRows
<1>3. /\ product'[p] = new /\ \A q \in Products \ {p} : product'[q] = product[q]
      /\ product' \in [Products -> ProductRows]
  BY <1>1, <1>2 DEF CatalogInv, Stocked
<1>4. \A q : Issued(q)' = Issued(q)
  BY <1>1 DEF Issued
<1>5. row.channel # "none" =>
        row.upstream \in Sources /\ directory[row.channel][row.upstream].prefix = row.prefix
  BY <1>1, <1>2 DEF Bindable
<1>6. ASSUME NEW card \in cards PROVE card.prefix = product'[card.product].prefix
  <2>1. card.product \in Products /\ card.prefix = product[card.product].prefix
    BY DEF CatalogInv, Stocked, CardsAsListed
  <2>2. CASE card.product = p
    <3>1. Issued(p) > 0
      BY <2>2, CardsCounted DEF CatalogInv, Stocked
    <3>2. row.prefix = product[p].prefix
      BY <1>1, <3>1 DEF Identity
    <3> QED BY <1>2, <1>3, <2>1, <2>2, <3>2
  <2> QED BY <1>3, <2>1, <2>2
<1>7. CardsAsListed'
  BY <1>1, <1>2, <1>3, <1>4, <1>5, <1>6 DEF CatalogInv, CardsAsListed
<1>8. ASSUME NEW q \in Products, listed[q] # NoProduct
      PROVE  /\ listed[q].revision <= product'[q].revision
             /\ listed[q].revision = product'[q].revision => listed[q] = product'[q]
  <2>1. /\ listed[q].revision <= product[q].revision
        /\ listed[q].revision = product[q].revision => listed[q] = product[q]
        /\ listed[q].revision \in Int /\ product[q].revision \in Int
    BY <1>8 DEF CatalogInv, Stocked, ProductRows
  <2>2. product'[q].revision = product[q].revision + 1 \/ product'[q] = product[q]
    BY <1>2, <1>3
  <2> QED BY <2>1, <2>2
<1>9. Stocked'
  BY <1>1, <1>2, <1>3, <1>5, <1>8 DEF CatalogInv, Stocked
<1> QED BY <1>7, <1>9 DEF CatalogInv

(* What is opened is what is listed now, and what the customer saw.        *)
LEMMA OpenedIsListed ==
  ASSUME CatalogInv, NEW p \in Products, Open(p)
  PROVE  /\ CatalogInv'
         /\ \A card \in cards' \ cards :
              card.product = p /\ card.prefix = product[p].prefix /\ listed[p] = product[p]
<1> DEFINE new == [product |-> p, number |-> Issued(p) + 1,
                   prefix |-> product[p].prefix, revision |-> product[p].revision]
<1>1. /\ UNCHANGED <<channel, directory, product, listed>> /\ cards' = cards \cup {new}
      /\ Issued(p) < product[p].max /\ listed[p] = product[p]
      /\ product[p].prefix \in Prefixes /\ product[p].revision \in Nat
  BY DEF Open, CatalogInv, Stocked
<1>2. IsFiniteSet(cards) /\ IsFiniteSet(cards') /\ Issued(p) \in Nat
  <2>1. IsFiniteSet(cards)
    BY DEF CatalogInv, Stocked
  <2>2. IsFiniteSet(cards \cup {new})
    BY <2>1, FS_AddElement
  <2>3. IsFiniteSet(cards')
    BY <1>1, <2>2, Zenon
  <2> QED BY <2>1, <2>3, CardsCounted
<1>3. new \in [product : Products, number : Nat, prefix : Prefixes, revision : Nat]
  BY <1>1, <1>2
<1>4. ASSUME NEW q \in Products PROVE Issued(q)' <= product[q].max
  <2> DEFINE of == {c \in cards : c.product = q}
  <2>1. IsFiniteSet(of) /\ product[q].max \in Nat
    BY <1>2, FS_Subset DEF CatalogInv, Stocked, ProductRows
  <2>2. CASE q = p
    <3>1. {c \in cards' : c.product = q} = of \cup {new}
      BY <1>1, <2>2
    <3>2. /\ Cardinality(of \cup {new}) \in {Cardinality(of), Cardinality(of) + 1}
          /\ Cardinality(of) \in Nat
      <4>1. \/ Cardinality(of \cup {new}) = Cardinality(of)
            \/ Cardinality(of \cup {new}) = Cardinality(of) + 1
        BY <2>1, FS_AddElement
      <4> QED BY <2>1, <4>1, FS_CardinalityType
    <3>3. Issued(q)' = Cardinality(of \cup {new}) /\ Issued(q) = Cardinality(of)
      BY <3>1, Zenon DEF Issued
    <3>4. Cardinality(of) < product[q].max
      BY <1>1, <2>2, <3>3
    <3> QED BY <2>1, <3>2, <3>3, <3>4
  <2>3. CASE q # p
    <3>1. {c \in cards' : c.product = q} = of
      BY <1>1, <2>3
    <3> QED BY <3>1 DEF Issued, CatalogInv, CardsAsListed
  <2> QED BY <2>2, <2>3
<1>5. Stocked'
  BY <1>1, <1>2, <1>3 DEF CatalogInv, Stocked
<1>6. CardsAsListed'
  BY <1>1, <1>3, <1>4 DEF CatalogInv, CardsAsListed
<1> QED BY <1>1, <1>5, <1>6 DEF CatalogInv

LEMMA CatalogStep ==
  ASSUME CatalogInv, [CatalogNext]_catalogVars
  PROVE  /\ CatalogInv'
         /\ \A card \in cards' \ cards : \E p \in Products :
              card.product = p /\ card.prefix = product[p].prefix /\ listed[p] = product[p]
<1>1. ASSUME NEW p \in Products, Show(p) PROVE CatalogInv' /\ cards' = cards
  <2>1. /\ UNCHANGED <<channel, directory, product, cards>>
        /\ listed' = [listed EXCEPT ![p] = product[p]]
    BY <1>1 DEF Show
  <2>2. \A q : Issued(q)' = Issued(q)
    BY <2>1 DEF Issued
  <2>3. listed' \in [Products -> ProductRows]
        /\ listed'[p] = product[p] /\ \A q \in Products \ {p} : listed'[q] = listed[q]
    BY <2>1 DEF CatalogInv, Stocked
  <2>4. ASSUME NEW q \in Products, listed'[q] # NoProduct
        PROVE  /\ listed'[q].revision <= product[q].revision
               /\ listed'[q].revision = product[q].revision => listed'[q] = product[q]
    <3>1. product[q].revision \in Int
      BY DEF CatalogInv, Stocked, ProductRows
    <3> QED BY <2>3, <2>4, <3>1 DEF CatalogInv, Stocked
  <2>5. Stocked'
    BY <2>1, <2>3, <2>4 DEF CatalogInv, Stocked
  <2> QED BY <2>1, <2>2, <2>5 DEF CatalogInv, CardsAsListed
<1>2. CASE UNCHANGED catalogVars
  BY <1>2 DEF catalogVars, CatalogInv, Stocked, CardsAsListed, Issued
<1>3. ASSUME NEW c \in Channels,
             \/ \E status \in {"active", "paused"} : SaveChannel(c, status)
             \/ \E items \in Items : ImportChannelProducts(c, items)
      PROVE  CatalogInv' /\ cards' = cards
  BY <1>3, ChannelKeepsCatalog DEF SaveChannel, ImportChannelProducts, Imported
<1>4. ASSUME NEW p \in Products, NEW row \in Rows, SaveBin(p, row) PROVE CatalogInv' /\ cards' = cards
  BY <1>4, SaveKeepsCatalog DEF SaveBin, Saved
<1>5. ASSUME NEW p \in Products, Open(p)
      PROVE  /\ CatalogInv'
             /\ \A card \in cards' \ cards :
                  card.product = p /\ card.prefix = product[p].prefix /\ listed[p] = product[p]
  BY <1>5, OpenedIsListed
<1>6. CASE CatalogNext
  <2>1. CASE \E p \in Products : Open(p)
    BY <1>5, <2>1
  <2>2. CASE ~ \E p \in Products : Open(p)
    <3>1. CatalogInv' /\ cards' = cards
      BY <1>1, <1>3, <1>4, <1>6, <2>2 DEF CatalogNext
    <3> QED BY <3>1
  <2> QED BY <2>1, <2>2
<1>7. CASE UNCHANGED catalogVars
  <2>1. cards' = cards
    BY <1>7 DEF catalogVars
  <2> QED BY <1>2, <1>7, <2>1
<1> QED BY <1>6, <1>7

(* Three tables agree, whoever saved or imported what in between: an open  *)
(* card has its product's prefix, the channel lists the product with it,   *)
(* and no product has more cards than it may have (saveBin, bindProduct,   *)
(* importChannelProducts, validateOpening).                                *)
THEOREM CardsAlwaysAsListed == CatalogSpec => []CardsAsListed
<1>1. CatalogInv /\ [CatalogNext]_catalogVars => CatalogInv'
  BY CatalogStep
<1>2. CatalogInv => CardsAsListed
  BY DEF CatalogInv
<1> QED BY CatalogStarts, <1>1, <1>2, PTL DEF CatalogSpec

(* A card that is opened is the product the customer last saw, however old *)
(* the list is (validateOpening).                                          *)
THEOREM AlwaysOpenedAsShown == CatalogSpec => OpenedAsShown
<1>1. CatalogInv /\ [CatalogNext]_catalogVars => CatalogInv'
  BY CatalogStep
<1>2. CatalogInv /\ [CatalogNext]_catalogVars =>
        [\A card \in cards' \ cards :
           /\ card.prefix = listed[card.product].prefix
           /\ Identity(product[card.product]) = Identity(listed[card.product])]_catalogVars
  BY CatalogStep
<1> QED BY CatalogStarts, <1>1, <1>2, PTL DEF CatalogSpec, OpenedAsShown

(* The types of the catalogue. *)
THEOREM CatalogTyped == CatalogSpec => []CatalogTypes
<1>1. CatalogInv /\ [CatalogNext]_catalogVars => CatalogInv'
  BY CatalogStep
<1>2. CatalogInv => CatalogTypes
  BY DEF CatalogInv, Stocked, CatalogTypes, ProductRows
<1> QED BY CatalogStarts, <1>1, <1>2, PTL DEF CatalogSpec

-----------------------------------------------------------------------------
(* The cross-currency projection.                                          *)

FxRows ==
  [status: {"pending", "posted"}, amount: Int, date: FxDates, requested: Nat, applied: Nat,
   sync: {"current", "refresh_required", "resync_required"}]

(* Answers are to reads that were begun.                                   *)
RecordFits(r) ==
  /\ r \in Registered =>
       /\ fx[r] \in FxRows /\ Shown(r) \in FxSays[r]
       /\ fx[r].requested <= FxReads[r] /\ fx[r].applied <= fx[r].requested
  /\ \A n \in 1..FxReads[r] :
       observed[r][n] # Unseen => r \in Registered /\ n <= fx[r].requested

(* Relations are between records there are; the report is out of date or   *)
(* what rebuilding would give.                                             *)
LinksFit == \A l \in relations : {l.child, l.parent} \subseteq Registered
ReportFits ==
  /\ daily \in [Buckets -> [net: Int, issues: Nat]]
  /\ ~dirty => daily = Rebuilt
FxFits ==
  /\ IsFiniteSet(Registered) /\ DOMAIN fx = FxIds /\ observed = [r \in FxIds |-> observed[r]]
  /\ relations \subseteq Relations
  /\ heard \subseteq DOMAIN FxEvents /\ dirty \in BOOLEAN
  /\ \A r \in FxIds :
       /\ RecordFits(r) /\ DOMAIN observed[r] = 1..FxReads[r]
       /\ \A n \in 1..FxReads[r] : observed[r][n] \in FxSays[r] \cup {Unseen}
  /\ LinksFit /\ CurrentIsNewest /\ ReportFits

LEMMA FxStart == FxInit => FxFits
<1> SUFFICES ASSUME FxInit PROVE FxFits
  OBVIOUS
<1>1. /\ DOMAIN fx = FxIds /\ \A r \in FxIds : fx[r] = Unregistered
      /\ DOMAIN observed = FxIds /\ \A r \in FxIds : observed[r] = [n \in 1..FxReads[r] |-> Unseen]
      /\ relations = {}
      /\ heard = {} /\ dirty = FALSE
      /\ daily = [b \in Buckets |-> [net |-> 0, issues |-> 0]]
      /\ observed = [r \in FxIds |-> observed[r]]
  BY DEF FxInit
<1>2. Registered = {}
  BY <1>1 DEF Registered
<1>3. IsFiniteSet(Registered)
  BY <1>2, FS_EmptySet, Zenon
<1>4. \A r \in FxIds : /\ RecordFits(r) /\ DOMAIN observed[r] = 1..FxReads[r]
                       /\ \A n \in 1..FxReads[r] : observed[r][n] \in FxSays[r] \cup {Unseen}
  BY <1>1, <1>2 DEF RecordFits
<1>5. LinksFit /\ CurrentIsNewest
  BY <1>1, <1>2 DEF LinksFit, CurrentIsNewest
<1>6. ReportFits
  <2>1. Sum({}) = 0
    BY SumEmpty DEF Sum, SumFunction
  <2>2. Cardinality({}) = 0
    BY FS_EmptySet
  <2>3. \A b \in Buckets : Rebuilt[b] = [net |-> 0, issues |-> 0]
    <3> TAKE b \in Buckets
    <3> PICK counted : counted = {r \in Registered : DayOf(r, b[1]) = b[2]}
      OBVIOUS
    <3>1. counted = {} /\ PostedOf(counted) = {} /\ {r \in counted : fx[r].sync # "current"} = {}
      BY <1>2 DEF PostedOf
    <3>2. Rebuilt[b] = [net |-> -Sum(PostedOf(counted)), issues |-> Cardinality({r \in counted : fx[r].sync # "current"})]
      BY DEF Rebuilt
    <3>3. Sum(PostedOf(counted)) = 0 /\ Cardinality({r \in counted : fx[r].sync # "current"}) = 0
      BY <2>1, <2>2, <3>1, Zenon
    <3>4. \A n \in Int : n + n = 0 => -n = 0
      OBVIOUS
    <3>5. Sum(PostedOf(counted)) \in Int /\ Sum(PostedOf(counted)) + Sum(PostedOf(counted)) = 0
      BY <3>3
    <3>6. -Sum(PostedOf(counted)) = 0
      BY <3>4, <3>5, Zenon
    <3> QED BY <3>2, <3>3, <3>6, Zenon
  <2>4. daily = Rebuilt
    BY <1>1, <2>3 DEF Rebuilt
  <2>5. daily \in [Buckets -> [net: Int, issues: Nat]]
    BY <1>1
  <2> QED BY <2>4, <2>5 DEF ReportFits
<1> QED BY <1>1, <1>3, <1>4, <1>5, <1>6 DEF FxFits

(* One record is written, and its answers perhaps.                         *)
LEMMA WrittenFits ==
  ASSUME FxFits, NEW r \in FxIds, NEW row \in FxRows, Written(r, row), relations' = relations, daily' = daily,
         heard' \subseteq DOMAIN FxEvents,
         NEW seen, observed' = [observed EXCEPT ![r] = seen], DOMAIN seen = 1..FxReads[r],
         \A n \in 1..FxReads[r] : /\ seen[n] \in FxSays[r] \cup {Unseen}
                                  /\ seen[n] # Unseen => n <= row.requested,
         [status |-> row.status, amount |-> row.amount, date |-> row.date] \in FxSays[r],
         row.requested <= FxReads[r], row.applied <= row.requested,
         row.sync = "current" => \A n \in 1..FxReads[r] : seen[n] # Unseen => n <= row.applied,
         row.applied # 0 => [status |-> row.status, amount |-> row.amount, date |-> row.date] = seen[row.applied]
  PROVE  FxFits'
<1>1. /\ DOMAIN fx' = FxIds /\ fx'[r] = row /\ dirty' = TRUE
      /\ observed' = [s \in FxIds |-> observed'[s]] /\ observed'[r] = seen
      /\ \A s \in FxIds \ {r} : fx'[s] = fx[s] /\ observed'[s] = observed[s]
  BY DEF Written, FxFits
<1>2. row # Unregistered /\ Shown(r)' = [status |-> row.status, amount |-> row.amount, date |-> row.date]
  BY <1>1 DEF FxRows, Unregistered, Shown
<1>3. Registered' = Registered \cup {r}
  BY <1>1, <1>2 DEF Registered
<1>4. IsFiniteSet(Registered')
  <2>1. IsFiniteSet(Registered \cup {r})
    BY FS_AddElement DEF FxFits
  <2> QED BY <1>3, <2>1, Zenon
<1>5. ASSUME NEW s \in FxIds
      PROVE  /\ RecordFits(s)' /\ DOMAIN observed'[s] = 1..FxReads[s]
             /\ \A n \in 1..FxReads[s] : observed'[s][n] \in FxSays[s] \cup {Unseen}
  <2>1. CASE s = r
    BY <1>1, <1>2, <1>3, <2>1 DEF RecordFits
  <2>2. CASE s # r
    <3>1. /\ fx'[s] = fx[s] /\ observed'[s] = observed[s] /\ (s \in Registered' <=> s \in Registered)
          /\ Shown(s)' = Shown(s)
      BY <1>1, <1>3, <2>2 DEF Shown
    <3> QED BY <3>1 DEF FxFits, RecordFits
  <2> QED BY <2>1, <2>2
<1>6. LinksFit'
  BY <1>3 DEF FxFits, LinksFit
<1>7. CurrentIsNewest'
  <2> SUFFICES ASSUME NEW s \in Registered'
               PROVE  /\ fx'[s].sync = "current" =>
                           \A n \in 1..FxReads[s] : observed'[s][n] # Unseen => n <= fx'[s].applied
                      /\ fx'[s].applied # 0 => Shown(s)' = observed'[s][fx'[s].applied]
    BY DEF CurrentIsNewest
  <2>1. CASE s = r
    BY <1>1, <1>2, <2>1
  <2>2. CASE s # r
    <3>1. fx'[s] = fx[s] /\ observed'[s] = observed[s] /\ s \in Registered /\ Shown(s)' = Shown(s)
      BY <1>1, <1>3, <2>2 DEF Shown, Registered
    <3> QED BY <3>1 DEF FxFits, CurrentIsNewest
  <2> QED BY <2>1, <2>2
<1>8. ReportFits'
  BY <1>1 DEF FxFits, ReportFits
<1> QED BY <1>1, <1>4, <1>5, <1>6, <1>7, <1>8 DEF FxFits

(* What is known of a record that is registered.                           *)
LEMMA RegisteredIs ==
  ASSUME FxFits, NEW r \in Registered
  PROVE  /\ r \in FxIds /\ fx[r] \in FxRows /\ Shown(r) \in FxSays[r] /\ RecordFits(r)
         /\ DOMAIN observed[r] = 1..FxReads[r] /\ FxReads[r] \in Nat
         /\ \A n \in 1..FxReads[r] : /\ observed[r][n] \in FxSays[r] \cup {Unseen}
                                     /\ observed[r][n] # Unseen => n <= fx[r].requested
         /\ fx[r].requested <= FxReads[r] /\ fx[r].applied <= fx[r].requested
         /\ fx[r].requested \in Nat /\ fx[r].applied \in Nat
         /\ observed' = observed => observed' = [observed EXCEPT ![r] = observed[r]]
         /\ fx[r].sync = "current" => \A n \in 1..FxReads[r] : observed[r][n] # Unseen => n <= fx[r].applied
         /\ fx[r].applied # 0 => Shown(r) = observed[r][fx[r].applied]
         /\ Unseen \notin FxSays[r]
<1>1. r \in FxIds
  BY DEF Registered
<1>2. RecordFits(r) /\ DOMAIN observed[r] = 1..FxReads[r] /\ observed = [s \in FxIds |-> observed[s]]
      /\ \A n \in 1..FxReads[r] : observed[r][n] \in FxSays[r] \cup {Unseen}
  BY <1>1 DEF FxFits
<1>3. fx[r] \in FxRows /\ fx[r].requested \in Nat /\ fx[r].applied \in Nat
  BY <1>2 DEF RecordFits, FxRows
<1>4. FxReads[r] \in Nat /\ Unseen \notin FxSays[r]
  BY <1>1, FxAssumption DEF Unseen
<1>5. /\ fx[r].sync = "current" => \A n \in 1..FxReads[r] : observed[r][n] # Unseen => n <= fx[r].applied
      /\ fx[r].applied # 0 => Shown(r) = observed[r][fx[r].applied]
  BY DEF FxFits, CurrentIsNewest
<1>6. observed' = observed => observed' = [observed EXCEPT ![r] = observed[r]]
  BY <1>1, <1>2
<1> QED BY <1>1, <1>2, <1>3, <1>4, <1>5, <1>6 DEF RecordFits

LEMMA RegisterFits ==
  ASSUME FxFits, NEW r \in FxIds, NEW v \in FxSays[r], Register(r, v) PROVE FxFits'
<1> DEFINE row == RowOf(v, 0, 0, "current")
<1>1. v \in [status: {"pending", "posted"}, amount: Int, date: FxDates] /\ FxReads[r] \in Nat
  BY FxAssumption
<1>2. /\ row \in FxRows /\ row.requested = 0 /\ row.applied = 0
      /\ [status |-> row.status, amount |-> row.amount, date |-> row.date] = v
  BY <1>1 DEF RowOf, FxRows
<1>3. /\ Written(r, row) /\ r \notin Registered /\ relations' = relations /\ daily' = daily /\ heard' = heard /\ observed' = observed
  BY DEF Register
<1> HIDE DEF row
<1>4. /\ DOMAIN observed[r] = 1..FxReads[r] /\ observed' = [observed EXCEPT ![r] = observed[r]]
      /\ \A n \in 1..FxReads[r] : observed[r][n] = Unseen
      /\ heard' \subseteq DOMAIN FxEvents
  BY <1>3 DEF FxFits, RecordFits
<1>5. /\ [status |-> row.status, amount |-> row.amount, date |-> row.date] \in FxSays[r]
      /\ row.requested <= FxReads[r] /\ row.applied <= row.requested
      /\ \A n \in 1..FxReads[r] : /\ observed[r][n] \in FxSays[r] \cup {Unseen}
                                 /\ observed[r][n] # Unseen => n <= row.requested /\ n <= row.applied
  BY <1>1, <1>2, <1>4
<1> QED BY <1>2, <1>3, <1>4, <1>5, WrittenFits

LEMMA BeginReadFits == ASSUME FxFits, NEW r \in FxIds, BeginRead(r) PROVE FxFits'
<1> PICK old : old = fx[r]
  OBVIOUS
<1> DEFINE row == [old EXCEPT !.requested = old.requested + 1]
<1>1. /\ Written(r, row) /\ r \in Registered /\ relations' = relations /\ daily' = daily /\ heard' = heard
      /\ observed' = observed /\ old.requested < FxReads[r]
  BY DEF BeginRead
<1>2. /\ old \in FxRows /\ old.requested \in Nat /\ FxReads[r] \in Nat
      /\ Shown(r) = [status |-> old.status, amount |-> old.amount, date |-> old.date]
  BY <1>1, RegisteredIs DEF Shown
<1>3. /\ row \in FxRows /\ row.requested = old.requested + 1 /\ row.applied = old.applied /\ row.sync = old.sync
      /\ row.status = old.status /\ row.amount = old.amount /\ row.date = old.date
  BY <1>2 DEF FxRows
<1> HIDE DEF row
<1>4. /\ Shown(r) = [status |-> row.status, amount |-> row.amount, date |-> row.date]
      /\ row.requested <= FxReads[r] /\ row.applied <= row.requested /\ heard' \subseteq DOMAIN FxEvents
  <2>1. old.applied \in Nat /\ old.applied <= old.requested
    BY <1>1, RegisteredIs
  <2>2. heard' \subseteq DOMAIN FxEvents
    BY <1>1 DEF FxFits
  <2> QED BY <1>1, <1>2, <1>3, <2>1, <2>2
<1>5. \A n \in 1..FxReads[r] : /\ observed[r][n] \in FxSays[r] \cup {Unseen}
                               /\ observed[r][n] # Unseen => n <= row.requested
  BY <1>1, <1>2, <1>3, RegisteredIs
<1>6. /\ DOMAIN observed[r] = 1..FxReads[r] /\ observed' = [observed EXCEPT ![r] = observed[r]]
      /\ [status |-> row.status, amount |-> row.amount, date |-> row.date] \in FxSays[r]
      /\ row.sync = "current" => \A n \in 1..FxReads[r] : observed[r][n] # Unseen => n <= row.applied
      /\ row.applied # 0 => [status |-> row.status, amount |-> row.amount, date |-> row.date] = observed[r][row.applied]
  BY <1>1, <1>2, <1>3, <1>4, RegisteredIs
<1> QED BY <1>1, <1>3, <1>4, <1>5, <1>6, WrittenFits

(* A late answer is kept beside the row, an answer in turn takes it.       *)
LEMMA ApplyReadFits ==
  ASSUME FxFits, NEW r \in FxIds, NEW n \in 1..FxReads[r], NEW v \in FxSays[r], ApplyRead(r, n, v)
  PROVE  FxFits'
<1> PICK old : old = fx[r]
  OBVIOUS
<1> DEFINE seen == [observed[r] EXCEPT ![n] = v]
<1>1. /\ r \in Registered /\ n \in 1..old.requested /\ observed[r][n] = Unseen
      /\ observed' = [observed EXCEPT ![r] = seen] /\ relations' = relations /\ daily' = daily /\ heard' = heard
  BY DEF ApplyRead
<1>2. /\ old \in FxRows /\ old.requested \in Nat /\ old.applied \in Nat /\ FxReads[r] \in Nat
      /\ old.requested <= FxReads[r] /\ old.applied <= old.requested
      /\ Shown(r) = [status |-> old.status, amount |-> old.amount, date |-> old.date]
      /\ Shown(r) \in FxSays[r] /\ Unseen \notin FxSays[r]
      /\ old.applied # 0 => Shown(r) = observed[r][old.applied]
      /\ DOMAIN observed[r] = 1..FxReads[r]
      /\ \A m \in 1..FxReads[r] : /\ observed[r][m] \in FxSays[r] \cup {Unseen}
                                  /\ observed[r][m] # Unseen => m <= old.requested
      /\ heard' \subseteq DOMAIN FxEvents
  BY <1>1, RegisteredIs DEF Shown, FxFits
<1>3. /\ DOMAIN seen = 1..FxReads[r] /\ seen[n] = v
      /\ \A m \in 1..FxReads[r] : m # n => seen[m] = observed[r][m]
  BY <1>2
<1>4. v \in [status: {"pending", "posted"}, amount: Int, date: FxDates]
  BY FxAssumption
<1> HIDE DEF seen
<1>5. \A m \in 1..FxReads[r] : /\ seen[m] \in FxSays[r] \cup {Unseen}
                               /\ seen[m] # Unseen => m <= old.requested
  BY <1>1, <1>2, <1>3
<1>6. CASE Superseded(old, n, v)
  <2> DEFINE row == [old EXCEPT !.sync = "resync_required"]
  <2>1. Written(r, row)
    BY <1>6 DEF ApplyRead
  <2>2. /\ row \in FxRows /\ row.requested = old.requested /\ row.applied = old.applied
        /\ row.sync = "resync_required"
        /\ row.status = old.status /\ row.amount = old.amount /\ row.date = old.date
    BY <1>2 DEF FxRows
  <2> HIDE DEF row
  <2>3. row.applied # 0 => Shown(r) = seen[row.applied]
    <3> SUFFICES ASSUME row.applied # 0 PROVE Shown(r) = seen[row.applied]
      OBVIOUS
    <3>1. old.applied \in 1..FxReads[r] /\ observed[r][old.applied] = Shown(r)
      BY <1>2, <2>2
    <3>2. old.applied # n
      BY <1>1, <1>2, <3>1
    <3> QED BY <1>3, <2>2, <3>1, <3>2
  <2>4. Shown(r) = [status |-> row.status, amount |-> row.amount, date |-> row.date]
    BY <1>2, <2>2
  <2>5. /\ [status |-> row.status, amount |-> row.amount, date |-> row.date] \in FxSays[r]
        /\ row.applied # 0 =>
             [status |-> row.status, amount |-> row.amount, date |-> row.date] = seen[row.applied]
    BY <1>2, <2>3, <2>4
  <2>6. /\ row.requested <= FxReads[r] /\ row.applied <= row.requested
        /\ \A m \in 1..FxReads[r] : /\ seen[m] \in FxSays[r] \cup {Unseen}
                                    /\ seen[m] # Unseen => m <= row.requested
    BY <1>2, <1>5, <2>2
  <2>7. row \in FxRows /\ row.sync # "current"
    BY <2>2
  <2>8. /\ observed' = [observed EXCEPT ![r] = seen] /\ relations' = relations /\ daily' = daily
        /\ heard' \subseteq DOMAIN FxEvents /\ DOMAIN seen = 1..FxReads[r]
    BY <1>1, <1>2, <1>3
  <2> QED BY <2>1, <2>5, <2>6, <2>7, <2>8, WrittenFits
<1>7. CASE ~ Superseded(old, n, v)
  <2> DEFINE row == RowOf(v, old.requested, n, "current")
  <2>1. Written(r, row)
    BY <1>7 DEF ApplyRead
  <2>2. /\ row \in FxRows /\ row.requested = old.requested /\ row.applied = n
        /\ v = [status |-> row.status, amount |-> row.amount, date |-> row.date]
    BY <1>2, <1>4 DEF RowOf, FxRows
  <2>3. n = old.requested
    BY <1>1, <1>2, <1>7 DEF Superseded
  <2> HIDE DEF row
  <2>4. /\ [status |-> row.status, amount |-> row.amount, date |-> row.date] \in FxSays[r]
        /\ [status |-> row.status, amount |-> row.amount, date |-> row.date] = seen[row.applied]
        /\ row.requested <= FxReads[r] /\ row.applied <= row.requested
        /\ \A m \in 1..FxReads[r] : seen[m] # Unseen => m <= row.applied /\ m <= row.requested
    BY <1>2, <1>3, <1>5, <2>2, <2>3
  <2> QED BY <1>1, <1>2, <1>3, <1>5, <2>1, <2>2, <2>4, WrittenFits
<1> QED BY <1>6, <1>7

(* Where the rows, the answers and the relations stay, so does what is     *)
(* said of them.                                                           *)
LEMMA SameRows ==
  ASSUME FxFits, fx' = fx, observed' = observed, relations' = relations,
         heard' \subseteq DOMAIN FxEvents, dirty' \in BOOLEAN, ReportFits'
  PROVE  FxFits'
<1>1. Registered' = Registered /\ \A r : Shown(r)' = Shown(r)
  BY DEF Registered, Shown
<1>2. IsFiniteSet(Registered')
  BY <1>1, Zenon DEF FxFits
<1>3. \A r \in FxIds : /\ RecordFits(r)' /\ DOMAIN observed'[r] = 1..FxReads[r]
                       /\ \A n \in 1..FxReads[r] : observed'[r][n] \in FxSays[r] \cup {Unseen}
  BY <1>1 DEF FxFits, RecordFits
<1>4. CurrentIsNewest'
  BY <1>1 DEF FxFits, CurrentIsNewest
<1>5. LinksFit'
  BY <1>1 DEF FxFits, LinksFit
<1> QED BY <1>2, <1>3, <1>4, <1>5 DEF FxFits

(* The report that would be rebuilt depends on rows and relations.         *)
LEMMA SameRebuilt == ASSUME fx' = fx, relations' = relations PROVE Rebuilt' = Rebuilt
BY DEF Registered, Rebuilt, DayOf, RootDate, PostedAt, ParentOf, Confirmations, PostedOf, Sum

LEMMA NotifiedFits == ASSUME FxFits, NEW e \in DOMAIN FxEvents, Notified(e) PROVE FxFits'
<1> PICK r : r = FxEvents[e]
  OBVIOUS
<1>1. /\ relations' = relations /\ daily' = daily /\ observed' = observed /\ heard' \subseteq DOMAIN FxEvents
  BY DEF Notified, FxFits
<1>2. CASE r \notin Registered
  <2>1. fx' = fx /\ dirty' = dirty
    BY <1>2 DEF Notified
  <2>2. ReportFits'
    BY <1>1, <2>1, SameRebuilt DEF FxFits, ReportFits, Buckets
  <2>3. dirty' \in BOOLEAN
    BY <2>1 DEF FxFits
  <2> QED BY <1>1, <2>1, <2>2, <2>3, SameRows
<1>3. CASE r \in Registered
  <2> PICK old : old = fx[r]
    OBVIOUS
  <2> DEFINE row == [old EXCEPT !.sync = "refresh_required"]
  <2>1. Written(r, row)
    BY <1>3 DEF Notified
  <2>2. /\ old \in FxRows /\ FxReads[r] \in Nat /\ r \in FxIds
        /\ Shown(r) = [status |-> old.status, amount |-> old.amount, date |-> old.date]
        /\ Shown(r) \in FxSays[r]
        /\ old.requested <= FxReads[r] /\ old.applied <= old.requested
        /\ old.applied # 0 => Shown(r) = observed[r][old.applied]
        /\ DOMAIN observed[r] = 1..FxReads[r] /\ observed' = [observed EXCEPT ![r] = observed[r]]
        /\ \A m \in 1..FxReads[r] : /\ observed[r][m] \in FxSays[r] \cup {Unseen}
                                    /\ observed[r][m] # Unseen => m <= old.requested
    BY <1>1, <1>3, RegisteredIs DEF Shown
  <2>3. /\ row \in FxRows /\ row.requested = old.requested /\ row.applied = old.applied
        /\ row.sync = "refresh_required"
        /\ row.status = old.status /\ row.amount = old.amount /\ row.date = old.date
    BY <2>2 DEF FxRows
  <2> HIDE DEF row
  <2>4. /\ [status |-> row.status, amount |-> row.amount, date |-> row.date] \in FxSays[r]
        /\ row.applied # 0 =>
             [status |-> row.status, amount |-> row.amount, date |-> row.date] = observed[r][row.applied]
    BY <2>2, <2>3
  <2>5. /\ row.requested <= FxReads[r] /\ row.applied <= row.requested
        /\ \A m \in 1..FxReads[r] : /\ observed[r][m] \in FxSays[r] \cup {Unseen}
                                    /\ observed[r][m] # Unseen => m <= row.requested
    BY <2>2, <2>3
  <2>6. row \in FxRows /\ row.sync # "current" /\ r \in FxIds
    BY <2>2, <2>3
  <2>7. observed' = [observed EXCEPT ![r] = observed[r]] /\ DOMAIN observed[r] = 1..FxReads[r]
    BY <2>2
  <2> QED BY <1>1, <2>1, <2>4, <2>5, <2>6, <2>7, WrittenFits
<1> QED BY <1>2, <1>3

LEMMA AddRelationFits ==
  ASSUME FxFits, NEW l \in Relations, AddRelation(l)
  PROVE  FxFits'
<1>1. /\ {l.child, l.parent} \subseteq Registered /\ relations' = relations \cup {l}
      /\ dirty' = TRUE /\ UNCHANGED <<fx, observed, heard, daily>>
  BY DEF AddRelation
<1>2. Registered' = Registered /\ \A r : Shown(r)' = Shown(r)
  BY <1>1 DEF Registered, Shown
<1>3. LinksFit' /\ relations' \subseteq Relations
  BY <1>1, <1>2 DEF FxFits, LinksFit
<1>4. IsFiniteSet(Registered')
  BY <1>2, Zenon DEF FxFits
<1>5. CurrentIsNewest' /\ \A r \in FxIds : RecordFits(r)'
  BY <1>1, <1>2 DEF FxFits, CurrentIsNewest, RecordFits
<1>6. ReportFits'
  BY <1>1 DEF FxFits, ReportFits
<1> QED BY <1>1, <1>3, <1>4, <1>5, <1>6 DEF FxFits

(* What rebuilding gives is money and a count.                             *)
LEMMA RebuiltTyped == ASSUME FxFits PROVE Rebuilt \in [Buckets -> [net: Int, issues: Nat]]
<1> SUFFICES ASSUME NEW b \in Buckets PROVE Rebuilt[b] \in [net: Int, issues: Nat]
  BY DEF Rebuilt
<1> PICK counted : counted = {r \in Registered : DayOf(r, b[1]) = b[2]}
  OBVIOUS
<1> PICK posted, open : posted = PostedOf(counted) /\ open = {r \in counted : fx[r].sync # "current"}
  OBVIOUS
<1>1. Rebuilt[b] = [net |-> -Sum(posted), issues |-> Cardinality(open)]
  BY DEF Rebuilt
<1>2. counted \subseteq Registered /\ posted \subseteq counted /\ open \subseteq counted
  BY DEF PostedOf
<1>3. IsFiniteSet(posted) /\ IsFiniteSet(open)
  BY <1>2, FS_Subset DEF FxFits
<1>4. Cardinality(open) \in Nat
  BY <1>3, FS_CardinalityType
<1>5. \A r \in posted : fx[r].amount \in Int
  BY <1>2, RegisteredIs DEF FxRows
<1>6. Sum(posted) \in Int
  <2> PICK f : f = [r \in posted |-> fx[r].amount]
    OBVIOUS
  <2>1. \A r \in posted : f[r] \in Int
    BY <1>5
  <2>2. Sum(posted) = SumFunctionOnSet(f, posted)
    BY DEF Sum, SumFunction
  <2> QED BY <1>3, <2>1, <2>2, SumInt
<1> QED BY <1>1, <1>4, <1>6

LEMMA ReadReportFits == ASSUME FxFits, ReadReport PROVE FxFits'
<1>1. daily' = Rebuilt /\ dirty' = FALSE /\ UNCHANGED <<fx, observed, relations, heard>>
  BY DEF ReadReport
<1>2. Rebuilt' = Rebuilt
  BY <1>1, SameRebuilt
<1>3. Rebuilt \in [Buckets -> [net: Int, issues: Nat]]
  BY RebuiltTyped
<1>4. daily' = Rebuilt' /\ daily' \in [Buckets -> [net: Int, issues: Nat]]
  BY <1>1, <1>2, <1>3
<1>5. ReportFits'
  BY <1>4 DEF ReportFits
<1>6. heard' \subseteq DOMAIN FxEvents
  BY <1>1 DEF FxFits
<1> QED BY <1>1, <1>5, <1>6, SameRows

LEMMA FxStays == ASSUME FxFits, [FxNext]_fxVars PROVE FxFits'
<1>1. CASE UNCHANGED fxVars
  <2>1. UNCHANGED <<fx, observed, relations, heard, dirty, daily>>
    BY <1>1 DEF fxVars
  <2>2. ReportFits'
    BY <2>1, SameRebuilt DEF FxFits, ReportFits, Buckets
  <2>3. heard' \subseteq DOMAIN FxEvents /\ dirty' \in BOOLEAN
    BY <2>1 DEF FxFits
  <2> QED BY <2>1, <2>2, <2>3, SameRows
<1> QED BY <1>1, RegisterFits, BeginReadFits, ApplyReadFits, NotifiedFits, AddRelationFits, ReadReportFits
        DEF FxNext

LEMMA AlwaysFxFits == FxSpec => []FxFits
BY FxStart, FxStays, PTL DEF FxSpec

(* The record an amount is shown with, and its day.                        *)
LEMMA RootIs ==
  ASSUME FxFits, NEW r \in Registered
  PROVE  /\ RootOf(r) \in Registered /\ RootOf(RootOf(r)) = RootOf(r)
         /\ RootDate(r) = RootDate(RootOf(r))
         /\ \A root : RootOf(root) = root =>
              (RootOf(r) = root <=> r \in {root} \cup (Children(root) \ Strays(root)))
<1>1. r \in FxIds /\ Buys \cap Followups = {} /\ FxIds = Buys \cup Followups
  BY FxAssumption DEF Registered, FxIds
<1>2. CASE r \in Followups /\ Cardinality(Confirmations(r)) = 1
  <2>1. Confirmations(r) # {}
    BY <1>2, FS_EmptySet
  <2> PICK l : l = CHOOSE o \in Confirmations(r) : TRUE
    OBVIOUS
  <2>2. l \in Confirmations(r)
    BY <2>1
  <2>3. l.parent \in Buys /\ l.parent \in Registered
    BY <2>2 DEF Confirmations, FxFits, LinksFit, Relations
  <2>4. RootOf(r) = l.parent /\ RootDate(r) = PostedAt(l.parent)
    BY <1>1, <1>2 DEF RootOf, RootDate, ParentOf
  <2>5. RootOf(l.parent) = l.parent /\ RootDate(l.parent) = PostedAt(l.parent)
    BY <1>1, <2>3 DEF RootOf, RootDate
  <2>6. r \in Children(l.parent)
    BY <1>1, <2>2 DEF Children
  <2> QED BY <2>3, <2>4, <2>5, <2>6 DEF Strays
<1>3. CASE ~(r \in Followups /\ Cardinality(Confirmations(r)) = 1)
  <2>1. RootOf(r) = r
    BY <1>3 DEF RootOf
  <2> QED BY <2>1 DEF Strays
<1> QED BY <1>2, <1>3

(* The sum of some records' amounts, whatever table they are taken from.   *)
LEMMA SumOfAmounts ==
  ASSUME NEW f, NEW S, IsFiniteSet(S), \A x \in S : f[x] = fx[x].amount
  PROVE  Sum(S) = SumFunctionOnSet(f, S)
<1>1. PICK g : g = [r \in S |-> fx[r].amount]
  OBVIOUS
<1>2. \A x \in S : g[x] = f[x]
  BY <1>1
<1>3. SumFunctionOnSet(g, S) = SumFunctionOnSet(f, S)
  BY <1>2, SumSame
<1> QED BY <1>1, <1>3 DEF Sum, SumFunction

(* The amounts counted on a day, by order, are those of the details.       *)
LEMMA DayAddsUp ==
  ASSUME FxFits, NEW d
  PROVE  SumFunction([r \in {s \in {q \in Registered : RootOf(q) = q} : RootDate(s) = d} |-> OwnNet(r)])
           = -Sum(PostedOf({r \in Registered : RootDate(r) = d}))
<1>1. PICK S, T : /\ S = PostedOf({r \in Registered : RootDate(r) = d})
                  /\ T = {s \in {q \in Registered : RootOf(q) = q} : RootDate(s) = d}
  OBVIOUS
<1>2. PICK f, h : /\ f = [r \in Registered |-> fx[r].amount]
                  /\ h = [r \in Registered |-> RootOf(r)]
  OBVIOUS
<1>3. IsFiniteSet(S) /\ IsFiniteSet(T) /\ S \subseteq Registered
  BY <1>1, FS_Subset DEF PostedOf, FxFits
<1>4. \A r \in Registered : f[r] \in Int /\ f[r] = fx[r].amount /\ h[r] = RootOf(r)
  BY <1>2, RegisteredIs DEF FxRows
<1>5. \A x \in S : h[x] \in T /\ f[x] \in Int
  <2> SUFFICES ASSUME NEW x \in S PROVE RootOf(x) \in T
    BY <1>3, <1>4
  <2>1. RootDate(x) = d /\ x \in Registered
    BY <1>1 DEF PostedOf
  <2> QED BY <1>1, <2>1, RootIs
<1> DEFINE part(t) == SumFunctionOnSet(f, {x \in S : h[x] = t})
<1>6. SumFunctionOnSet([t \in T |-> part(t)], T) = SumFunctionOnSet(f, S)
  BY <1>3, <1>5, SumOfParts
<1>7. ASSUME NEW t \in T PROVE part(t) \in Int /\ OwnNet(t) = -part(t)
  <2>1. PICK P : P = {x \in S : h[x] = t}
    OBVIOUS
  <2>2. PICK A, B : A = PostedOf({t} \cup Children(t)) /\ B = PostedOf(Strays(t))
    OBVIOUS
  <2>3. t \in Registered /\ RootOf(t) = t /\ RootDate(t) = d
    BY <1>1
  <2>4. \A x \in {t} \cup Children(t) : x \in Registered
    BY <2>3 DEF Children, Confirmations, FxFits, LinksFit
  <2>5. P = A \ B
    <3>1. \A x \in Registered :
            /\ RootOf(x) = t <=> x \in {t} \cup (Children(t) \ Strays(t))
            /\ RootDate(x) = RootDate(RootOf(x))
      BY <2>3, RootIs
    <3>2. t \notin Strays(t)
      BY <2>3 DEF Strays
    <3>3. \A x : x \in P <=> x \in A \ B
      BY <1>1, <1>4, <2>1, <2>2, <2>3, <2>4, <3>1, <3>2 DEF PostedOf
    <3> QED BY <3>3
  <2>6. A \subseteq Registered /\ IsFiniteSet(A) /\ B \subseteq A /\ IsFiniteSet(B)
    <3>1. A \subseteq Registered /\ B \subseteq A
      BY <2>2, <2>4 DEF PostedOf, Strays
    <3> QED BY <3>1, FS_Subset DEF FxFits
  <2>7. /\ SumFunctionOnSet(f, A) = SumFunctionOnSet(f, P) + SumFunctionOnSet(f, B)
        /\ SumFunctionOnSet(f, P) \in Int /\ SumFunctionOnSet(f, B) \in Int
    <3>1. \A x \in A : f[x] \in Int
      BY <1>4, <2>6
    <3>2. IsFiniteSet(P) /\ P \subseteq A
      BY <2>5, <2>6, FS_Subset
    <3>3. SumFunctionOnSet(f, A) = SumFunctionOnSet(f, A \ B) + SumFunctionOnSet(f, B)
      BY <2>6, <3>1, SumSplit
    <3> QED BY <2>5, <2>6, <3>1, <3>2, <3>3, SumInt
  <2>8. Sum(A) = SumFunctionOnSet(f, A) /\ Sum(B) = SumFunctionOnSet(f, B)
    BY <1>4, <2>6, SumOfAmounts
  <2>9. OwnNet(t) = -Sum(A) + Sum(B)
    BY <2>2, Zenon DEF OwnNet, NetOf
  <2>10. part(t) = SumFunctionOnSet(f, P)
    BY <2>1, Zenon
  <2> HIDE DEF part
  <2> QED BY <2>7, <2>8, <2>9, <2>10
<1>8. PICK parts, nets : parts = [t \in T |-> part(t)] /\ nets = [t \in T |-> OwnNet(t)]
  OBVIOUS
<1>9. \A t \in T : parts[t] \in Int /\ nets[t] = -parts[t]
  <2> HIDE DEF part
  <2> QED BY <1>7, <1>8
<1>10. SumFunctionOnSet(nets, T) = -SumFunctionOnSet(parts, T)
  BY <1>3, <1>9, SumNegates
<1>11. SumFunctionOnSet(parts, T) = SumFunctionOnSet(f, S)
  BY <1>6, <1>8, Zenon
<1>12. Sum(S) = SumFunctionOnSet(f, S)
  BY <1>3, <1>4, SumOfAmounts
<1>13. SumFunction(nets) = SumFunctionOnSet(nets, T)
  BY <1>8 DEF SumFunction
<1>14. SumFunction(nets) = -Sum(S)
  BY <1>10, <1>11, <1>12, <1>13
<1> QED BY <1>1, <1>8, <1>14, Zenon

(* The days together count every record that is not current.               *)
LEMMA IssuesAddUp ==
  ASSUME FxFits, daily = Rebuilt
  PROVE  SumFunction([d \in FxDates \cup {"unassigned"} |-> daily[<<"posted", d>>].issues])
           = Cardinality({r \in Registered : fx[r].sync # "current"})
<1> PICK S : S = {r \in Registered : fx[r].sync # "current"}
  OBVIOUS
<1> PICK T : T = FxDates \cup {"unassigned"}
  OBVIOUS
<1> PICK one : one = [r \in Registered |-> 1]
  OBVIOUS
<1> PICK h : h = [r \in Registered |-> fx[r].date]
  OBVIOUS
<1>1. IsFiniteSet(S)
  BY FS_Subset DEF FxFits
<1>2. IsFiniteSet(T)
  <2>1. IsFiniteSet(FxDates \cup {"unassigned"})
    BY FxAssumption, FS_AddElement
  <2> QED BY <2>1, Zenon
<1>3. \A x \in S : h[x] \in T /\ one[x] \in Int /\ one[x] = 1
  BY RegisteredIs DEF FxRows
<1> DEFINE part(d) == SumFunctionOnSet(one, {x \in S : h[x] = d})
<1>4. SumFunctionOnSet([d \in T |-> part(d)], T) = SumFunctionOnSet(one, S)
  BY <1>1, <1>2, <1>3, SumOfParts
<1>5. SumFunctionOnSet(one, S) = Cardinality(S)
  BY <1>1, <1>3, SumCounts
<1>6. ASSUME NEW d \in T PROVE part(d) = daily[<<"posted", d>>].issues
  <2> PICK P : P = {x \in S : h[x] = d}
    OBVIOUS
  <2>1. P \subseteq S /\ IsFiniteSet(P) /\ \A x \in P : one[x] = 1
    BY <1>1, <1>3, FS_Subset
  <2>2. SumFunctionOnSet(one, P) = Cardinality(P)
    BY <2>1, SumCounts
  <2> PICK C : C = {r \in {s \in Registered : DayOf(s, "posted") = d} : fx[r].sync # "current"}
    OBVIOUS
  <2>3. P = C
    BY DEF DayOf
  <2>4. <<"posted", d>> \in Buckets
    BY DEF Buckets, Bases
  <2>5. daily[<<"posted", d>>].issues = Cardinality(C)
    BY <2>4 DEF Rebuilt
  <2>6. part(d) = SumFunctionOnSet(one, P)
    BY Zenon
  <2>7. Cardinality(P) = Cardinality(C)
    BY <2>3, Zenon
  <2> QED BY <2>2, <2>5, <2>6, <2>7
<1> PICK parts, counts : parts = [d \in T |-> part(d)] /\ counts = [d \in T |-> daily[<<"posted", d>>].issues]
  OBVIOUS
<1>7. parts = counts
  <2> HIDE DEF part
  <2> QED BY <1>6
<1>8. SumFunction(counts) = SumFunctionOnSet(parts, T)
  BY <1>7 DEF SumFunction
<1>9. SumFunctionOnSet(parts, T) = Cardinality(S)
  BY <1>4, <1>5, Zenon
<1> QED BY <1>8, <1>9, Zenon

LEMMA FxAgrees == FxFits => ReportsAreCurrent
<1> SUFFICES ASSUME FxFits PROVE ReportsAreCurrent
  OBVIOUS
<1>1. CurrentIsNewest
  BY DEF FxFits
<1>2. ASSUME ~dirty, NEW b \in Buckets, b[1] = "order"
      PROVE  daily[b].net = SumFunction([r \in {s \in {q \in Registered : RootOf(q) = q} : RootDate(s) = b[2]} |-> OwnNet(r)])
  <2>1. \A r : DayOf(r, b[1]) = RootDate(r)
    BY <1>2 DEF DayOf
  <2>2. PICK counted : counted = {r \in Registered : DayOf(r, b[1]) = b[2]}
    OBVIOUS
  <2>3. counted = {r \in Registered : RootDate(r) = b[2]}
    BY <2>1, <2>2
  <2>4. daily = Rebuilt
    BY <1>2 DEF FxFits, ReportFits
  <2>5. daily[b].net = -Sum(PostedOf({r \in Registered : DayOf(r, b[1]) = b[2]}))
    BY <1>2, <2>4 DEF Rebuilt
  <2>6. daily[b].net = -Sum(PostedOf({r \in Registered : RootDate(r) = b[2]}))
    BY <2>2, <2>3, <2>5, Zenon
  <2> QED BY <2>6, DayAddsUp, Zenon
<1>3. ASSUME ~dirty
      PROVE  SumFunction([d \in FxDates \cup {"unassigned"} |-> daily[<<"posted", d>>].issues])
               = Cardinality({r \in Registered : fx[r].sync # "current"})
  BY <1>3, IssuesAddUp DEF FxFits, ReportFits
<1> QED BY <1>1, <1>2, <1>3 DEF ReportsAreCurrent, ReportAgrees

(* Whatever answers come in whatever order, a record that says it is       *)
(* current shows the answer to the newest read, and a report that is clean *)
(* adds up to what the detail pages show (fx/store.mjs:101,                *)
(* fx/query.mjs:199).                                                      *)
THEOREM ReportsAlwaysCurrent == FxSpec => []ReportsAreCurrent
BY AlwaysFxFits, FxAgrees, PTL

(* The types of the projection.                                            *)
THEOREM FxTyped == FxSpec => []FxTypes
<1>1. FxFits => FxTypes
  <2> SUFFICES ASSUME FxFits PROVE FxTypes
    OBVIOUS
  <2>1. \A r \in Registered :
          /\ Shown(r) \in FxSays[r]
          /\ fx[r].requested \in 0..FxReads[r] /\ fx[r].applied \in 0..fx[r].requested
          /\ fx[r].sync \in {"current", "refresh_required", "resync_required"}
    BY RegisteredIs DEF FxRows
  <2> QED BY <2>1 DEF FxFits, FxTypes, ReportFits
<1> QED BY <1>1, AlwaysFxFits, PTL
=============================================================================
