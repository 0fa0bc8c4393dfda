----------------------------- MODULE Management -----------------------------
(***************************************************************************)
(* Users, groups, password resets and sessions of the local workspace      *)
(* (management.mjs).  Every command is one transaction.  A command names   *)
(* the revision of the record it was made for and is refused when the      *)
(* record has changed since; a refused command changes nothing and is left *)
(* out.                                                                    *)
(***************************************************************************)
EXTENDS Integers, FiniteSets

CONSTANTS
  Groups, Users,  \* records that may be created
  MaxResets,      \* reset links issued for a user
  MaxCredential   \* passwords set by a user

ASSUME ManagementAssumption == MaxResets \in Nat /\ MaxCredential \in Nat

VARIABLES
  group,    \* group -> status of its row of mg_groups
  user,     \* user -> its row of mg_users; credential 0: no password is set
  resets,   \* mg_resets, numbered for each user in the order they were made
  sessions  \* mg_sessions of members, with the credential of the login

managementVars == <<group, user, resets, sessions>>

UserStatus == {"absent", "pending", "active", "disabled", "rejected"}
GroupStatus == {"absent", "active", "disabled"}

ManagementInit ==
  /\ group = [g \in Groups |-> "absent"]
  /\ user = [u \in Users |-> [status |-> "absent", group |-> "none", credential |-> 0]]
  /\ resets = {} /\ sessions = {}

GroupActive(u) == user[u].group \in Groups /\ group[user[u].group] = "active"
MayEnter(u) == user[u].status = "active" /\ GroupActive(u)
Without(us) == sessions' = {s \in sessions : s.subject \notin us}

-----------------------------------------------------------------------------
(* managementWrite.                                                        *)
CreateGroup(g) ==
  /\ group[g] = "absent" /\ group' = [group EXCEPT ![g] = "active"]
  /\ UNCHANGED <<user, resets, sessions>>

CreateUser(u, g) ==
  /\ user[u].status = "absent" /\ group[g] = "active"
  /\ user' = [user EXCEPT ![u] = [@ EXCEPT !.status = "pending", !.group = g]]
  /\ UNCHANGED <<group, resets, sessions>>

(* profile: the user moves to a group in use. *)
MoveUser(u, g) ==
  /\ user[u].status # "absent" /\ group[g] = "active" /\ user[u].group # g
  /\ user' = [user EXCEPT ![u].group = g]
  /\ UNCHANGED <<group, resets, sessions>>

UserStatusChange(u, status) ==
  /\ user[u].status \in {"active", "disabled"}
  /\ user' = [user EXCEPT ![u].status = status]
  /\ IF status = "disabled" THEN Without({u}) ELSE UNCHANGED sessions
  /\ UNCHANGED <<group, resets>>

(* Mistake: only the sessions of a disabled user end. *)
GroupStatusKeepingSessions(g, status) ==
  /\ group[g] # "absent"
  /\ group' = [group EXCEPT ![g] = status]
  /\ UNCHANGED <<user, resets, sessions>>

(* Disabling a group ends the sessions of everyone in it now. *)
GroupStatusChange(g, status) ==
  /\ group[g] # "absent"
  /\ group' = [group EXCEPT ![g] = status]
  /\ IF status = "disabled" THEN Without({u \in Users : user[u].group = g})
     ELSE UNCHANGED sessions
  /\ UNCHANGED <<user, resets>>

ReviewUser(u, status) ==
  /\ user[u].status = "pending"
  /\ status = "active" => GroupActive(u)
  /\ user' = [user EXCEPT ![u].status = status]
  /\ UNCHANGED <<group, resets, sessions>>

ResetsOf(u) == {r \in resets : r.user = u}
Consumed(u) == {IF r.user = u THEN [r EXCEPT !.open = FALSE] ELSE r : r \in resets}
NewReset(u) == [user |-> u, number |-> Cardinality(ResetsOf(u)) + 1, open |-> TRUE]

(* Mistake: older reset links stay good. *)
RequestResetKeepingOld(u) ==
  /\ MayEnter(u) /\ Cardinality(ResetsOf(u)) < MaxResets
  /\ resets' = resets \cup {NewReset(u)}
  /\ UNCHANGED <<group, user, sessions>>

(* reset-password: a new link, which replaces the ones not used yet. *)
RequestReset(u) ==
  /\ MayEnter(u) /\ Cardinality(ResetsOf(u)) < MaxResets
  /\ resets' = Consumed(u) \cup {NewReset(u)}
  /\ UNCHANGED <<group, user, sessions>>

-----------------------------------------------------------------------------
(* What the members do, and time.                                          *)

SetPassword(u) == user' = [user EXCEPT ![u].credential = @ + 1]

(* completeReset: the link is used up and the sessions end. *)
CompleteReset(r) ==
  /\ r.open /\ MayEnter(r.user) /\ user[r.user].credential < MaxCredential
  /\ SetPassword(r.user)
  /\ resets' = Consumed(r.user)
  /\ Without({r.user})
  /\ UNCHANGED group

(* memberLogin with the password in use. *)
MemberLogin(u) ==
  /\ MayEnter(u) /\ user[u].credential > 0
  /\ sessions' = sessions \cup {[subject |-> u, credential |-> user[u].credential]}
  /\ UNCHANGED <<group, user, resets>>

(* A link is good for 15 minutes and a session for an hour. *)
ResetExpires(r) ==
  /\ r.open /\ resets' = (resets \ {r}) \cup {[r EXCEPT !.open = FALSE]}
  /\ UNCHANGED <<group, user, sessions>>
SessionExpires(s) == sessions' = sessions \ {s} /\ UNCHANGED <<group, user, resets>>

ManagementNext ==
  \/ \E g \in Groups : CreateGroup(g) \/ \E s \in {"active", "disabled"} : GroupStatusChange(g, s)
  \/ \E u \in Users :
       \/ RequestReset(u) \/ MemberLogin(u)
       \/ \E g \in Groups : CreateUser(u, g) \/ MoveUser(u, g)
       \/ \E s \in {"active", "disabled"} : UserStatusChange(u, s)
       \/ \E s \in {"active", "rejected"} : ReviewUser(u, s)
  \/ \E r \in resets : CompleteReset(r) \/ ResetExpires(r)
  \/ \E s \in sessions : SessionExpires(s)

ManagementSpec == ManagementInit /\ [][ManagementNext]_managementVars

-----------------------------------------------------------------------------
(* Types of all variables. *)
ManagementTypes ==
  /\ group \in [Groups -> GroupStatus]
  /\ user \in [Users -> [status : UserStatus, group : Groups \cup {"none"}, credential : Nat]]
  /\ resets \subseteq [user : Users, number : Nat, open : BOOLEAN]
  /\ sessions \subseteq [subject : Users, credential : Nat]

(* A stored session is one of an active user of an active group who logged *)
(* in with the password in use: whatever disables the user or the group or *)
(* replaces the password ended the older ones, so that enabling them again *)
(* brings none of these back.                                              *)
SessionsCurrent ==
  \A s \in sessions : MayEnter(s.subject) /\ s.credential = user[s.subject].credential

(* A password is only set with the latest link issued for the user, and    *)
(* then no link of the user is left.                                       *)
LatestLinkOnce ==
  [][\A u \in Users : user'[u].credential # user[u].credential =>
       \E r \in ResetsOf(u) :
         /\ r.open /\ r.number = Cardinality(ResetsOf(u))
         /\ \A q \in resets' : q.user = u => ~q.open]_managementVars
=============================================================================
