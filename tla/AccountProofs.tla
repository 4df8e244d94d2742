--------------------------- MODULE AccountProofs ----------------------------
(***************************************************************************)
(* What TLAPS proves of Members and Sessions, for any users, requests in   *)
(* flight, tabs and lifetimes of tokens: ownership comes from owners, the  *)
(* last owner falls only to a race, commits hit the rows that were         *)
(* checked, invitations close; and a logout lasts, and a session is given  *)
(* up only for a reason.                                                   *)
(***************************************************************************)
EXTENDS Members, Sessions, FiniteSetTheorems, TLAPS

-----------------------------------------------------------------------------
(* Members.                                                                 *)

LEMMA Roles == Role = {"viewer", "agent", "admin", "owner"}
BY DEF Role, Rank

\* Nobody outranks an owner, so only owners manage the role of owner.
LEMMA OnlyOwnersManageOwner ==
  ASSUME NEW own \in Role \cup {"none"}, Manages(own, "owner")
  PROVE  own = "owner"
<1>1. Rank["owner"] = 4 /\ (own # "owner" => Rank[own] \in 0..3)
  BY Roles DEF Rank
<1> QED
  BY <1>1 DEF Manages

-----------------------------------------------------------------------------
(* The inductive invariant.                                                 *)

\* What a request has seen and is about to do, and what its role allowed.
RequestOK(r) ==
  /\ req[r].pc \notin {"idle", "refused"} => req[r].caller \in User
  /\ req[r].pc \in {"loaded", "cleared"} =>
       req[r].target \in User /\ (req[r].new = "owner" => req[r].as = "owner")
  /\ req[r].pc = "cleared" /\ TakesAnOwner(req[r].saw, req[r].new) => Cardinality(req[r].owners) > 1
  /\ req[r].pc \in {"revoking", "accepting"} =>
       req[r].invite \in Request /\ inv[req[r].invite].state # "absent"

\* Who wrote an invitation is known by the role it acted on.
InvitationOK(i) ==
  /\ inv[i].state # "absent" => req[i].pc = "done" /\ inv[i].role # "none"
  /\ inv[i].role = "owner" => inv[i].state # "absent" /\ req[i].as = "owner"

MembersInv ==
  /\ TypeOK /\ OwnersAreAppointed
  /\ \A r \in Request : RequestOK(r) /\ InvitationOK(r)

LEMMA InitOK == Init => MembersInv
<1> SUFFICES ASSUME Init PROVE MembersInv
  OBVIOUS
<1>1. TypeOK
  <2>1. member \in [User -> Membership]
    <3>1. ASSUME NEW u \in User PROVE member[u] \in Membership
      BY DEF Init, Membership, NonMember
    <3> QED
      BY <3>1 DEF Init
  <2>2. inv \in [Request -> Invitation] /\ req \in [Request -> Coroutine]
    BY DEF Init, Invitation, Coroutine, Idle
  <2> QED
    BY <2>1, <2>2 DEF TypeOK
<1>2. OwnersAreAppointed
  BY DEF Init, OwnersAreAppointed
<1>3. ASSUME NEW r \in Request PROVE RequestOK(r) /\ InvitationOK(r)
  BY <1>3 DEF Init, RequestOK, InvitationOK, Idle
<1> QED
  BY <1>1, <1>2, <1>3 DEF MembersInv

-----------------------------------------------------------------------------
(* Types.                                                                   *)

\* What LoadTarget makes of a coroutine.
Loaded(x, u, row, saw, new, p) ==
  [x EXCEPT !.target = u, !.row = row, !.saw = saw, !.new = new, !.pc = p]

LEMMA LoadedType ==
  ASSUME NEW x \in Coroutine, NEW u \in User, NEW row \in Request \cup {Signup},
         NEW saw \in Role \cup {"none"}, NEW new \in Role \cup {"none"},
         NEW p \in {"loaded", "cleared"}
  PROVE  Loaded(x, u, row, saw, new, p) \in Coroutine
BY ZenonT(30) DEF Loaded, Coroutine

LEMMA MemberStepTypes ==
  ASSUME MembersInv, NEW r \in Request,
         \/ \E u \in User : Authenticate(r, u)
         \/ \E u \in User, new \in Role \cup {"none"} : LoadTarget(r, u, new)
         \/ CountOwners(r) \/ CommitTarget(r)
  PROVE  TypeOK'
<1> TypeOK /\ RequestOK(r) /\ req[r] \in Coroutine
  BY DEF MembersInv, TypeOK
<1>1. ASSUME NEW u \in User, Authenticate(r, u) PROVE TypeOK'
  <2>1. member[u].role \in Role \cup {"none"}
    BY DEF TypeOK, Membership, NonMember
  <2> DEFINE m == [req[r] EXCEPT !.pc = "authenticated", !.caller = u, !.as = member[u].role]
  <2>2. m \in Coroutine
    BY <2>1 DEF Coroutine
  <2>3. req' = [req EXCEPT ![r] = m]
    BY <1>1 DEF Authenticate
  <2>4. req' \in [Request -> Coroutine]
    <3> HIDE DEF m
    <3> QED
      BY <2>2, <2>3 DEF TypeOK
  <2> QED
    BY <1>1, <2>4 DEF Authenticate, TypeOK
<1>2. ASSUME NEW u \in User, NEW new \in Role \cup {"none"}, LoadTarget(r, u, new) PROVE TypeOK'
  <2>1. member[u].role \in Role \cup {"none"} /\ member[u].row \in Request \cup {Signup}
    BY DEF TypeOK, Membership, NonMember
  <2>2. PICK p \in {"loaded", "cleared"} :
          req' = [req EXCEPT ![r].target = u, ![r].row = member[u].row,
                             ![r].saw = member[u].role, ![r].new = new, ![r].pc = p]
    BY <1>2 DEF LoadTarget
  <2> DEFINE m == Loaded(req[r], u, member[u].row, member[u].role, new, p)
  <2>3. m \in Coroutine
    BY <2>1, LoadedType
  <2>4. req' = [req EXCEPT ![r] = m]
    BY <2>2 DEF Loaded
  <2>5. req' \in [Request -> Coroutine]
    <3> HIDE DEF m
    <3> QED
      BY <2>3, <2>4 DEF TypeOK
  <2> QED
    BY <1>2, <2>5 DEF LoadTarget, TypeOK
<1>3. CASE CountOwners(r)
  <2>1. Owners \in SUBSET User
    BY DEF Owners
  <2> QED
    BY <1>3, <2>1 DEF CountOwners, End, TypeOK, Coroutine
<1>4. CASE CommitTarget(r)
  <2>1. req' \in [Request -> Coroutine]
    BY <1>4 DEF CommitTarget, End, TypeOK, Coroutine
  <2>2. member' \in [User -> Membership]
    <3> DEFINE u == req[r].target
               new == req[r].new
    <3>1. u \in User /\ new \in Role \cup {"none"} /\ member[u] \in Membership
      BY <1>4 DEF CommitTarget, RequestOK, TypeOK, Coroutine
    <3>2. CASE UNCHANGED member
      BY <3>2 DEF TypeOK
    <3>3. CASE RowIsThere(r) /\ member' = [member EXCEPT ![u] =
                IF new = "none" THEN Removed(@) ELSE [@ EXCEPT !.role = new]]
      <4>1. member[u].role # "none"
        BY <3>3 DEF RowIsThere, IsMember
      <4>2. new # "none" => [member[u] EXCEPT !.role = new] \in Membership
        BY <3>1, <4>1 DEF Membership, NonMember
      <4>3. Removed(member[u]) \in Membership
        BY DEF Removed, Membership
      <4> QED
        BY <3>1, <3>3, <4>2, <4>3 DEF TypeOK
    <3> QED
      BY <1>4, <3>2, <3>3 DEF CommitTarget
  <2> QED
    BY <1>4, <2>1, <2>2 DEF CommitTarget, TypeOK
<1> QED
  BY <1>1, <1>2, <1>3, <1>4

LEMMA InviteStepTypes ==
  ASSUME MembersInv, NEW r \in Request,
         \/ \E role \in Role : CreateInvite(r, role)
         \/ \E i \in Request : RevokeRead(r, i) \/ AcceptRead(r, i)
         \/ RevokeCommit(r) \/ AcceptCommit(r) \/ Expire(r)
  PROVE  TypeOK'
<1> TypeOK /\ RequestOK(r) /\ InvitationOK(r) /\ req[r] \in Coroutine /\ inv[r] \in Invitation
  BY DEF MembersInv, TypeOK
<1>1. ASSUME NEW role \in Role, CreateInvite(r, role) PROVE TypeOK'
  BY <1>1, SMTT(20), ZenonT(20) DEF CreateInvite, End, TypeOK, Coroutine, Invitation
<1>2. ASSUME NEW i \in Request, RevokeRead(r, i) \/ AcceptRead(r, i) PROVE TypeOK'
  BY <1>2 DEF RevokeRead, AcceptRead, TypeOK, Coroutine
<1>3. CASE RevokeCommit(r)
  <2>1. req' \in [Request -> Coroutine]
    BY <1>3 DEF RevokeCommit, End, TypeOK, Coroutine
  <2>2. req[r].invite \in Request
    BY <1>3 DEF RevokeCommit, RequestOK
  <2>3. inv' \in [Request -> Invitation]
    BY <1>3, <2>2 DEF RevokeCommit, TypeOK, Invitation
  <2> QED
    BY <1>3, <2>1, <2>3 DEF RevokeCommit, TypeOK
<1>4. CASE AcceptCommit(r)
  <2>1. req' \in [Request -> Coroutine]
    BY <1>4 DEF AcceptCommit, End, TypeOK, Coroutine
  <2>2. inv[req[r].invite] \in Invitation /\ req[r].invite \in Request /\ req[r].caller \in User
        /\ inv[req[r].invite].role # "none"
    BY <1>4 DEF AcceptCommit, RequestOK, TypeOK, MembersInv, InvitationOK
  <2>3. [role |-> inv[req[r].invite].role, row |-> r] \in Membership
    BY <2>2 DEF Membership, Invitation
  <2>4. member' \in [User -> Membership]
    BY <1>4, <2>2, <2>3 DEF AcceptCommit, TypeOK
  <2>5. inv' \in [Request -> Invitation]
    BY <1>4, <2>2 DEF AcceptCommit, Accepted, TypeOK, Invitation
  <2> QED
    BY <2>1, <2>4, <2>5 DEF TypeOK
<1>5. CASE Expire(r)
  BY <1>5 DEF Expire, TypeOK, Invitation
<1> QED
  BY <1>1, <1>2, <1>3, <1>4, <1>5

-----------------------------------------------------------------------------
(* Steps.                                                                   *)

\* One request moves, if it has not ended; invitations keep who wrote them and for
\* what role; new owners are appointed.
LEMMA OneMoves ==
  ASSUME MembersInv, TypeOK', NEW r \in Request,
         \A s \in Request \ {r} : req'[s] = req[s],
         req'[r] = req[r] \/ req[r].pc \notin {"done", "joined"},
         RequestOK(r)', InvitationOK(r)',
         \A i \in Request :
           /\ inv[i].state # "absent" => inv'[i].role = inv[i].role /\ inv'[i].state # "absent"
           /\ inv[i].state = "absent" /\ i # r => inv'[i] = inv[i],
         \A u \in User : member'[u].role = "owner" =>
           member[u].role = "owner" \/ \E s \in Request : Appointed(u, s)'
  PROVE  MembersInv'
<1>1. TypeOK /\ \A s \in Request : RequestOK(s) /\ InvitationOK(s)
  BY DEF MembersInv
<1>2. ASSUME NEW s \in Request PROVE RequestOK(s)' /\ InvitationOK(s)'
  <2>1. CASE s = r
    BY <2>1
  <2>2. CASE s # r
    <3>1. req'[s] = req[s]
      BY <2>2
    <3>2. RequestOK(s)'
      BY <1>1, <3>1 DEF RequestOK
    <3>3. InvitationOK(s)'
      BY <1>1, <2>2, <3>1 DEF InvitationOK
    <3> QED
      BY <3>2, <3>3
  <2> QED
    BY <2>1, <2>2
<1>3. ASSUME NEW u \in User, NEW s \in Request, Appointed(u, s) PROVE Appointed(u, s)'
  <2>1. req[s].as = "owner"
    BY <1>3 DEF Appointed
  <2>2. CASE req[s].pc = "done" /\ req[s].target = u /\ req[s].new = "owner"
    <3>1. req'[s] = req[s]
      BY <2>2
    <3> QED
      BY <2>1, <2>2, <3>1 DEF Appointed
  <2>3. CASE inv[s].role = "owner"
             /\ \E t \in Request : req[t].pc = "joined" /\ req[t].caller = u /\ req[t].invite = s
    <3>1. PICK t \in Request : req[t].pc = "joined" /\ req[t].caller = u /\ req[t].invite = s
      BY <2>3
    <3>2. req[s].pc = "done" /\ inv[s].state # "absent"
      BY <1>1, <2>3 DEF InvitationOK
    <3>3. req'[s] = req[s] /\ req'[t] = req[t] /\ inv'[s].role = "owner"
      BY <2>3, <3>1, <3>2
    <3> QED
      BY <2>1, <3>1, <3>3 DEF Appointed
  <2> QED
    BY <1>3, <2>2, <2>3 DEF Appointed
<1>4. OwnersAreAppointed'
  <2> SUFFICES ASSUME NEW u \in User, member'[u].role = "owner", u # Founder
               PROVE  \E s \in Request : Appointed(u, s)'
    BY DEF OwnersAreAppointed, Owners
  <2>1. CASE member[u].role = "owner"
    BY <1>3, <2>1 DEF MembersInv, OwnersAreAppointed, Owners
  <2> QED
    BY <2>1
<1> QED
  BY <1>2, <1>4 DEF MembersInv

LEMMA RoleSteps ==
  ASSUME MembersInv, NEW r \in Request,
         \/ \E u \in User : Authenticate(r, u)
         \/ \E u \in User, new \in Role \cup {"none"} : LoadTarget(r, u, new)
         \/ CountOwners(r) \/ CommitTarget(r)
  PROVE  MembersInv'
<1>1. TypeOK /\ TypeOK' /\ RequestOK(r) /\ InvitationOK(r) /\ req[r] \in Coroutine
      /\ req \in [Request -> Coroutine]
  BY MemberStepTypes DEF MembersInv, TypeOK
<1>2. UNCHANGED inv /\ req[r].pc \in {"idle", "authenticated", "loaded", "cleared"}
      /\ \A s \in Request \ {r} : req'[s] = req[s]
  BY <1>1 DEF Authenticate, LoadTarget, CountOwners, CommitTarget, End
<1>3. inv[r].state = "absent" /\ InvitationOK(r)'
  BY <1>1, <1>2 DEF InvitationOK
<1>4. ASSUME NEW u \in User, Authenticate(r, u) PROVE MembersInv'
  <2>1. UNCHANGED member /\ req'[r].pc = "authenticated" /\ req'[r].caller = u
    BY <1>1, <1>4 DEF Authenticate, Coroutine
  <2>2. RequestOK(r)'
    BY <2>1 DEF RequestOK
  <2> QED
    BY <1>1, <1>2, <1>3, <2>1, <2>2, OneMoves
<1>5. ASSUME NEW u \in User, NEW new \in Role \cup {"none"}, LoadTarget(r, u, new) PROVE MembersInv'
  <2>1. /\ UNCHANGED member /\ req[r].pc = "authenticated"
        /\ req'[r].caller = req[r].caller /\ req'[r].as = req[r].as
        /\ req'[r].target = u /\ req'[r].saw = member[u].role /\ req'[r].new = new
        /\ req'[r].pc = IF TakesAnOwner(member[u].role, new) THEN "loaded" ELSE "cleared"
    BY <1>1, <1>5 DEF LoadTarget, Coroutine
  <2>2. new = "owner" => req[r].as = "owner"
    BY <1>1, <1>5, OnlyOwnersManageOwner DEF LoadTarget, Coroutine
  <2>3. RequestOK(r)'
    BY <1>1, <2>1, <2>2 DEF RequestOK
  <2> QED
    BY <1>1, <1>2, <1>3, <2>1, <2>3, OneMoves
<1>6. CASE CountOwners(r)
  <2>1. UNCHANGED member /\ req[r].pc = "loaded"
        /\ \/ req'[r] = [req[r] EXCEPT !.pc = "refused"]
           \/ /\ req'[r] = [req[r] EXCEPT !.pc = "cleared", !.owners = Owners]
              /\ Cardinality(Owners) > 1
    BY <1>1, <1>6 DEF CountOwners, End, OwnersSuffice
  <2>2. RequestOK(r)'
    BY <1>1, <2>1, ZenonT(30) DEF RequestOK, Coroutine
  <2> QED
    BY <1>1, <1>2, <1>3, <2>1, <2>2, OneMoves
<1>7. CASE CommitTarget(r)
  <2>1. req[r].pc = "cleared" /\ \E p \in {"done", "refused"} : req'[r] = [req[r] EXCEPT !.pc = p]
    BY <1>1, <1>7 DEF CommitTarget, End
  <2>2. RequestOK(r)'
    BY <1>1, <2>1 DEF RequestOK, Coroutine
  <2>3. ASSUME NEW u \in User, member'[u].role = "owner", member[u].role # "owner"
        PROVE  Appointed(u, r)'
    <3>1. u = req[r].target /\ req[r].new = "owner" /\ End(r, "done")
      BY <1>1, <1>7, <2>1, <2>3 DEF CommitTarget, RequestOK, Removed, NonMember, TypeOK, Membership
    <3> QED
      BY <1>1, <2>1, <3>1 DEF RequestOK, End, Appointed, Coroutine
  <2> QED
    BY <1>1, <1>2, <1>3, <2>2, <2>3, OneMoves
<1> QED
  BY <1>4, <1>5, <1>6, <1>7

LEMMA InviteSteps ==
  ASSUME MembersInv, NEW r \in Request,
         \/ \E role \in Role : CreateInvite(r, role)
         \/ \E i \in Request : RevokeRead(r, i) \/ AcceptRead(r, i)
         \/ RevokeCommit(r) \/ AcceptCommit(r) \/ Expire(r)
  PROVE  MembersInv'
<1>1. TypeOK /\ TypeOK' /\ RequestOK(r) /\ InvitationOK(r) /\ req[r] \in Coroutine
      /\ req \in [Request -> Coroutine] /\ inv \in [Request -> Invitation]
      /\ \A i \in Request : inv[i] \in Invitation /\ InvitationOK(i)
  BY InviteStepTypes DEF MembersInv, TypeOK
<1>2. \A s \in Request \ {r} : req'[s] = req[s]
  BY <1>1 DEF CreateInvite, RevokeRead, AcceptRead, RevokeCommit, AcceptCommit, Expire, End
<1>3. ASSUME NEW role \in Role, CreateInvite(r, role) PROVE MembersInv'
  <2>1. UNCHANGED member /\ req[r].pc = "authenticated" /\ req'[r] = [req[r] EXCEPT !.pc = "done"]
        /\ inv' = [inv EXCEPT ![r] = [state |-> "pending", role |-> role]]
    BY <1>1, <1>3 DEF CreateInvite, End
  <2>2. role = "owner" => req[r].as = "owner"
    BY <1>1, <1>3, OnlyOwnersManageOwner DEF CreateInvite, Coroutine
  <2>3. RequestOK(r)' /\ InvitationOK(r)' /\ inv[r].state = "absent"
    BY <1>1, <2>1, <2>2, Roles DEF RequestOK, InvitationOK, Coroutine
  <2> QED
    BY <1>1, <1>2, <2>1, <2>3, OneMoves
<1>4. ASSUME NEW i \in Request, RevokeRead(r, i) \/ AcceptRead(r, i) PROVE MembersInv'
  <2>1. UNCHANGED <<member, inv>> /\ req[r].pc = "authenticated" /\ inv[i].state # "absent"
        /\ req'[r].pc \in {"revoking", "accepting"} /\ req'[r].invite = i
        /\ req'[r].caller = req[r].caller
    BY <1>1, <1>4 DEF RevokeRead, AcceptRead, Coroutine
  <2>2. RequestOK(r)' /\ InvitationOK(r)'
    BY <1>1, <2>1 DEF RequestOK, InvitationOK
  <2> QED
    BY <1>1, <1>2, <2>1, <2>2, OneMoves
<1>5. CASE RevokeCommit(r)
  <2>1. UNCHANGED member /\ req[r].pc = "revoking" /\ req'[r] = [req[r] EXCEPT !.pc = "done"]
        /\ inv' = [inv EXCEPT ![req[r].invite].state = "revoked"]
        /\ req[r].invite \in Request /\ inv[req[r].invite].state # "absent"
    BY <1>1, <1>5 DEF RevokeCommit, RequestOK, End
  <2>2. \A i \in Request : inv'[i].role = inv[i].role
          /\ (inv[i].state = "absent" <=> inv'[i].state = "absent")
          /\ (inv[i].state = "absent" => inv'[i] = inv[i])
    BY <1>1, <2>1 DEF Invitation
  <2>3. RequestOK(r)' /\ InvitationOK(r)'
    BY <1>1, <2>1, <2>2 DEF RequestOK, InvitationOK, Coroutine
  <2> QED
    BY <1>1, <1>2, <2>1, <2>2, <2>3, OneMoves
<1>6. CASE AcceptCommit(r)
  <2>0. PICK u \in User, i \in Request : u = req[r].caller /\ i = req[r].invite
    BY <1>1, <1>6 DEF AcceptCommit, RequestOK
  <2>1. req[r].pc = "accepting" /\ inv[i].state # "absent"
    BY <1>1, <1>6, <2>0 DEF AcceptCommit, RequestOK
  <2>2. \/ UNCHANGED <<member, inv>> /\ req'[r] = [req[r] EXCEPT !.pc = "refused"]
        \/ /\ member' = [member EXCEPT ![u] = [role |-> inv[i].role, row |-> r]]
           /\ inv' = [inv EXCEPT ![i].state = "accepted"]
           /\ req'[r] = [req[r] EXCEPT !.pc = "joined"]
    BY <1>1, <1>6, <2>0 DEF AcceptCommit, Accepted, End
  <2>3. \A k \in Request : inv'[k].role = inv[k].role
          /\ (inv[k].state = "absent" <=> inv'[k].state = "absent")
          /\ (inv[k].state = "absent" => inv'[k] = inv[k])
    BY <1>1, <2>1, <2>2 DEF Invitation
  <2>4. RequestOK(r)' /\ InvitationOK(r)'
    BY <1>1, <2>1, <2>2, <2>3 DEF RequestOK, InvitationOK, Coroutine
  <2>5. ASSUME NEW v \in User, member'[v].role = "owner", member[v].role # "owner"
        PROVE  Appointed(v, i)'
    <3>1. v = u /\ inv[i].role = "owner" /\ req'[r].pc = "joined" /\ req'[r].caller = u
          /\ req'[r].invite = i
      BY <1>1, <2>0, <2>2, <2>5 DEF TypeOK, Coroutine
    <3>2. req[i].as = "owner" /\ req'[i].as = req[i].as
      BY <1>1, <1>2, <2>1, <2>2, <3>1 DEF InvitationOK, Coroutine
    <3> QED
      BY <2>1, <2>3, <3>1, <3>2 DEF Appointed
  <2>6. \A v \in User : member'[v].role = "owner" =>
          member[v].role = "owner" \/ \E s \in Request : Appointed(v, s)'
    BY <2>5
  <2>7. \A k \in Request :
          /\ inv[k].state # "absent" => inv'[k].role = inv[k].role /\ inv'[k].state # "absent"
          /\ inv[k].state = "absent" /\ k # r => inv'[k] = inv[k]
    BY <2>3
  <2>8. req[r].pc \notin {"done", "joined"}
    BY <2>1
  <2> QED
    BY <1>1, <1>2, <2>4, <2>6, <2>7, <2>8, OneMoves
<1>7. CASE Expire(r)
  <2>1. UNCHANGED <<member, req>> /\ inv[r].state = "pending"
        /\ inv' = [inv EXCEPT ![r].state = "expired"]
    BY <1>7 DEF Expire
  <2>2. \A k \in Request : inv'[k].role = inv[k].role
          /\ (inv[k].state = "absent" <=> inv'[k].state = "absent")
          /\ (inv[k].state = "absent" => inv'[k] = inv[k])
    BY <1>1, <2>1 DEF Invitation
  <2>3. RequestOK(r)' /\ InvitationOK(r)'
    BY <1>1, <2>1, <2>2 DEF RequestOK, InvitationOK
  <2>4. TypeOK' /\ \A s \in Request : req'[s] = req[s]
    BY <1>1, <2>1
  <2>5. \A u \in User : member'[u].role = "owner" => member[u].role = "owner"
    BY <2>1
  <2>6. \A i \in Request :
          /\ inv[i].state # "absent" => inv'[i].role = inv[i].role /\ inv'[i].state # "absent"
          /\ inv[i].state = "absent" /\ i # r => inv'[i] = inv[i]
    BY <2>2
  <2>7. \A s \in Request \ {r} : req'[s] = req[s]
    BY <2>4
  <2>8. req'[r] = req[r]
    BY <2>4
  <2> QED
    BY <2>3, <2>4, <2>5, <2>6, <2>7, <2>8, OneMoves
<1> QED
  BY <1>3, <1>4, <1>5, <1>6, <1>7

LEMMA Inductive == MembersInv /\ [Next]_vars => MembersInv'
<1> SUFFICES ASSUME MembersInv, [Next]_vars PROVE MembersInv'
  OBVIOUS
<1>1. CASE UNCHANGED vars
  BY <1>1 DEF vars, MembersInv, TypeOK, OwnersAreAppointed, Appointed, Owners, RequestOK, InvitationOK
<1>2. CASE Next
  BY <1>2, RoleSteps, InviteSteps DEF Next
<1> QED
  BY <1>1, <1>2

-----------------------------------------------------------------------------
(* The theorems.                                                            *)

\* The inductive invariant: what requests in flight may still do was allowed by the
\* role they authenticated with.
THEOREM MembersInvariant == Spec => []MembersInv
<1> QED
  BY InitOK, Inductive, PTL DEF Spec

\* Every owner but the founder was promoted by an owner, or joined by an invitation
\* that an owner wrote, however stale the requests were.
THEOREM OwnersAppointed == Spec => []OwnersAreAppointed
<1>1. MembersInv => OwnersAreAppointed
  BY DEF MembersInv
<1> QED
  BY <1>1, MembersInvariant, PTL

\* Memberships are changed by the commits of role changes and acceptances.
LEMMA MemberChanges ==
  ASSUME Next, member' # member
  PROVE  \E r \in Request : CommitTarget(r) \/ AcceptCommit(r)
<1>1. PICK r \in Request :
        \/ \E u \in User : Authenticate(r, u)
        \/ \E u \in User, new \in Role \cup {"none"} : LoadTarget(r, u, new)
        \/ CountOwners(r) \/ CommitTarget(r)
        \/ \E role \in Role : CreateInvite(r, role)
        \/ \E i \in Request : RevokeRead(r, i) \/ AcceptRead(r, i)
        \/ RevokeCommit(r) \/ AcceptCommit(r) \/ Expire(r)
  BY DEF Next
<1> QED
  BY <1>1 DEF Authenticate, LoadTarget, CountOwners, CreateInvite, RevokeRead, AcceptRead,
              RevokeCommit, Expire

\* Only a request that counted other owners than there are, or checked a target that
\* was no owner, takes the last one.
LEMMA LastOwnerStep ==
  MembersInv /\ [Next]_vars =>
    [Owners # {} /\ Owners' = {} =>
       \E r \in Request : /\ req[r].pc = "cleared" /\ req'[r].pc = "done"
                          /\ req[r].saw # "owner" \/ req[r].owners # Owners]_vars
<1> SUFFICES ASSUME MembersInv, Next, Owners # {}, Owners' = {}
             PROVE  \E r \in Request : /\ req[r].pc = "cleared" /\ req'[r].pc = "done"
                                       /\ req[r].saw # "owner" \/ req[r].owners # Owners
  OBVIOUS
<1>1. TypeOK /\ \A r \in Request : RequestOK(r)
  BY DEF MembersInv
<1>2. PICK o \in User : member[o].role = "owner"
  BY DEF Owners
<1>3. PICK r \in Request : CommitTarget(r) \/ AcceptCommit(r)
  <2>1. member' # member
    BY DEF Owners
  <2> QED
    BY <2>1, MemberChanges
<1>4. CASE AcceptCommit(r)
  <2>1. member'[o] = member[o]
    BY <1>1, <1>2, <1>4 DEF AcceptCommit, IsMember, RequestOK, TypeOK
  <2> QED
    BY <1>2, <2>1 DEF Owners
<1>5. CASE CommitTarget(r)
  <2> DEFINE u == req[r].target
  <2>1. req[r].pc = "cleared" /\ u \in User /\ RequestOK(r)
    BY <1>1, <1>5 DEF CommitTarget, RequestOK
  <2>2. member' # member
    BY DEF Owners
  <2>3. RowIsThere(r) /\ req'[r].pc = "done"
        /\ member' = [member EXCEPT ![u] = IF req[r].new = "none" THEN Removed(@)
                                           ELSE [@ EXCEPT !.role = req[r].new]]
    BY <1>1, <1>5, <2>2 DEF CommitTarget, End, TypeOK, Coroutine
  <2>4. req[r].new # "owner"
    <3>1. req[r].new = "owner" => member'[u].role = "owner"
      BY <1>1, <2>1, <2>3 DEF TypeOK, Membership, NonMember
    <3> QED
      BY <2>1, <3>1 DEF Owners
  <2>5. CASE req[r].saw = "owner" /\ req[r].owners = Owners
    <3>1. Cardinality(Owners) > 1 /\ IsFiniteSet(Owners)
      BY <2>1, <2>4, <2>5, MembersAssumption, FS_Subset DEF RequestOK, TakesAnOwner, Owners
    <3>2. Owners \subseteq {u}
      BY <1>1, <2>3 DEF Owners, TypeOK
    <3>3. Cardinality(Owners) <= 1
      <4>1. IsFiniteSet({u}) /\ Cardinality({u}) = 1
        BY FS_Singleton
      <4> QED
        BY <3>2, <4>1, FS_Subset
    <3> QED
      BY <3>1, <3>3, FS_CardinalityType
  <2> QED
    BY <2>1, <2>3, <2>5
<1> QED
  BY <1>3, <1>4, <1>5

\* An organization loses its last owner only when the step that takes it had counted
\* the owners (services/members.py) before another of them was taken.
THEOREM LastOwnerRaces == Spec => LastOwnerFallsToARace
<1> QED
  BY MembersInvariant, LastOwnerStep, PTL DEF Spec, LastOwnerFallsToARace

\* A commit changes the membership its request checked, or makes one where there is none.
LEMMA CheckedRowStep ==
  MembersInv /\ [Next]_vars =>
    [\A u \in User : IsMember(u) /\ member'[u] # member[u] =>
       \E r \in Request : req[r].pc = "cleared" /\ req[r].target = u
                          /\ req[r].row = member[u].row]_vars
<1> SUFFICES ASSUME MembersInv, Next, NEW u \in User, IsMember(u), member'[u] # member[u]
             PROVE  \E r \in Request : req[r].pc = "cleared" /\ req[r].target = u
                                       /\ req[r].row = member[u].row
  OBVIOUS
<1>1. PICK r \in Request : CommitTarget(r) \/ AcceptCommit(r)
  <2>1. member' # member
    OBVIOUS
  <2> QED
    BY <2>1, MemberChanges
<1>2. TypeOK /\ RequestOK(r)
  BY DEF MembersInv
<1>3. ~AcceptCommit(r)
  BY <1>2 DEF AcceptCommit, IsMember, TypeOK
<1> QED
  BY <1>1, <1>2, <1>3 DEF CommitTarget, RowIsThere, TypeOK

\* A role change or removal that commits changes the membership that was checked, not
\* one that the same user was given later.
THEOREM CommitsHitCheckedRows == Spec => ChangesHitTheRowTheyChecked
<1> QED
  BY MembersInvariant, CheckedRowStep, PTL DEF Spec, ChangesHitTheRowTheyChecked

\* By whose step a coroutine goes on, and which step it is.
LEMMA OwnStep ==
  ASSUME TypeOK, Next, NEW r \in Request, req'[r].pc # req[r].pc
  PROVE  /\ req'[r].pc = "accepting" => \E i \in Request : AcceptRead(r, i)
         /\ req'[r].pc = "joined" => AcceptCommit(r)
<1>1. PICK s \in Request :
        \/ \E u \in User : Authenticate(s, u)
        \/ \E u \in User, new \in Role \cup {"none"} : LoadTarget(s, u, new)
        \/ CountOwners(s) \/ CommitTarget(s)
        \/ \E role \in Role : CreateInvite(s, role)
        \/ \E i \in Request : RevokeRead(s, i) \/ AcceptRead(s, i)
        \/ RevokeCommit(s) \/ AcceptCommit(s) \/ Expire(s)
  BY DEF Next
<1>2. req \in [Request -> Coroutine] /\ req[s] \in Coroutine /\ req[r] \in Coroutine
  BY DEF TypeOK
<1>3. s = r
  BY <1>1, <1>2
     DEF Authenticate, LoadTarget, CountOwners, CommitTarget, CreateInvite, RevokeRead,
         AcceptRead, RevokeCommit, AcceptCommit, Expire, End
<1>4. ASSUME NEW p \in {"done", "refused"}, End(r, p) PROVE req'[r].pc = p
  BY <1>2, <1>4 DEF End, Coroutine
<1>5. ASSUME NEW u \in User, Authenticate(r, u) PROVE req'[r].pc = "authenticated"
  BY <1>2, <1>5 DEF Authenticate, Coroutine
<1>6. ASSUME NEW u \in User, NEW new \in Role \cup {"none"}, LoadTarget(r, u, new)
      PROVE  req'[r].pc \in {"loaded", "cleared"}
  BY <1>2, <1>6 DEF LoadTarget, Coroutine
<1>7. CountOwners(r) => req'[r].pc \in {"cleared", "refused"}
  <2>1. SUFFICES ASSUME CountOwners(r) PROVE req'[r].pc \in {"cleared", "refused"}
    OBVIOUS
  <2> QED
    BY <1>2, <1>4, <2>1 DEF CountOwners, Coroutine
<1>8. CommitTarget(r) \/ RevokeCommit(r) \/ (\E role \in Role : CreateInvite(r, role))
        => req'[r].pc \in {"done", "refused"}
  BY <1>4 DEF CommitTarget, RevokeCommit, CreateInvite
<1>9. ASSUME NEW i \in Request, RevokeRead(r, i) PROVE req'[r].pc = "revoking"
  BY <1>2, <1>9 DEF RevokeRead, Coroutine
<1>10. ASSUME NEW i \in Request, AcceptRead(r, i) PROVE req'[r].pc = "accepting"
  BY <1>2, <1>10 DEF AcceptRead, Coroutine
<1>11. AcceptCommit(r) => req'[r].pc \in {"joined", "refused"}
  <2>1. End(r, "joined") => req'[r].pc = "joined"
    BY <1>2 DEF End, Coroutine
  <2> QED
    BY <1>4, <2>1 DEF AcceptCommit
<1>12. Expire(r) => req'[r].pc = req[r].pc
  BY DEF Expire
<1> QED
  BY <1>1, <1>3, <1>5, <1>6, <1>7, <1>8, <1>9, <1>10, <1>11, <1>12

\* An invitation that somebody has joined by is no longer pending.
Closed(i) == i.state \in {"accepted", "revoked"}
JoinedInv == \A r \in Request : req[r].pc = "joined" => req[r].invite \in Request /\ Closed(inv[req[r].invite])

LEMMA InitJoined == Init => JoinedInv
BY DEF Init, Idle, JoinedInv

\* No step opens an invitation again ...
LEMMA ClosedStays ==
  ASSUME MembersInv, Next, NEW i \in Request, Closed(inv[i]) PROVE Closed(inv'[i])
<1>1. inv \in [Request -> Invitation] /\ inv[i] \in Invitation
  BY DEF MembersInv, TypeOK
<1>2. PICK s \in Request :
        \/ \E u \in User : Authenticate(s, u)
        \/ \E u \in User, new \in Role \cup {"none"} : LoadTarget(s, u, new)
        \/ CountOwners(s) \/ CommitTarget(s)
        \/ \E role \in Role : CreateInvite(s, role)
        \/ \E k \in Request : RevokeRead(s, k) \/ AcceptRead(s, k)
        \/ RevokeCommit(s) \/ AcceptCommit(s) \/ Expire(s)
  BY DEF Next
<1>3. CASE \E role \in Role : CreateInvite(s, role)
  <2>1. s # i
    BY <1>3 DEF CreateInvite, MembersInv, InvitationOK, Closed
  <2> QED
    BY <1>1, <1>3, <2>1 DEF CreateInvite, Closed
<1>4. CASE RevokeCommit(s)
  BY <1>1, <1>4 DEF RevokeCommit, Closed, Invitation
<1>5. CASE AcceptCommit(s)
  BY <1>1, <1>5 DEF AcceptCommit, Accepted, Closed, Invitation
<1>6. CASE Expire(s)
  BY <1>1, <1>6 DEF Expire, Closed
<1>7. CASE inv' = inv
  BY <1>7 DEF Closed
<1> QED
  BY <1>2, <1>3, <1>4, <1>5, <1>6, <1>7
     DEF Authenticate, LoadTarget, CountOwners, CommitTarget, RevokeRead, AcceptRead

\* ... and a request that has joined is over.
LEMMA JoinedStays ==
  ASSUME MembersInv, Next, NEW r \in Request, req[r].pc = "joined" PROVE req'[r] = req[r]
<1>1. req \in [Request -> Coroutine]
  BY DEF MembersInv, TypeOK
<1>2. PICK s \in Request :
        \/ \E u \in User : Authenticate(s, u)
        \/ \E u \in User, new \in Role \cup {"none"} : LoadTarget(s, u, new)
        \/ CountOwners(s) \/ CommitTarget(s)
        \/ \E role \in Role : CreateInvite(s, role)
        \/ \E k \in Request : RevokeRead(s, k) \/ AcceptRead(s, k)
        \/ RevokeCommit(s) \/ AcceptCommit(s) \/ Expire(s)
  BY DEF Next
<1>3. s # r \/ Expire(s)
  BY <1>2 DEF Authenticate, LoadTarget, CountOwners, CommitTarget, CreateInvite, RevokeRead,
     AcceptRead, RevokeCommit, AcceptCommit
<1> QED
  BY <1>1, <1>2, <1>3 DEF Authenticate, LoadTarget, CountOwners, CommitTarget, CreateInvite,
     RevokeRead, AcceptRead, RevokeCommit, AcceptCommit, Expire, End

LEMMA JoinedStep == MembersInv /\ JoinedInv /\ [Next]_vars => JoinedInv'
<1> SUFFICES ASSUME MembersInv, JoinedInv, [Next]_vars PROVE JoinedInv'
  OBVIOUS
<1>1. CASE UNCHANGED vars
  BY <1>1 DEF vars, JoinedInv, Closed
<1>2. CASE Next
  <2> SUFFICES ASSUME NEW r \in Request, req'[r].pc = "joined"
               PROVE  req'[r].invite \in Request /\ Closed(inv'[req'[r].invite])
    BY DEF JoinedInv, Closed
  <2>1. CASE req[r].pc = "joined"
    BY <1>2, <2>1, JoinedStays, ClosedStays DEF JoinedInv, Closed
  <2>2. CASE req[r].pc # "joined"
    <3>1. AcceptCommit(r) /\ TypeOK /\ RequestOK(r)
      BY <1>2, <2>2, OwnStep DEF MembersInv
    <3>2. req[r].invite \in Request /\ req'[r].invite = req[r].invite
      BY <3>1 DEF AcceptCommit, RequestOK, End, TypeOK, Coroutine
    <3>3. inv' = [inv EXCEPT ![req[r].invite] = Accepted(@)]
      <4>1. ~End(r, "refused")
        BY <3>1 DEF End, TypeOK, Coroutine
      <4> QED
        BY <3>1, <4>1 DEF AcceptCommit
    <3> QED
      BY <3>1, <3>2, <3>3 DEF Accepted, Closed, TypeOK, Invitation
  <2> QED
    BY <2>1, <2>2
<1> QED
  BY <1>1, <1>2

LEMMA CloseStep ==
  MembersInv /\ JoinedInv /\ [Next]_vars =>
    [\A r \in Request :
       /\ req[r].pc # "accepting" /\ req'[r].pc = "accepting" => JoinedBy(req'[r].invite) = {}
       /\ req[r].pc # "joined" /\ req'[r].pc = "joined" => inv[req[r].invite].state # "revoked"]_vars
<1> SUFFICES ASSUME MembersInv, JoinedInv, Next, NEW r \in Request
             PROVE  /\ req[r].pc # "accepting" /\ req'[r].pc = "accepting"
                         => JoinedBy(req'[r].invite) = {}
                    /\ req[r].pc # "joined" /\ req'[r].pc = "joined"
                         => inv[req[r].invite].state # "revoked"
  OBVIOUS
<1>1. TypeOK
  BY DEF MembersInv
<1>2. ASSUME req[r].pc # "accepting", req'[r].pc = "accepting" PROVE JoinedBy(req'[r].invite) = {}
  <2>1. PICK i \in Request : AcceptRead(r, i)
    BY <1>1, <1>2, OwnStep
  <2>2. req'[r].invite = i /\ inv[i].state = "pending"
    BY <1>1, <2>1 DEF AcceptRead, TypeOK, Coroutine
  <2> QED
    BY <2>2 DEF JoinedInv, JoinedBy, Closed
<1>3. ASSUME req[r].pc # "joined", req'[r].pc = "joined" PROVE inv[req[r].invite].state # "revoked"
  <2>1. AcceptCommit(r)
    BY <1>1, <1>3, OwnStep
  <2>2. ~End(r, "refused")
    BY <1>1, <1>3 DEF End, TypeOK, Coroutine
  <2> QED
    BY <2>1, <2>2 DEF AcceptCommit, InvitationIsThere
<1> QED
  BY <1>2, <1>3

\* Nobody opens an invitation that somebody has joined by, or joins by one whose
\* revocation is committed: that two join by the same one takes two who opened it before.
THEOREM InvitationsEnd == Spec => InvitationsClose
<1>1. Spec => []JoinedInv
  BY InitJoined, JoinedStep, MembersInvariant, PTL DEF Spec
<1> QED
  BY <1>1, MembersInvariant, CloseStep, PTL DEF Spec, InvitationsClose

-----------------------------------------------------------------------------
(* Sessions.                                                                *)

\* What a logout leaves behind: no cookies, and no refresh that carries one, but for
\* those that were on their way.
Ended(t) ==
  out /\ ~domain /\ tab[t].pc = "refresh" /\ t \notin overtaken =>
    tab[t].sent = NoCookie /\ tab[t].answer.status # "ok"

SessionsInv == SessionTypeOK /\ LogoutLasts /\ \A t \in Tab : Ended(t)

USE AccountsAssumption, SessionsAssumption

LEMMA Records ==
  /\ NoCookie \in Cookie /\ NoAnswer \in Answer /\ LoginPage \in TabState
  /\ EmptyJar \in [Kind -> Cookie]
  BY DEF NoCookie, Cookie, NoAnswer, Answer, LoginPage, TabState, EmptyJar, Time

\* A call leaves from a tab.
LEMMA CallType ==
  ASSUME NEW s \in TabState, NEW c \in Cookie,
         NEW pc \in {"idle", "me", "refresh", "meAgain", "login", "logout"}
  PROVE  /\ Calling(s, pc, c) \in TabState
         /\ Calling(s, pc, c).pc = pc /\ Calling(s, pc, c).sent = c
         /\ Calling(s, pc, c).answer = NoAnswer
  BY Records DEF Calling, TabState

LEMMA Calls ==
  ASSUME NEW s \in TabState, NEW c \in Cookie
  PROVE  /\ Calling(s, "me", c) \in TabState /\ Calling(s, "me", c).pc = "me"
         /\ Calling(s, "meAgain", c) \in TabState /\ Calling(s, "meAgain", c).pc = "meAgain"
  <1>1. "me" \in {"idle", "me", "refresh", "meAgain", "login", "logout"}
    OBVIOUS
  <1>2. "meAgain" \in {"idle", "me", "refresh", "meAgain", "login", "logout"}
    OBVIOUS
  <1>3. Calling(s, "me", c) \in TabState /\ Calling(s, "me", c).pc = "me"
    BY <1>1, CallType
  <1>4. Calling(s, "meAgain", c) \in TabState /\ Calling(s, "meAgain", c).pc = "meAgain"
    BY <1>2, CallType
  <1> QED BY <1>3, <1>4

\* A step that only changes one tab, which does not end up in a refresh that
\* carries a cookie, keeps what a logout left.
LEMMA OneTab ==
  ASSUME SessionsInv, NEW t \in Tab, NEW s \in TabState,
         tab' = [tab EXCEPT ![t] = s],
         UNCHANGED <<domain, jar, out>>,
         overtaken' = overtaken \/ overtaken' = overtaken \ {t}, excused' \subseteq Tab,
         clock' \in 1..MaxTime,
         out /\ ~domain /\ s.pc = "refresh" /\ t \notin overtaken =>
           s.sent = NoCookie /\ s.answer.status # "ok",
         s.pc = "refresh" => overtaken' = overtaken
  PROVE  SessionsInv'
  <1>1. SessionTypeOK'
    BY DEF SessionsInv, SessionTypeOK
  <1>2. LogoutLasts'
    BY DEF SessionsInv, LogoutLasts, EmptyJar, NoCookie
  <1>3. ASSUME NEW r \in Tab PROVE Ended(r)'
    <2>1. CASE r = t
      BY <2>1 DEF SessionsInv, SessionTypeOK, Ended, NoCookie
    <2>2. CASE r # t
      BY <2>2 DEF SessionsInv, SessionTypeOK, Ended, NoCookie
    <2> QED BY <2>1, <2>2
  <1> QED BY <1>1, <1>2, <1>3 DEF SessionsInv

LEMMA InitInv == SessionInit => SessionsInv
  <1> SUFFICES ASSUME SessionInit PROVE SessionsInv
    OBVIOUS
  <1>1. SessionTypeOK
    BY Records DEF SessionInit, SessionTypeOK
  <1>2. LogoutLasts
    BY DEF SessionInit, LogoutLasts
  <1>3. \A t \in Tab : Ended(t)
    BY DEF SessionInit, Ended, LoginPage
  <1> QED BY <1>1, <1>2, <1>3 DEF SessionsInv

LEMMA VisitInv ==
  ASSUME SessionsInv, NEW t \in Tab, NEW page \in {"dashboard", "invite"}, Visit(t, page)
  PROVE  SessionsInv'
  <1> DEFINE blank == [LoginPage EXCEPT !.route = page]
             s == IF page = "dashboard" /\ jar["access"] = NoCookie THEN LoginPage
                  ELSE Calling(blank, "me", jar["access"])
  <1>1. jar["access"] \in Cookie
    BY DEF SessionsInv, SessionTypeOK, Kind
  <1>2. blank \in TabState
    BY Records DEF TabState, LoginPage
  <1>3. s \in TabState /\ s.pc # "refresh"
    <2> HIDE DEF blank
    <2>1. LoginPage \in TabState /\ LoginPage.pc # "refresh"
      BY Records DEF LoginPage
    <2> QED BY <1>1, <1>2, <2>1, Calls
  <1>4. tab' = [tab EXCEPT ![t] = s]
    BY DEF Visit
  <1> HIDE DEF s
  <1> QED BY <1>3, <1>4, OneTab DEF Visit, SessionsInv, SessionTypeOK

LEMMA LoginInv ==
  ASSUME SessionsInv, NEW t \in Tab, NEW u \in User, Login(t, u)
  PROVE  SessionsInv'
  <1> DEFINE s == Calling(tab[t], "login", [NoCookie EXCEPT !.user = u])
  <1>1. [NoCookie EXCEPT !.user = u] \in Cookie
    BY Records DEF Cookie, NoCookie
  <1>2. s \in TabState /\ s.pc = "login"
    BY <1>1, CallType DEF SessionsInv, SessionTypeOK
  <1>3. tab' = [tab EXCEPT ![t] = s]
    BY DEF Login, SessionsInv, SessionTypeOK
  <1> HIDE DEF s
  <1> QED BY <1>2, <1>3, OneTab DEF Login, SessionsInv, SessionTypeOK

LEMMA LogoutInv ==
  ASSUME SessionsInv, NEW t \in Tab, Logout(t)
  PROVE  SessionsInv'
  <1> DEFINE s == Calling(tab[t], "logout", NoCookie)
  <1>1. s \in TabState /\ s.pc = "logout"
    BY Records, CallType DEF SessionsInv, SessionTypeOK
  <1>2. tab' = [tab EXCEPT ![t] = s]
    BY DEF Logout, SessionsInv, SessionTypeOK
  <1> HIDE DEF s
  <1> QED BY <1>1, <1>2, OneTab DEF Logout, SessionsInv, SessionTypeOK

\* The API accepts no refresh without a cookie.
LEMMA HandleInv ==
  ASSUME SessionsInv, NEW t \in Tab, Handle(t)
  PROVE  SessionsInv'
  <1>1. PICK status \in {"ok", "401", "error"}, u \in User \cup {NoUser} :
          /\ Says(t, status, u)
          /\ tab[t].pc = "refresh" /\ status = "ok" => Accepts(tab[t].sent, "refresh")
    BY DEF Handle, SessionsInv, SessionTypeOK, TabState, Cookie, Resolving
  <1> DEFINE s == [tab[t] EXCEPT !.answer = [status |-> status, user |-> u, at |-> clock]]
  <1>2. s \in TabState /\ s.pc = tab[t].pc /\ s.sent = tab[t].sent /\ s.answer.status = status
    BY DEF SessionsInv, SessionTypeOK, TabState, Answer, Time
  <1>3. tab' = [tab EXCEPT ![t] = s]
    BY <1>1 DEF Says, SessionsInv, SessionTypeOK, TabState
  <1>4. out /\ ~domain /\ s.pc = "refresh" /\ t \notin overtaken =>
          s.sent = NoCookie /\ s.answer.status # "ok"
    BY <1>1, <1>2 DEF SessionsInv, Ended, Accepts
  <1> HIDE DEF s
  <1> QED BY <1>2, <1>3, <1>4, OneTab DEF Handle, SessionsInv, SessionTypeOK

\* What a search settles to.
LEMMA SettleType ==
  ASSUME SessionTypeOK, NEW t \in Tab, NEW u \in User \cup {NoUser}, Settle(t, u)
  PROVE  \E s \in TabState : tab' = [tab EXCEPT ![t] = s] /\ s.pc = "idle"
  <1> DEFINE s == IF tab[t].leaving \/ (u = NoUser /\ tab[t].route = "dashboard") THEN LoginPage
                  ELSE [LoginPage EXCEPT !.route = tab[t].route, !.user = u]
  <1>1. s \in TabState /\ s.pc = "idle"
    BY Records DEF SessionTypeOK, TabState, LoginPage
  <1>2. tab' = [tab EXCEPT ![t] = s]
    BY DEF Settle, SessionTypeOK
  <1> QED BY <1>1, <1>2

\* A search that turns to the refresh token has none to send after a logout.
LEMMA MeInv ==
  ASSUME SessionsInv, NEW t \in Tab, ReceiveMe(t)
  PROVE  SessionsInv'
  <1>1. CASE tab[t].pc = "me" /\ tab[t].answer.status = "401"
    <2> DEFINE cookie == jar["refresh"]
               s == Calling(tab[t], "refresh", cookie)
    <2>1. cookie \in Cookie /\ tab[t] \in TabState
      BY DEF SessionsInv, SessionTypeOK, Kind
    <2>2. tab' = [tab EXCEPT ![t] = s]
      BY <1>1 DEF ReceiveMe, SessionsInv, SessionTypeOK
    <2>3. out /\ ~domain => cookie = NoCookie
      BY DEF SessionsInv, LogoutLasts, EmptyJar, Kind
    <2> HIDE DEF cookie
    <2>4. s \in TabState /\ s.pc = "refresh" /\ s.sent = cookie /\ s.answer = NoAnswer
      BY <2>1, Records DEF Calling, TabState
    <2>5. out /\ ~domain => s.sent = NoCookie /\ s.answer.status # "ok"
      BY <2>3, <2>4 DEF NoAnswer
    <2> HIDE DEF s
    <2>6. excused' \subseteq Tab
      BY <1>1 DEF ReceiveMe, SessionsInv, SessionTypeOK
    <2>7. UNCHANGED <<clock, domain, jar, out, overtaken>> /\ clock \in 1..MaxTime /\ out \in BOOLEAN
      BY DEF ReceiveMe, SessionsInv, SessionTypeOK
    <2> QED BY <2>2, <2>4, <2>5, <2>6, <2>7, OneTab
  <1>2. CASE ~(tab[t].pc = "me" /\ tab[t].answer.status = "401")
    <2>1. Settle(t, tab[t].answer.user) /\ tab[t].answer.user \in User \cup {NoUser}
      BY <1>2 DEF ReceiveMe, SessionsInv, SessionTypeOK, TabState, Answer
    <2>2. PICK s \in TabState : tab' = [tab EXCEPT ![t] = s] /\ s.pc = "idle"
      BY <2>1, SettleType DEF SessionsInv
    <2>3. excused' \subseteq Tab
      BY <1>2 DEF ReceiveMe, SessionsInv, SessionTypeOK, Failed
    <2> QED BY <2>2, <2>3, OneTab DEF ReceiveMe, SessionsInv, SessionTypeOK
  <1> QED BY <1>1, <1>2

LEMMA StoredType ==
  ASSUME SessionTypeOK, NEW a \in Answer
  PROVE  Stored(a) \in [Kind -> Cookie]
  BY DEF SessionTypeOK, Stored, Answer, Cookie, Time

\* New cookies come with a sign-in, or with a refresh that a logout overtook: otherwise
\* nobody is signed out.
LEMMA CookiesInv ==
  ASSUME SessionsInv, NEW t \in Tab, NEW s \in TabState, tab' = [tab EXCEPT ![t] = s],
         jar' = Stored(tab[t].answer), out' = FALSE, excused' \subseteq Tab,
         overtaken' \subseteq Tab, UNCHANGED <<clock, domain>>
  PROVE  SessionsInv'
  <1>1. SessionTypeOK'
    BY StoredType DEF SessionsInv, SessionTypeOK, TabState
  <1> QED BY <1>1 DEF SessionsInv, LogoutLasts, Ended

LEMMA RefreshInv ==
  ASSUME SessionsInv, NEW t \in Tab, ReceiveRefresh(t)
  PROVE  SessionsInv'
  <1>1. CASE Ok(t)
    <2> DEFINE s == Calling(tab[t], "meAgain", jar'["access"])
    <2>1. jar' = Stored(tab[t].answer) /\ jar'["access"] \in Cookie /\ tab[t] \in TabState
      <3>1. SessionTypeOK /\ tab[t] \in TabState
        BY DEF SessionsInv, SessionTypeOK
      <3>2. tab[t].answer \in Answer
        BY <3>1 DEF TabState
      <3>3. jar' = Stored(tab[t].answer)
        BY <1>1 DEF ReceiveRefresh
      <3>4. Stored(tab[t].answer) \in [Kind -> Cookie]
        BY <3>1, <3>2, StoredType
      <3> QED BY <3>1, <3>3, <3>4 DEF Kind
    <2>2. s \in TabState /\ s.pc = "meAgain"
      BY <2>1, Calls
    <2>3. tab' = [tab EXCEPT ![t] = s]
      BY <1>1 DEF ReceiveRefresh, SessionsInv, SessionTypeOK
    <2> HIDE DEF s
    <2>4. CASE out'
      <3>1. out /\ t \notin overtaken /\ tab[t].answer.status = "ok" /\ tab[t].pc = "refresh"
        BY <1>1, <2>4 DEF ReceiveRefresh, Ok, Answered, SessionsInv, SessionTypeOK
      <3>2. domain
        BY <3>1 DEF SessionsInv, SessionTypeOK, Ended
      <3>3. SessionTypeOK'
        BY <1>1, <2>1, <2>2, <2>3, StoredType DEF ReceiveRefresh, SessionsInv, SessionTypeOK, TabState
      <3> QED BY <3>2, <3>3 DEF ReceiveRefresh, SessionsInv, LogoutLasts, Ended
    <2>5. CASE ~out'
      <3>1. out' = FALSE /\ overtaken' \subseteq Tab /\ excused' \subseteq Tab
        BY <1>1, <2>5 DEF ReceiveRefresh, SessionsInv, SessionTypeOK
      <3> QED BY <2>1, <2>2, <2>3, <3>1, CookiesInv DEF ReceiveRefresh
    <2> QED BY <2>4, <2>5
  <1>2. CASE ~Ok(t)
    <2>1. PICK s \in TabState : tab' = [tab EXCEPT ![t] = s] /\ s.pc = "idle"
      BY <1>2, SettleType DEF ReceiveRefresh, SessionsInv
    <2>2. excused' \subseteq Tab
      BY <1>2 DEF ReceiveRefresh, SessionsInv, SessionTypeOK, Failed
    <2> QED BY <1>2, <2>1, <2>2, OneTab DEF ReceiveRefresh, SessionsInv, SessionTypeOK
  <1> QED BY <1>1, <1>2

LEMMA SignedInInv ==
  ASSUME SessionsInv, NEW t \in Tab, ReceiveLogin(t)
  PROVE  SessionsInv'
  <1>1. CASE Ok(t)
    <2> DEFINE blank == [LoginPage EXCEPT !.route = "dashboard"]
               s == Calling(blank, "me", jar'["access"])
    <2>1. jar' = Stored(tab[t].answer) /\ jar'["access"] \in Cookie
      BY <1>1, StoredType DEF ReceiveLogin, SessionsInv, SessionTypeOK, TabState, Kind
    <2>2. blank \in TabState
      BY Records DEF TabState, LoginPage
    <2>3. s \in TabState
      BY <2>1, <2>2, CallType
    <2>4. tab' = [tab EXCEPT ![t] = s]
      BY <1>1 DEF ReceiveLogin, SessionsInv, SessionTypeOK
    <2> HIDE DEF s
    <2>5. out' = FALSE /\ excused' \subseteq Tab /\ overtaken' \subseteq Tab
      BY <1>1 DEF ReceiveLogin, SessionsInv, SessionTypeOK
    <2> QED BY <2>1, <2>3, <2>4, <2>5, CookiesInv DEF ReceiveLogin
  <1>2. CASE ~Ok(t)
    <2>1. tab' = [tab EXCEPT ![t] = LoginPage] /\ LoginPage.pc = "idle"
      BY <1>2 DEF ReceiveLogin, LoginPage
    <2> QED BY <1>2, <2>1, Records, OneTab DEF ReceiveLogin, SessionsInv, SessionTypeOK
  <1> QED BY <1>1, <1>2

\* A logout leaves what the invariant says.
LEMMA SignedOutInv ==
  ASSUME SessionsInv, NEW t \in Tab, ReceiveLogout(t)
  PROVE  SessionsInv'
  <1>1. CASE Ok(t)
    <2> DEFINE leaver == [tab[t] EXCEPT !.leaving = TRUE]
               s == Calling(leaver, "me", jar'["access"])
    <2>1. jar' = Cleared /\ jar' \in [Kind -> Cookie] /\ jar'["access"] \in Cookie
      BY <1>1, Records DEF ReceiveLogout, Cleared, SessionsInv, SessionTypeOK, Kind
    <2>2. leaver \in TabState
      BY DEF SessionsInv, SessionTypeOK, TabState
    <2>3. s \in TabState /\ s.pc = "me"
      <3> HIDE DEF leaver
      <3> QED BY <2>1, <2>2, Calls
    <2>4. tab' = [tab EXCEPT ![t] = s]
      BY <1>1 DEF ReceiveLogout, SessionsInv, SessionTypeOK
    <2> HIDE DEF s
    <2>5. SessionTypeOK'
      BY <1>1, <2>1, <2>3, <2>4 DEF ReceiveLogout, SessionsInv, SessionTypeOK
    <2>6. LogoutLasts'
      BY <1>1, <2>1 DEF ReceiveLogout, Cleared, LogoutLasts
    <2>7. \A r \in Tab : Ended(r)'
      BY <1>1, <2>3, <2>4 DEF ReceiveLogout, Ended, SessionsInv, SessionTypeOK
    <2> QED BY <2>5, <2>6, <2>7 DEF SessionsInv
  <1>2. CASE ~Ok(t)
    <2> DEFINE s == Calling(tab[t], "idle", NoCookie)
    <2>1. s \in TabState /\ s.pc = "idle"
      BY Records, CallType DEF SessionsInv, SessionTypeOK
    <2>2. tab' = [tab EXCEPT ![t] = s]
      BY <1>2 DEF ReceiveLogout, SessionsInv, SessionTypeOK
    <2> HIDE DEF s
    <2> QED BY <1>2, <2>1, <2>2, OneTab DEF ReceiveLogout, SessionsInv, SessionTypeOK
  <1> QED BY <1>1, <1>2

LEMMA TickInv ==
  ASSUME SessionsInv, Tick
  PROVE  SessionsInv'
  <1>1. SessionTypeOK'
    BY Records DEF Tick, SessionsInv, SessionTypeOK
  <1>2. LogoutLasts'
    BY DEF Tick, SessionsInv, SessionTypeOK, LogoutLasts, EmptyJar, NoCookie
  <1>3. \A t \in Tab : Ended(t)'
    BY DEF Tick, SessionsInv, Ended
  <1> QED BY <1>1, <1>2, <1>3 DEF SessionsInv

LEMMA StepInv == SessionsInv /\ [SessionNext]_sessionVars => SessionsInv'
  <1> SUFFICES ASSUME SessionsInv, [SessionNext]_sessionVars PROVE SessionsInv'
    OBVIOUS
  <1>1. CASE UNCHANGED sessionVars
    BY <1>1 DEF sessionVars, SessionsInv, SessionTypeOK, LogoutLasts, Ended
  <1>2. CASE SessionNext
    BY <1>2, VisitInv, LoginInv, LogoutInv, HandleInv, MeInv, RefreshInv, SignedInInv,
       SignedOutInv, TickInv DEF SessionNext
  <1> QED BY <1>1, <1>2

\* The inductive invariant: types, and what a logout leaves in the jar and in calls.
THEOREM SessionsInvariant == SessionSpec => []SessionsInv
  BY InitInv, StepInv, PTL DEF SessionSpec

\* Once a logout has taken effect on cookies of one host (routers/auth.py), none come
\* back until somebody signs in or a refresh arrives that had been sent before.
THEOREM LoggedOut == SessionSpec => []LogoutLasts
  <1>1. SessionsInv => LogoutLasts
    BY DEF SessionsInv
  <1> QED BY <1>1, SessionsInvariant, PTL

-----------------------------------------------------------------------------
(* RefreshKeepsSession: a search with a live refresh token finds its session. *)

Named(cookie) == cookie = NoCookie \/ cookie.user \in User

\* What a tab in state s, that is excused or not, may count on.
Searching(s, ex) ==
  /\ s.pc \in {"me", "refresh", "meAgain"} => Named(s.sent)
  /\ s.pc = "login" => s.sent.user \in User
  /\ s.pc \in {"me", "refresh", "meAgain", "login"} /\ s.answer.status = "ok" =>
       s.answer.user \in User
  /\ ~ex /\ s.pc = "refresh" =>
       /\ s.answer.status = "none" => s.sent # NoCookie /\ clock < s.sent.at + RefreshTtl
       /\ s.answer.status = "ok" => clock < s.answer.at + AccessTtl
       /\ s.answer.status # "401"
  /\ ~ex /\ s.pc = "meAgain" =>
       /\ s.answer.status = "none" => s.sent # NoCookie /\ clock < s.sent.at + AccessTtl
       /\ s.answer.status # "401"

SearchInv ==
  /\ SessionTypeOK
  /\ \A k \in Kind : Named(jar[k])
  /\ \A t \in Tab : Searching(tab[t], t \in excused)

LEMMA OneSearch ==
  ASSUME SearchInv, SessionTypeOK', NEW t \in Tab, NEW s, tab' = [tab EXCEPT ![t] = s],
         clock' = clock, \A r \in Tab \ {t} : r \in excused' <=> r \in excused,
         Searching(s, t \in excused'), \A k \in Kind : Named(jar'[k])
  PROVE  SearchInv'
  <1>1. ASSUME NEW r \in Tab PROVE Searching(tab[r], r \in excused)'
    <2>1. CASE r = t
      BY <2>1 DEF SearchInv, SessionTypeOK, Searching, Named
    <2>2. CASE r # t
      <3>1. tab'[r] = tab[r] /\ (r \in excused' <=> r \in excused)
        BY <2>2 DEF SearchInv, SessionTypeOK
      <3> QED BY <3>1 DEF SearchInv, Searching, Named
    <2> QED BY <2>1, <2>2
  <1> QED BY <1>1 DEF SearchInv, Named

LEMMA SearchInit == SessionInit => SearchInv
  BY Records DEF SessionInit, SearchInv, SessionTypeOK, Searching, Named, LoginPage, EmptyJar

\* The steps that start a call or end one.
LEMMA SearchStarts ==
  ASSUME SearchInv, SessionTypeOK', NEW t \in Tab,
         \/ \E page \in {"dashboard", "invite"} : Visit(t, page)
         \/ \E u \in User : Login(t, u)
         \/ Logout(t)
  PROVE  SearchInv'
  <1>1. Named(jar["access"]) /\ \A k \in Kind : Named(jar[k])
    BY DEF SearchInv, Kind
  <1>2. ASSUME NEW page \in {"dashboard", "invite"}, Visit(t, page) PROVE SearchInv'
    <2> DEFINE s == IF page = "dashboard" /\ jar["access"] = NoCookie THEN LoginPage
                    ELSE Calling([LoginPage EXCEPT !.route = page], "me", jar["access"])
    <2>1. Searching(s, t \in excused')
      BY <1>1 DEF Searching, Calling, LoginPage, NoAnswer
    <2>2. tab' = [tab EXCEPT ![t] = s]
      BY <1>2 DEF Visit
    <2> HIDE DEF s
    <2> QED BY <1>1, <1>2, <2>1, <2>2, OneSearch DEF Visit
  <1>3. ASSUME NEW u \in User, Login(t, u) PROVE SearchInv'
    <2> DEFINE s == Calling(tab[t], "login", [NoCookie EXCEPT !.user = u])
    <2>1. Searching(s, t \in excused')
      BY DEF SearchInv, SessionTypeOK, TabState, Searching, Calling, NoAnswer, NoCookie
    <2>2. tab' = [tab EXCEPT ![t] = s]
      BY <1>3 DEF Login, SearchInv, SessionTypeOK
    <2> HIDE DEF s
    <2> QED BY <1>1, <1>3, <2>1, <2>2, OneSearch DEF Login
  <1>4. ASSUME Logout(t) PROVE SearchInv'
    <2> DEFINE s == Calling(tab[t], "logout", NoCookie)
    <2>1. Searching(s, t \in excused')
      BY DEF SearchInv, SessionTypeOK, TabState, Searching, Calling, NoAnswer, NoCookie
    <2>2. tab' = [tab EXCEPT ![t] = s]
      BY <1>4 DEF Logout, SearchInv, SessionTypeOK
    <2> HIDE DEF s
    <2> QED BY <1>1, <1>4, <2>1, <2>2, OneSearch DEF Logout
  <1> QED BY <1>2, <1>3, <1>4

\* The API accepts a token that is alive, and makes one that is.
LEMMA SearchHandled ==
  ASSUME SearchInv, SessionTypeOK', NEW t \in Tab, Handle(t)
  PROVE  SearchInv'
  <1>1. PICK status \in {"ok", "401", "error"}, u \in User \cup {NoUser} :
          /\ Says(t, status, u)
          /\ Resolving(t) /\ status = "ok" =>
               u = tab[t].sent.user /\ tab[t].sent # NoCookie
          /\ tab[t].pc = "login" /\ status = "ok" => u = tab[t].sent.user
          /\ tab[t].pc = "refresh" /\ status = "401" => ~Accepts(tab[t].sent, "refresh")
          /\ tab[t].pc = "meAgain" /\ status = "401" => ~Accepts(tab[t].sent, "access")
    BY DEF Handle, SearchInv, SessionTypeOK, TabState, Cookie, Resolving, Accepts
  <1> DEFINE s == [tab[t] EXCEPT !.answer = [status |-> status, user |-> u, at |-> clock]]
  <1>2. /\ s.pc = tab[t].pc /\ s.sent = tab[t].sent
        /\ s.answer = [status |-> status, user |-> u, at |-> clock]
        /\ tab[t].answer.status = "none" /\ (t \in excused' <=> t \in excused)
    BY DEF SearchInv, SessionTypeOK, TabState, Handle
  <1>3. tab' = [tab EXCEPT ![t] = s]
    BY <1>1 DEF Says, SearchInv, SessionTypeOK, TabState
  <1> HIDE DEF s
  <1>4. Searching(tab[t], t \in excused) /\ clock \in Nat /\ AccessTtl \in Nat \ {0}
    BY DEF SearchInv, SessionTypeOK
  <1>5. Searching(s, t \in excused')
    BY <1>1, <1>2, <1>4 DEF Searching, Accepts, Lifetime, Named, Resolving
  <1>6. \A k \in Kind : Named(jar'[k])
    BY DEF Handle, SearchInv
  <1> QED BY <1>3, <1>5, <1>6, OneSearch DEF Handle

\* A search that is over searches nothing.
LEMMA SearchSettled ==
  ASSUME SearchInv, SessionTypeOK', NEW t \in Tab, NEW u \in User \cup {NoUser}, Settle(t, u),
         clock' = clock, jar' = jar, \A r \in Tab \ {t} : r \in excused' <=> r \in excused
  PROVE  SearchInv'
  <1>1. PICK s \in TabState : tab' = [tab EXCEPT ![t] = s] /\ s.pc = "idle"
    BY SettleType DEF SearchInv
  <1>2. Searching(s, t \in excused')
    BY <1>1 DEF Searching
  <1> QED BY <1>1, <1>2, OneSearch DEF SearchInv

LEMMA SearchMe ==
  ASSUME SearchInv, SessionTypeOK', NEW t \in Tab, ReceiveMe(t)
  PROVE  SearchInv'
  <1>1. CASE tab[t].pc = "me" /\ tab[t].answer.status = "401"
    <2> DEFINE s == Calling(tab[t], "refresh", jar["refresh"])
    <2>1. Named(jar["refresh"]) /\ (t \notin excused' => Alive(jar["refresh"]))
      BY <1>1 DEF ReceiveMe, SearchInv, Kind
    <2>2. /\ s.pc = "refresh" /\ s.sent = jar["refresh"] /\ s.answer = NoAnswer
      BY DEF SearchInv, SessionTypeOK, TabState, Calling
    <2>3. tab' = [tab EXCEPT ![t] = s]
      BY <1>1 DEF ReceiveMe, SearchInv, SessionTypeOK
    <2> HIDE DEF s
    <2>4. Searching(s, t \in excused')
      BY <2>1, <2>2 DEF Searching, NoAnswer, Alive
    <2>5. \A r \in Tab \ {t} : r \in excused' <=> r \in excused
      BY <1>1 DEF ReceiveMe
    <2> QED BY <2>3, <2>4, <2>5, OneSearch DEF ReceiveMe, SearchInv
  <1>2. CASE ~(tab[t].pc = "me" /\ tab[t].answer.status = "401")
    <2>1. Settle(t, tab[t].answer.user) /\ tab[t].answer.user \in User \cup {NoUser}
      BY <1>2 DEF ReceiveMe, SearchInv, SessionTypeOK, TabState, Answer
    <2>2. \A r \in Tab \ {t} : r \in excused' <=> r \in excused
      BY <1>2 DEF ReceiveMe, Failed
    <2> QED BY <2>1, <2>2, SearchSettled DEF ReceiveMe
  <1> QED BY <1>1, <1>2

\* New cookies are those of a user.
LEMMA StoredNamed ==
  ASSUME SearchInv, NEW t \in Tab, tab[t].pc \in {"refresh", "login"}, Ok(t)
  PROVE  \A k \in Kind : Named(Stored(tab[t].answer)[k])
  BY DEF SearchInv, Searching, Ok, Stored, Named, Kind

LEMMA SearchRefresh ==
  ASSUME SearchInv, SessionTypeOK', NEW t \in Tab, ReceiveRefresh(t)
  PROVE  SearchInv'
  <1>1. CASE Ok(t)
    <2> DEFINE s == Calling(tab[t], "meAgain", jar'["access"])
    <2>1. jar' = Stored(tab[t].answer) /\ \A k \in Kind : Named(jar'[k])
      BY <1>1, StoredNamed DEF ReceiveRefresh, Answered
    <2>2. /\ s.pc = "meAgain" /\ s.sent = jar'["access"] /\ s.answer = NoAnswer
      BY DEF SearchInv, SessionTypeOK, TabState, Calling
    <2>3. tab' = [tab EXCEPT ![t] = s]
      BY <1>1 DEF ReceiveRefresh, SearchInv, SessionTypeOK
    <2>4. jar'["access"].at = tab[t].answer.at /\ jar'["access"].user = tab[t].answer.user
      BY <2>1 DEF Stored, Kind
    <2>5. /\ tab[t].answer.user \in User /\ excused' = excused
          /\ t \notin excused => clock < tab[t].answer.at + AccessTtl
      BY <1>1 DEF SearchInv, Searching, Ok, ReceiveRefresh, Answered
    <2>6. Named(jar'["access"]) /\ jar'["access"] # NoCookie
      BY <2>1, <2>4, <2>5 DEF Kind, NoCookie
    <2> HIDE DEF s
    <2>7. Searching(s, t \in excused')
      BY <2>2, <2>4, <2>5, <2>6 DEF Searching, NoAnswer
    <2> QED BY <2>1, <2>3, <2>5, <2>7, OneSearch DEF ReceiveRefresh
  <1>2. CASE ~Ok(t)
    <2>1. \A r \in Tab \ {t} : r \in excused' <=> r \in excused
      BY <1>2 DEF ReceiveRefresh, Failed
    <2> QED BY <1>2, <2>1, SearchSettled DEF ReceiveRefresh
  <1> QED BY <1>1, <1>2

LEMMA SearchSignedIn ==
  ASSUME SearchInv, SessionTypeOK', NEW t \in Tab, ReceiveLogin(t)
  PROVE  SearchInv'
  <1>1. CASE Ok(t)
    <2> DEFINE s == Calling([LoginPage EXCEPT !.route = "dashboard"], "me", jar'["access"])
    <2>1. jar' = Stored(tab[t].answer) /\ \A k \in Kind : Named(jar'[k])
      BY <1>1, StoredNamed DEF ReceiveLogin, Answered
    <2>2. /\ s.pc = "me" /\ s.sent = jar'["access"] /\ s.answer = NoAnswer
      BY DEF LoginPage, Calling
    <2>3. tab' = [tab EXCEPT ![t] = s]
      BY <1>1 DEF ReceiveLogin, SearchInv, SessionTypeOK
    <2> HIDE DEF s
    <2>4. Searching(s, t \in excused')
      BY <2>1, <2>2 DEF Searching, NoAnswer, Kind
    <2> QED BY <1>1, <2>1, <2>3, <2>4, OneSearch DEF ReceiveLogin
  <1>2. CASE ~Ok(t)
    <2>1. Searching(LoginPage, t \in excused')
      BY DEF Searching, LoginPage, NoAnswer
    <2> QED BY <1>2, <2>1, OneSearch DEF ReceiveLogin, SearchInv
  <1> QED BY <1>1, <1>2

LEMMA SearchSignedOut ==
  ASSUME SearchInv, SessionTypeOK', NEW t \in Tab, ReceiveLogout(t)
  PROVE  SearchInv'
  <1>1. CASE Ok(t)
    <2> DEFINE s == Calling([tab[t] EXCEPT !.leaving = TRUE], "me", jar'["access"])
    <2>1. \A k \in Kind : Named(jar'[k])
      BY <1>1 DEF ReceiveLogout, Cleared, EmptyJar, Named, SearchInv
    <2>2. /\ s.pc = "me" /\ s.sent = jar'["access"] /\ s.answer = NoAnswer
      BY DEF SearchInv, SessionTypeOK, TabState, Calling
    <2>3. tab' = [tab EXCEPT ![t] = s]
      BY <1>1 DEF ReceiveLogout, SearchInv, SessionTypeOK
    <2> HIDE DEF s
    <2>4. Searching(s, t \in excused')
      BY <2>1, <2>2 DEF Searching, NoAnswer, Kind
    <2> QED BY <1>1, <2>1, <2>3, <2>4, OneSearch DEF ReceiveLogout
  <1>2. CASE ~Ok(t)
    <2> DEFINE s == Calling(tab[t], "idle", NoCookie)
    <2>1. Searching(s, t \in excused')
      BY DEF SearchInv, SessionTypeOK, TabState, Searching, Calling
    <2>2. tab' = [tab EXCEPT ![t] = s]
      BY <1>2 DEF ReceiveLogout, SearchInv, SessionTypeOK
    <2> HIDE DEF s
    <2> QED BY <1>2, <2>1, <2>2, OneSearch DEF ReceiveLogout, SearchInv
  <1> QED BY <1>1, <1>2

\* The searches whose token dies are excused.
LEMMA SearchTick ==
  ASSUME SearchInv, SessionTypeOK', Tick
  PROVE  SearchInv'
  <1>1. \A k \in Kind : Named(jar'[k])
    BY DEF Tick, SearchInv, Named
  <1>2. ASSUME NEW t \in Tab PROVE Searching(tab[t], t \in excused)'
    <2>1. /\ Searching(tab[t], t \in excused)
          /\ tab[t].sent.at \in Nat /\ tab[t].answer.at \in Nat /\ clock \in Nat
          /\ AccessTtl \in Nat /\ RefreshTtl \in Nat
      BY DEF SearchInv, SessionTypeOK, TabState, Cookie, Answer, Time
    <2>2. t \notin excused' => t \notin excused /\ ~DiesOnTheWay(t)
      BY DEF Tick
    <2>3. tab' = tab /\ clock' = clock + 1
      BY DEF Tick
    <2> QED BY <2>1, <2>2, <2>3 DEF Searching, DiesOnTheWay, Ok, Named
  <1> QED BY <1>1, <1>2 DEF SearchInv, Named

LEMMA SearchStep == SearchInv /\ SessionTypeOK' /\ [SessionNext]_sessionVars => SearchInv'
  <1> SUFFICES ASSUME SearchInv, SessionTypeOK', [SessionNext]_sessionVars PROVE SearchInv'
    OBVIOUS
  <1>1. CASE UNCHANGED sessionVars
    BY <1>1 DEF sessionVars, SearchInv, SessionTypeOK, Searching, Named
  <1>2. CASE SessionNext
    BY <1>2, SearchStarts, SearchHandled, SearchMe, SearchRefresh, SearchSignedIn,
       SearchSignedOut, SearchTick DEF SessionNext
  <1> QED BY <1>1, <1>2

LEMMA SearchInvariant == SessionSpec => []SearchInv
  <1>1. SessionsInv => SessionTypeOK
    BY DEF SessionsInv
  <1> QED BY <1>1, SessionsInvariant, SearchInit, SearchStep, PTL DEF SessionSpec

LEMMA GivingUp ==
  ASSUME SearchInv, NEW t \in Tab, GivesUp(t)
  PROVE  t \in excused'
  <1>1. CASE ReceiveMe(t)
    <2>1. ~(tab[t].pc = "me" /\ tab[t].answer.status = "401")
      <3> SUFFICES ASSUME tab[t].pc = "me", tab[t].answer.status = "401" PROVE FALSE
        OBVIOUS
      <3>1. tab'[t] = Calling(tab[t], "refresh", jar["refresh"])
        BY <1>1 DEF ReceiveMe, SearchInv, SessionTypeOK
      <3> QED BY <3>1 DEF GivesUp, Calling, SearchInv, SessionTypeOK, TabState
    <2>2. excused' = excused \cup Failed(t)
      BY <1>1, <2>1 DEF ReceiveMe
    <2>3. tab[t].pc \in {"me", "meAgain"} /\ tab[t].answer.status \in {"ok", "401", "error"}
      BY <1>1 DEF ReceiveMe, Answered, SearchInv, SessionTypeOK, TabState, Answer
    <2>4. tab[t].answer.status # "ok"
      BY <2>3 DEF GivesUp, SearchInv, Searching
    <2> QED BY <2>1, <2>2, <2>3, <2>4 DEF SearchInv, Searching, Failed
  <1>2. CASE ReceiveRefresh(t)
    <2>1. ~Ok(t)
      <3> SUFFICES ASSUME Ok(t) PROVE FALSE
        OBVIOUS
      <3>1. tab'[t] = Calling(tab[t], "meAgain", jar'["access"])
        BY <1>2 DEF ReceiveRefresh, SearchInv, SessionTypeOK
      <3> QED BY <3>1 DEF GivesUp, Calling, SearchInv, SessionTypeOK, TabState
    <2>2. excused' = excused \cup Failed(t) /\ tab[t].pc = "refresh"
      BY <1>2, <2>1 DEF ReceiveRefresh, Answered
    <2>3. tab[t].answer.status \in {"401", "error"}
      BY <1>2, <2>1 DEF ReceiveRefresh, Answered, Ok, SearchInv, SessionTypeOK, TabState, Answer
    <2> QED BY <2>2, <2>3 DEF SearchInv, Searching, Failed
  <1> QED BY <1>1, <1>2 DEF GivesUp

\* A tab whose access token has expired (lib/session.ts) finds its session again by the
\* refresh token, whatever the other tabs do meanwhile.
THEOREM SessionKept == SessionSpec => RefreshKeepsSession
  <1>1. SearchInv /\ [SessionNext]_sessionVars => [\A t \in Tab : GivesUp(t) => t \in excused']_sessionVars
    BY GivingUp
  <1> QED BY <1>1, SearchInvariant, PTL DEF SessionSpec, RefreshKeepsSession

=============================================================================
