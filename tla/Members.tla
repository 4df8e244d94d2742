------------------------------ MODULE Members ------------------------------
(***************************************************************************)
(* The members of one organization and its invitations                     *)
(* (routers/members.py, services/members.py, core/deps.py), with several   *)
(* requests in flight.  A request authenticates first and acts on the role *)
(* it found then; it reads the membership or invitation it is about, may   *)
(* count the owners, and commits, each a step of its own because Postgres  *)
(* runs at READ COMMITTED and nothing is locked.                           *)
(*                                                                         *)
(* The invitation that request r creates is inv[r]; the membership row it  *)
(* creates has the identity r.  A commit also adds one row to the audit    *)
(* log, in the same transaction: it stands for r being "done" or "joined". *)
(***************************************************************************)
EXTENDS Accounts, Naturals, FiniteSets

CONSTANTS Founder, Request, NoRequest,
          Signup            \* identity of the rows there were at the start

ASSUME MembersAssumption ==
  /\ Founder \in User /\ IsFiniteSet(User)
  /\ Signup \notin Request /\ NoRequest \notin Request

VARIABLES member,  \* each user's membership row
          inv,     \* the invitation each request created
          req      \* the coroutine of each request

vars == <<member, inv, req>>

Rank == [none |-> 0, viewer |-> 1, agent |-> 2, admin |-> 3, owner |-> 4]
Role == DOMAIN Rank \ {"none"}

NonMember == [role |-> "none", row |-> Signup]
Membership == [role : Role, row : Request \cup {Signup}] \cup {NonMember}
Invitation == [state : {"absent", "pending", "accepted", "expired", "revoked"},
               role : Role \cup {"none"}]
Coroutine ==
  [pc : {"idle", "authenticated", "loaded", "cleared", "revoking", "accepting",
         "done", "joined", "refused"},
   caller : User \cup {NoUser}, as : Role \cup {"none"},
   target : User \cup {NoUser}, row : Request \cup {Signup},
   saw : Role \cup {"none"}, new : Role \cup {"none"},
   owners : SUBSET User, invite : Request \cup {NoRequest}]

Idle == [pc |-> "idle", caller |-> NoUser, as |-> "none", target |-> NoUser,
         row |-> Signup, saw |-> "none", new |-> "none", owners |-> {},
         invite |-> NoRequest]

IsMember(u) == member[u].role # "none"
Owners == {u \in User : member[u].role = "owner"}

\* The organization as its founder left it: whoever else joined since is not
\* an owner.
Init ==
  /\ member \in [User -> [role : Role \cup {"none"}, row : {Signup}]]
  /\ Owners = {Founder}
  /\ inv = [r \in Request |-> [state |-> "absent", role |-> "none"]]
  /\ req = [r \in Request |-> Idle]

-----------------------------------------------------------------------------
(* core/deps.py: the caller and the role of that moment.                    *)

Authenticate(r, u) ==
  /\ req[r].pc = "idle"
  /\ req' = [req EXCEPT ![r].pc = "authenticated", ![r].caller = u,
                        ![r].as = member[u].role]
  /\ UNCHANGED <<member, inv>>

IsAdmin(r) == Rank[req[r].as] >= Rank["admin"]

\* Fault: an admin manages up to the admin's own rank and beyond.
ManagesAll(as, role) == TRUE

\* _require_manages.
Manages(as, role) == as = "owner" \/ Rank[as] > Rank[role]

End(r, p) == req' = [req EXCEPT ![r].pc = p]

-----------------------------------------------------------------------------
(* change_member_role, and remove_member where the new role is "none".      *)

TakesAnOwner(saw, new) == saw = "owner" /\ new # "owner"

LoadTarget(r, u, new) ==
  /\ req[r].pc = "authenticated" /\ IsAdmin(r) /\ IsMember(u)
  /\ \/ Manages(req[r].as, member[u].role)
     \/ new = "none" /\ u = req[r].caller
  /\ new # "none" => Manages(req[r].as, new)
  /\ req' = [req EXCEPT ![r].target = u, ![r].row = member[u].row,
                        ![r].saw = member[u].role, ![r].new = new,
                        ![r].pc = IF TakesAnOwner(member[u].role, new)
                                  THEN "loaded" ELSE "cleared"]
  /\ UNCHANGED <<member, inv>>

\* Fault: off by one.
OwnersSufficeLoosely(n) == n >= 1

OwnersSuffice(n) == n > 1

CountOwners(r) ==
  /\ req[r].pc = "loaded"
  /\ IF OwnersSuffice(Cardinality(Owners))
     THEN req' = [req EXCEPT ![r].pc = "cleared", ![r].owners = Owners]
     ELSE End(r, "refused")
  /\ UNCHANGED <<member, inv>>

\* Fault: the statement addresses the user's membership, not the row.
RowIsThereForUser(r) == IsMember(req[r].target)

\* UPDATE and DELETE address the row by its primary key.
RowIsThere(r) == IsMember(req[r].target) /\ member[req[r].target].row = req[r].row

Removed(m) == NonMember

\* No UPDATE is emitted for a role set to the one that was read; an UPDATE that
\* finds no row raises, a DELETE that finds none does not.
CommitTarget(r) ==
  /\ req[r].pc = "cleared"
  /\ LET u == req[r].target
         new == req[r].new
     IN \/ /\ RowIsThere(r) /\ new # req[r].saw
           /\ member' = [member EXCEPT ![u] =
                IF new = "none" THEN Removed(@) ELSE [@ EXCEPT !.role = new]]
           /\ End(r, "done")
        \/ /\ new = req[r].saw \/ (new = "none" /\ ~RowIsThere(r))
           /\ End(r, "done") /\ UNCHANGED member
        \/ /\ new \notin {"none", req[r].saw} /\ ~RowIsThere(r)
           /\ End(r, "refused") /\ UNCHANGED member
  /\ UNCHANGED inv

-----------------------------------------------------------------------------
(* Invitations.                                                             *)

CreateInvite(r, role) ==
  /\ req[r].pc = "authenticated" /\ IsAdmin(r) /\ Manages(req[r].as, role)
  /\ inv' = [inv EXCEPT ![r] = [state |-> "pending", role |-> role]]
  /\ End(r, "done")
  /\ UNCHANGED member

RevokeRead(r, i) ==
  /\ req[r].pc = "authenticated" /\ IsAdmin(r) /\ inv[i].state = "pending"
  /\ req' = [req EXCEPT ![r].pc = "revoking", ![r].invite = i]
  /\ UNCHANGED <<member, inv>>

\* The row is deleted, also if it has been accepted since.
RevokeCommit(r) ==
  /\ req[r].pc = "revoking" /\ End(r, "done")
  /\ inv' = [inv EXCEPT ![req[r].invite].state = "revoked"]
  /\ UNCHANGED member

\* resolve_invitation and get_membership, for a user who is logged in or is
\* just signing up (services/auth.py).
AcceptRead(r, i) ==
  /\ req[r].pc = "authenticated" /\ inv[i].state = "pending" /\ ~IsMember(req[r].caller)
  /\ req' = [req EXCEPT ![r].pc = "accepting", ![r].invite = i]
  /\ UNCHANGED <<member, inv>>

InvitationIsThere(i) == inv[i].state # "revoked"

\* Fault: accepted_at is not written.
AcceptedNever(i) == i

Accepted(i) == [i EXCEPT !.state = "accepted"]

\* The INSERT is subject to uq_memberships_org_user, and the UPDATE of
\* accepted_at raises if the row is gone.
AcceptCommit(r) ==
  /\ req[r].pc = "accepting"
  /\ LET u == req[r].caller
         i == req[r].invite
     IN IF ~IsMember(u) /\ InvitationIsThere(i)
        THEN /\ member' = [member EXCEPT ![u] = [role |-> inv[i].role, row |-> r]]
             /\ inv' = [inv EXCEPT ![i] = Accepted(@)]
             /\ End(r, "joined")
        ELSE End(r, "refused") /\ UNCHANGED <<member, inv>>

\* INVITE_TTL_DAYS pass.
Expire(i) ==
  /\ inv[i].state = "pending"
  /\ inv' = [inv EXCEPT ![i].state = "expired"]
  /\ UNCHANGED <<member, req>>

-----------------------------------------------------------------------------
Next == \E r \in Request :
  \/ \E u \in User : Authenticate(r, u)
  \/ \E u \in User, new \in Role \cup {"none"} : LoadTarget(r, u, new)
  \/ CountOwners(r) \/ CommitTarget(r)
  \/ \E role \in Role : CreateInvite(r, role)
  \/ \E i \in Request : RevokeRead(r, i) \/ AcceptRead(r, i)
  \/ RevokeCommit(r) \/ AcceptCommit(r) \/ Expire(r)

Spec == Init /\ [][Next]_vars

-----------------------------------------------------------------------------
(* Correctness.                                                             *)

TypeOK ==
  /\ member \in [User -> Membership] /\ inv \in [Request -> Invitation]
  /\ req \in [Request -> Coroutine]

\* Ownership comes from an owner: whoever owns the organization besides the
\* founder was promoted by a request that an owner made, or joined by an
\* invitation that an owner wrote, however stale that request's view was.
Appointed(u, r) ==
  req[r].as = "owner" /\
  \/ req[r].pc = "done" /\ req[r].target = u /\ req[r].new = "owner"
  \/ /\ inv[r].role = "owner"
     /\ \E s \in Request : req[s].pc = "joined" /\ req[s].caller = u /\ req[s].invite = r
OwnersAreAppointed ==
  \A u \in Owners \ {Founder} : \E r \in Request : Appointed(u, r)

\* The organization loses its last owner only to a race: to a request that saw
\* other owners than there are now, or a target that was no owner then.
LastOwnerFallsToARace == [][
  Owners # {} /\ Owners' = {} =>
    \E r \in Request : /\ req[r].pc = "cleared" /\ req'[r].pc = "done"
                       /\ req[r].saw # "owner" \/ req[r].owners # Owners]_vars

\* Removing or changing a member never hits the membership the user got after
\* the request looked: a user who was removed and invited again stays in.
ChangesHitTheRowTheyChecked == [][
  \A u \in User : IsMember(u) /\ member'[u] # member[u] =>
    \E r \in Request : req[r].pc = "cleared" /\ req[r].target = u
                       /\ req[r].row = member[u].row]_vars

\* An invitation closes: nobody starts to accept one that somebody has joined by, and
\* nobody joins by one whose revocation has been committed, also if the link was
\* opened before.
JoinedBy(i) == {s \in Request : req[s].pc = "joined" /\ req[s].invite = i}
InvitationsClose == [][
  \A r \in Request :
    /\ req[r].pc # "accepting" /\ req'[r].pc = "accepting" => JoinedBy(req'[r].invite) = {}
    /\ req[r].pc # "joined" /\ req'[r].pc = "joined" => inv[req[r].invite].state # "revoked"]_vars
=============================================================================
