------------------------------- MODULE RoleMirror -------------------------------
(***************************************************************************)
(* The roles of one account: what the identity provider holds, what the    *)
(* token of the person says, and the mirror in the platform's own row.     *)
(* Administrators override the roles through the provider's admin          *)
(* interface, which is several calls; every request of the person writes   *)
(* what its token says.                                                    *)
(***************************************************************************)
EXTENDS Integers, FiniteSets

CONSTANTS
    Roles,       \* the roles of this platform
    Foreign,     \* realm roles the provider keeps for itself
    FirstRoles,  \* what the provider holds at first
    Admins,
    Requests,    \* requests of the person at a time
    MaxChanges,  \* overrides
    MaxFaults    \* calls that fail

MirrorBounds ==
    /\ Roles \cap Foreign = {} /\ FirstRoles \subseteq Roles \cup Foreign
    /\ {MaxChanges, MaxFaults} \subseteq Nat

VARIABLES
    realm,    \* the provider's mapping of the account
    ever,     \* every role the provider ever mapped
    token,    \* roles in the token the person holds
    row,      \* the account's row: whether it is there, and its roles
    work,     \* administrator -> the override being served
    request,  \* request -> what it has read
    changes,
    slips

mvars == <<realm, ever, token, row, work, request, changes, slips>>

NoWork == [at |-> "idle"]

Init ==
    /\ realm = FirstRoles /\ ever = FirstRoles
    /\ token = FirstRoles \cap Roles
    /\ row = [there |-> FALSE, roles |-> {}]
    /\ work = [a \in Admins |-> NoWork]
    /\ request = [q \in Requests |-> NoWork]
    /\ changes = 0 /\ slips = 0

Slip == slips < MaxFaults /\ slips' = slips + 1
Go(a, at) == work' = [work EXCEPT ![a].at = at]

\* The session is rolled back and the refusal alone recorded.
Refuse(a) == work' = [work EXCEPT ![a] = NoWork]

Map(roles) == realm' = roles /\ ever' = ever \cup roles

-----------------------------------------------------------------------------
\* PATCH /admin/users: the roles wanted are roles of the platform, at least one.
Ask(a, wanted) ==
    /\ row.there /\ work[a] = NoWork /\ changes < MaxChanges
    /\ wanted # {}
    /\ work' = [work EXCEPT ![a] =
                [at |-> "looking", wanted |-> wanted, previous |-> row.roles, held |-> {}]]
    /\ changes' = changes + 1
    /\ UNCHANGED <<realm, ever, token, row, request, slips>>

\* find_user_id and current_platform_roles.
Look(a) ==
    /\ work[a].at = "looking"
    /\ \/ /\ work' = [work EXCEPT ![a] = [work[a] EXCEPT !.at = "adding", !.held = realm \cap Roles]]
          /\ UNCHANGED slips
       \/ Slip /\ Refuse(a)
    /\ UNCHANGED <<realm, ever, token, row, request, changes>>

\* One write of the mapping: it goes through, it fails, or it goes through and
\* the answer is lost.
Apply(a, roles, at) ==
    /\ \/ Map(roles) /\ Go(a, at) /\ UNCHANGED slips
       \/ Map(roles) /\ Slip /\ Refuse(a)
       \/ Slip /\ Refuse(a) /\ UNCHANGED <<realm, ever>>
    /\ UNCHANGED <<token, row, request, changes>>

Skip(a, at) == Go(a, at) /\ UNCHANGED <<realm, ever, token, row, request, changes, slips>>

Add(a) ==
    LET missing == work[a].wanted \ work[a].held IN
    /\ work[a].at = "adding"
    /\ IF missing = {} THEN Skip(a, "removing") ELSE Apply(a, realm \cup missing, "removing")

\* Mutant: the whole mapping is replaced.
ReplaceMapping(a) ==
    LET extra == work[a].held \ work[a].wanted IN
    /\ work[a].at = "removing"
    /\ IF extra = {} THEN Skip(a, "mirroring") ELSE Apply(a, work[a].wanted, "mirroring")

Remove(a) ==
    LET extra == work[a].held \ work[a].wanted IN
    /\ work[a].at = "removing"
    /\ IF extra = {} THEN Skip(a, "mirroring") ELSE Apply(a, realm \ extra, "mirroring")

\* Only now is the mirror written, where it differs from what was read.
Mirror(a) ==
    /\ work[a].at = "mirroring"
    /\ row' = IF work[a].wanted = work[a].previous THEN row
              ELSE [row EXCEPT !.roles = work[a].wanted]
    /\ Refuse(a)
    /\ UNCHANGED <<realm, ever, token, request, changes, slips>>

-----------------------------------------------------------------------------
SignIn ==
    /\ token' = realm \cap Roles
    /\ UNCHANGED <<realm, ever, row, work, request, changes, slips>>

\* Every request finds the account by its token,
Find(q) ==
    /\ request[q] = NoWork
    /\ request' = [request EXCEPT ![q] =
                    [at |-> IF row.there THEN "updating" ELSE "inserting",
                     says |-> token, previous |-> row.roles]]
    /\ UNCHANGED <<realm, ever, token, row, work, changes, slips>>

\* and makes it, unless another first request did,
Provision(q) ==
    /\ request[q].at = "inserting"
    /\ row' = IF row.there THEN row ELSE [there |-> TRUE, roles |-> request[q].says]
    /\ request' = [request EXCEPT ![q] = NoWork]
    /\ UNCHANGED <<realm, ever, token, work, changes, slips>>

\* or writes the roles of the token where they differ from what was read.
Refresh(q) ==
    /\ request[q].at = "updating"
    /\ row' = IF request[q].says = request[q].previous THEN row
              ELSE [row EXCEPT !.roles = request[q].says]
    /\ request' = [request EXCEPT ![q] = NoWork]
    /\ UNCHANGED <<realm, ever, token, work, changes, slips>>

Override(a) == Look(a) \/ Add(a) \/ Remove(a) \/ Mirror(a)
Serve(q) == Find(q) \/ Provision(q) \/ Refresh(q)

Next ==
    \/ \E a \in Admins, wanted \in SUBSET Roles : Ask(a, wanted)
    \/ \E a \in Admins : Override(a)
    \/ SignIn
    \/ \E q \in Requests : Serve(q)

\* A request is answered, and the person signs in and asks again.
Fairness ==
    /\ \A a \in Admins : WF_mvars(Override(a))
    /\ WF_mvars(SignIn)
    /\ \A q \in Requests : WF_mvars(Serve(q))

Spec == Init /\ [][Next]_mvars /\ Fairness

-----------------------------------------------------------------------------
\* Types, and: nobody gets a role outside the platform's vocabulary.
TypeOK ==
    /\ realm \subseteq Roles \cup Foreign
    /\ token \subseteq Roles /\ row.roles \subseteq Roles
    /\ \A a \in Admins : work[a] # NoWork => row.there /\ work[a].held \subseteq Roles

\* admin.py: never a role here that the provider has not granted, however many
\* administrators and requests there are and whatever fails.
MirrorWasGranted == row.roles \subseteq ever

\* keycloak_admin.py: the roles the provider keeps for itself are not touched.
ForeignStays == realm \cap Foreign = FirstRoles \cap Foreign

\* One administrator at a time: what is about to be mirrored and reported as
\* confirmed is exactly what the provider holds.
ConfirmedIsHeld == \A a \in Admins :
    work[a] # NoWork /\ work[a].at = "mirroring" => realm \cap Roles = work[a].wanted

\* admin.py, the next sign-in: whatever an override left half done, the mirror
\* agrees with the provider in the end.
MirrorCatchesUp == <>[](row.there /\ row.roles = realm \cap Roles)

-----------------------------------------------------------------------------
(* Why: what an override and a request carry was granted before. *)

OverrideRow == [at : {"looking", "adding", "removing", "mirroring"},
             wanted : SUBSET Roles, previous : SUBSET Roles, held : SUBSET Roles]
RequestRow == [at : {"inserting", "updating"}, says : SUBSET Roles, previous : SUBSET Roles]

Fields ==
    /\ realm \subseteq Roles \cup Foreign
    /\ token \subseteq Roles
    /\ row \in [there : BOOLEAN, roles : SUBSET Roles]
    /\ work \in [Admins -> OverrideRow \cup {NoWork}]
    /\ request \in [Requests -> RequestRow \cup {NoWork}]
    /\ \A a \in Admins : work[a].at # "idle" => row.there

Granted ==
    /\ realm \subseteq ever /\ token \subseteq ever /\ MirrorWasGranted
    /\ \A a \in Admins :
        /\ work[a].at # "idle" => work[a].held \subseteq ever
        /\ work[a].at \in {"removing", "mirroring"} => work[a].wanted \subseteq ever
    /\ \A q \in Requests : request[q].at # "idle" => request[q].says \subseteq ever

MirrorInv == Fields /\ Granted /\ ForeignStays

\* One administrator at a time: nobody else moves the mapping under an override.
MappingIsKnown == \A a \in Admins :
    /\ work[a].at = "adding" => realm \cap Roles = work[a].held
    /\ work[a].at = "removing" => realm \cap Roles = work[a].held \cup work[a].wanted
    /\ work[a].at = "mirroring" => realm \cap Roles = work[a].wanted
=============================================================================
