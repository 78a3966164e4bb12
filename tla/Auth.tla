-------------------------------- MODULE Auth --------------------------------
(***************************************************************************)
(* auth/mod.rs: AuthStore, two maps behind a reader-writer lock each, a    *)
(* switch and a revision counter, used by any number of threads.           *)
(*                                                                         *)
(* Between two lock operations a thread's step is atomic: what it changes  *)
(* under a lock nobody can see before the lock is released.  Three         *)
(* operations take both locks and so have two steps: role_delete keeps     *)
(* `roles' locked for writing while it waits for `users', check_permission *)
(* keeps `users' locked for reading while it waits for `roles', and        *)
(* user_grant_role lets go of `roles' before it asks for `users'.  A call  *)
(* that returns an error changes nothing and is no action.                 *)
(*                                                                         *)
(* Byte strings are numbers in the order of the strings: 0 is the empty    *)
(* string, 1 is "\0", keys are above.  user_get, user_list, role_get,      *)
(* role_list, authenticate and verify_token change nothing and are left    *)
(* out, as are the password checks.                                        *)
(***************************************************************************)
EXTENDS Integers, FiniteSets

CONSTANTS
  Thread,        \* callers of the store
  User, Role,    \* names, the root user and the root role among them
  RootUser, RootRole,
  Key,           \* keys that permission is asked for
  RequestEnd,    \* the range ends it is asked with
  Grantable,     \* the permissions role_grant_permission is called with
  Password,
  MaxRevision,   \* bound: revision of the last change
  None

Empty == 0
Nul == 1

VARIABLES
  users,     \* users: RwLock<HashMap<String, User>>
  roles,     \* roles: RwLock<HashMap<String, Role>>
  enabled,   \* enabled: AtomicBool
  revision,  \* revision: AtomicI64
  task,      \* per thread: where it is between two locks, and what it holds
  stamped,   \* history: users and roles when the revision last changed
  answers    \* history: what checks answered and what they owed

vars == <<users, roles, enabled, revision, task, stamped, answers>>

AccessType == {"read", "write", "readwrite"}

FullAccess == [type |-> "readwrite", key |-> Empty, range_end |-> Nul]

Permission == Grantable \cup {FullAccess}

Request == [user : User, key : Key, range_end : RequestEnd, type : AccessType]

Idle == [pc |-> "idle"]

\* The root user and role have names; threads are as many as there are.
ASSUME NamesAssumption == RootUser \in User /\ RootRole \in Role
ASSUME ThreadAssumption == IsFiniteSet(Thread)

\* Keys and range ends are byte strings, that is, numbers.
ASSUME KeyAssumption ==
  /\ Key \subseteq Nat /\ RequestEnd \subseteq Nat
  /\ \A p \in Grantable : p \in [type : AccessType, key : Nat, range_end : Nat]

ASSUME BoundAssumption == MaxRevision \in Nat \ {0}

\* The absence of a user or a role is none of their values.
ASSUME NoneAssumption ==
  /\ \A hash \in Password \cup {None}, rs \in SUBSET Role :
       [password_hash |-> hash, roles |-> rs] # None
  /\ \A perms \in SUBSET Permission : perms # None

Task ==
  {Idle, [pc |-> "enable"]}
    \cup [pc : {"grant_user"}, user : User, role : Role]
    \cup [pc : {"delete_users"}, role : Role]
    \cup [pc : {"check_roles"}, req : Request, mine : SUBSET Role]

TypeOK ==
  /\ users \in [User -> [password_hash : Password \cup {None}, roles : SUBSET Role] \cup {None}]
  /\ roles \in [Role -> (SUBSET Permission) \cup {None}]
  /\ users[RootUser] # None /\ roles[RootRole] # None
  /\ enabled \in BOOLEAN
  /\ revision \in 1..MaxRevision
  /\ task \in [Thread -> Task]

-----------------------------------------------------------------------------
NewUser(hash) == [password_hash |-> hash, roles |-> {}]

\* setup_defaults: the root user, still without a password, and the root role.
Init ==
  /\ users = [u \in User |-> IF u = RootUser THEN NewUser(None) ELSE None]
  /\ roles = [r \in Role |-> IF r = RootRole THEN {FullAccess} ELSE None]
  /\ enabled = FALSE
  /\ revision = 1
  /\ task = [t \in Thread |-> Idle]
  /\ stamped = [users |-> users, roles |-> roles]
  /\ answers = {}

\* Nobody holds `users' for writing between two steps, nor `roles' for reading.
UsersWritableAlways == TRUE

UsersWritable == \A t \in Thread : task[t].pc # "check_roles"

RolesFreeOfGrants == \A t \in Thread : task[t].pc \notin {"delete_users", "grant_user"}

RolesFree == \A t \in Thread : task[t].pc # "delete_users"

\* fetch_add, and the history of what the new revision stands for.
Bump ==
  /\ revision' = revision + 1
  /\ stamped' = [users |-> users', roles |-> roles']

NoBump == UNCHANGED <<revision, stamped>>

\* Bound: a change begins only if its revision will be within MaxRevision.
MayChange ==
  revision + Cardinality({t \in Thread : task[t].pc \in {"grant_user", "delete_users"}})
    < MaxRevision

\* A call that takes one lock, for writing, and changes what it protects.
UsersCall(t) ==
  /\ task[t].pc = "idle" /\ UsersWritable /\ MayChange
  /\ UNCHANGED <<roles, enabled, task, answers>>

RolesCall(t) ==
  /\ task[t].pc = "idle" /\ RolesFree /\ MayChange
  /\ UNCHANGED <<users, enabled, task, answers>>

-----------------------------------------------------------------------------
UserAdd(t, u, hash) ==
  /\ users[u] = None
  /\ users' = [users EXCEPT ![u] = NewUser(hash)]
  /\ UsersCall(t) /\ Bump

DeletableAlways(u) == TRUE

Deletable(u) == u # RootUser

UserDelete(t, u) ==
  /\ Deletable(u) /\ users[u] # None
  /\ users' = [users EXCEPT ![u] = None]
  /\ UsersCall(t) /\ Bump

UserChangePassword(t, u, hash) ==
  /\ users[u] # None
  /\ users' = [users EXCEPT ![u].password_hash = hash]
  /\ UsersCall(t) /\ Bump

\* The revision moves whether or not the user had the role.
UserRevokeRole(t, u, r) ==
  /\ users[u] # None
  /\ users' = [users EXCEPT ![u].roles = @ \ {r}]
  /\ UsersCall(t) /\ Bump

\* user_grant_role looks the role up and lets go of `roles' ...
UserGrantRole(t, u, r) ==
  /\ task[t].pc = "idle" /\ RolesFree /\ MayChange
  /\ roles[r] # None
  /\ task' = [task EXCEPT ![t] = [pc |-> "grant_user", user |-> u, role |-> r]]
  /\ UNCHANGED <<users, roles, enabled, revision, stamped, answers>>

\* ... and then gives it to a user, if that user is there and has it not yet.
GrantUser(t) ==
  LET u == task[t].user
  IN /\ task[t].pc = "grant_user" /\ UsersWritable
     /\ task' = [task EXCEPT ![t] = Idle]
     /\ UNCHANGED <<roles, enabled, answers>>
     /\ IF users[u] # None /\ task[t].role \notin users[u].roles
          THEN users' = [users EXCEPT ![u].roles = @ \cup {task[t].role}] /\ Bump
          ELSE UNCHANGED users /\ NoBump

-----------------------------------------------------------------------------
RoleAdd(t, r) ==
  /\ roles[r] = None
  /\ roles' = [roles EXCEPT ![r] = {}]
  /\ RolesCall(t) /\ Bump

\* role_delete removes the role, and with `roles' still locked ...
RoleDelete(t, r) ==
  /\ task[t].pc = "idle" /\ RolesFree /\ MayChange
  /\ r # RootRole /\ roles[r] # None
  /\ roles' = [roles EXCEPT ![r] = None]
  /\ task' = [task EXCEPT ![t] = [pc |-> "delete_users", role |-> r]]
  /\ UNCHANGED <<users, enabled, revision, stamped, answers>>

DeleteUsersUncounted(t) ==
  /\ task[t].pc = "delete_users" /\ UsersWritable
  /\ users' = [u \in User |->
                 IF users[u] = None THEN None
                 ELSE [users[u] EXCEPT !.roles = @ \ {task[t].role}]]
  /\ task' = [task EXCEPT ![t] = Idle]
  /\ UNCHANGED <<roles, enabled, answers>> /\ NoBump

\* ... waits for `users' to remove it from all users.
DeleteUsers(t) ==
  /\ task[t].pc = "delete_users" /\ UsersWritable
  /\ users' = [u \in User |->
                 IF users[u] = None THEN None
                 ELSE [users[u] EXCEPT !.roles = @ \ {task[t].role}]]
  /\ task' = [task EXCEPT ![t] = Idle]
  /\ UNCHANGED <<roles, enabled, answers>> /\ Bump

\* The revision moves only when the role did not have the permission.
RoleGrantPermission(t, r, p) ==
  /\ roles[r] # None
  /\ roles' = [roles EXCEPT ![r] = @ \cup {p}]
  /\ RolesCall(t)
  /\ IF p \in roles[r] THEN NoBump ELSE Bump

Without(perms, key, range_end) == {p \in perms : ~ (p.key = key /\ p.range_end = range_end)}

\* Every permission on exactly this range goes, whatever its type.
RoleRevokePermission(t, r, key, range_end) ==
  /\ roles[r] # None
  /\ roles' = [roles EXCEPT ![r] = Without(@, key, range_end)]
  /\ RolesCall(t)
  /\ IF roles'[r] = roles[r] THEN NoBump ELSE Bump

-----------------------------------------------------------------------------
\* Permission::covers.
Covers(p, key, range_end) ==
  /\ key >= p.key
  /\ CASE p.range_end = Empty -> key = p.key
       [] p.range_end = Nul -> TRUE
       [] p.range_end > Nul /\ range_end = Empty -> key < p.range_end
       [] p.range_end > Nul /\ range_end # Empty -> range_end <= p.range_end

\* allows_read and allows_write, of which readwrite asks for both.
Allows(p, type) == p.type \in {type, "readwrite"}

\* Role::check_permission over the roles the user was found with.
AnyRoleGrants(mine, req) ==
  \E r \in mine :
    roles[r] # None /\ \E p \in roles[r] :
      Allows(p, req.type) /\ Covers(p, req.key, req.range_end)

\* What the store permits at this moment, by the sets of keys it is about.
KeysOf(p) ==
  IF p.range_end = Empty THEN Key \cap {p.key}
  ELSE {k \in Key : k >= p.key /\ (p.range_end = Nul \/ k < p.range_end)}

Permitted(req) ==
  /\ users[req.user] # None
  /\ \E r \in users[req.user].roles :
       roles[r] # None /\ \E p \in roles[r] :
         req.key \in KeysOf(p) /\ p.type \in {req.type, "readwrite"}

\* check_permission: the user is looked up, and with `users' still locked ...
CheckPermission(t, req) ==
  /\ task[t].pc = "idle"
  /\ req.user # RootUser
  /\ users[req.user] # None
  /\ task' = [task EXCEPT ![t] = [pc |-> "check_roles", req |-> req,
                                  mine |-> users[req.user].roles]]
  /\ UNCHANGED <<users, roles, enabled, revision, stamped, answers>>

\* ... its roles are looked through.
CheckRoles(t) ==
  LET req == task[t].req
  IN /\ task[t].pc = "check_roles" /\ RolesFree
     /\ answers' = answers \cup
          {[answer |-> AnyRoleGrants(task[t].mine, req), owed |-> Permitted(req)]}
     /\ task' = [task EXCEPT ![t] = Idle]
     /\ UNCHANGED <<users, roles, enabled, revision, stamped>>

-----------------------------------------------------------------------------
\* enable: load, then store.
Enable(t) ==
  /\ task[t].pc = "idle" /\ ~ enabled
  /\ task' = [task EXCEPT ![t] = [pc |-> "enable"]]
  /\ UNCHANGED <<users, roles, enabled, revision, stamped, answers>>

EnableStore(t) ==
  /\ task[t].pc = "enable"
  /\ enabled' = TRUE
  /\ task' = [task EXCEPT ![t] = Idle]
  /\ UNCHANGED <<users, roles, revision, stamped, answers>>

Disable(t) ==
  /\ task[t].pc = "idle"
  /\ enabled' = FALSE
  /\ UNCHANGED <<users, roles, revision, task, stamped, answers>>

-----------------------------------------------------------------------------
UserCall(t) ==
  \E u \in User :
    \/ \E hash \in Password \cup {None} : UserAdd(t, u, hash)
    \/ UserDelete(t, u)
    \/ \E hash \in Password : UserChangePassword(t, u, hash)
    \/ \E r \in Role : UserGrantRole(t, u, r) \/ UserRevokeRole(t, u, r)

RoleCall(t) ==
  \E r \in Role :
    \/ RoleAdd(t, r) \/ RoleDelete(t, r)
    \/ \E p \in Permission : \/ RoleGrantPermission(t, r, p)
                             \/ RoleRevokePermission(t, r, p.key, p.range_end)

OtherCall(t) ==
  \/ \E req \in Request : CheckPermission(t, req)
  \/ Enable(t) \/ Disable(t)

\* What a call does once it has the lock it waited for.
Continue(t) == GrantUser(t) \/ DeleteUsers(t) \/ CheckRoles(t) \/ EnableStore(t)

Next == \E t \in Thread : UserCall(t) \/ RoleCall(t) \/ OtherCall(t) \/ Continue(t)

Spec == Init /\ [][Next]_vars

\* A thread gets a lock that is free again and again (parking_lot lets no new
\* reader in before a waiting writer) and then runs on.
FairSpec == Spec /\ \A t \in Thread : SF_vars(Continue(t))

-----------------------------------------------------------------------------
\* The revision is "for detecting changes": when no role_delete is half done,
\* users and roles are what they were when the revision last moved, so whoever
\* remembers a revision can tell that what they read under it is out of date.
RevisionDetectsChanges ==
  RolesFree => stamped = [users |-> users, roles |-> roles]

\* check_permission answers what users and roles together permit at the moment
\* it answers, although it read the user before it waited for the roles and
\* roles are granted, revoked and deleted in between; asked for a single key,
\* covers is membership in the permission's range.
ChecksAnswerTheMoment == \A a \in answers : a.answer = a.owed

\* A user has only roles that exist: "Check that role exists" in
\* user_grant_role, "Remove role from all users" in role_delete.
RolesExist ==
  RolesFree => \A u \in User : users[u] # None => \A r \in users[u].roles : roles[r] # None

\* A call that waits for a lock gets it and returns, unless a role_delete and a
\* check_permission each hold what the other waits for: that is the only way
\* in which calls block each other for good.
CallsReturn ==
  LET pcs == {task[t].pc : t \in Thread}
  IN \A t \in Thread :
       task[t].pc # "idle" ~> (task[t].pc = "idle" \/ {"delete_users", "check_roles"} \subseteq pcs)

\* Every call returns: nobody waits for a lock whose holder waits for them.
EveryCallReturns == \A t \in Thread : task[t].pc # "idle" ~> task[t].pc = "idle"
=============================================================================
