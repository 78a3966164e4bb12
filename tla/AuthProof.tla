----------------------------- MODULE AuthProof ------------------------------
(***************************************************************************)
(* Proofs about the auth store, for any number of threads, users, roles,   *)
(* keys and permissions: its types, that the revision detects every        *)
(* change, and that check_permission answers for the moment it answers.    *)
(***************************************************************************)
EXTENDS Auth, FiniteSetTheorems, TLAPS

UserValue == [password_hash : Password \cup {None}, roles : SUBSET Role]

\* The calls that have announced a change of the revision and not made it.
Pending == {t \in Thread : task[t].pc \in {"grant_user", "delete_users"}}

\* The types, and room for the revisions of the pending calls.
TypeInv == TypeOK /\ revision + Cardinality(Pending) <= MaxRevision

-----------------------------------------------------------------------------
LEMMA TaskShape ==
  ASSUME NEW k \in Task
  PROVE  /\ k.pc = "grant_user" => k.user \in User /\ k.role \in Role
         /\ k.pc = "delete_users" => k.role \in Role
         /\ k.pc = "check_roles" => k.req \in Request /\ k.mine \in SUBSET Role
  BY DEF Task, Idle

LEMMA PermissionShape ==
  ASSUME NEW p \in Permission
  PROVE  p \in [type : AccessType, key : Nat, range_end : Nat]
  BY KeyAssumption DEF Permission, FullAccess, AccessType, Empty, Nul

LEMMA UserValueNotNone == ASSUME NEW v \in UserValue PROVE v # None
  BY NoneAssumption DEF UserValue

\* What a user that is there looks like.
LEMMA UserShape ==
  ASSUME TypeOK, NEW u \in User, users[u] # None
  PROVE  users[u] \in UserValue
  BY DEF TypeOK, UserValue

LEMMA PendingFinite == IsFiniteSet(Pending) /\ Cardinality(Pending) \in Nat
  <1>1. IsFiniteSet(Pending)
    BY ThreadAssumption, FS_Subset DEF Pending
  <1> QED
    BY <1>1, FS_CardinalityType

\* A call that announces a change is one more pending call ...
LEMMA PendingGrows ==
  ASSUME TypeInv, NEW t \in Thread, NEW k \in Task,
         task[t].pc = "idle", MayChange,
         task' = [task EXCEPT ![t] = k], k.pc \in {"grant_user", "delete_users"}
  PROVE  revision + Cardinality(Pending') <= MaxRevision
  <1>1. Pending' = Pending \cup {t} /\ t \notin Pending
    BY DEF Pending, TypeInv, TypeOK
  <1>2. Cardinality(Pending') = Cardinality(Pending) + 1
    BY <1>1, PendingFinite, FS_AddElement
  <1>3. revision + Cardinality(Pending) < MaxRevision
    BY DEF MayChange, Pending
  <1> QED
    BY <1>2, <1>3, PendingFinite, BoundAssumption DEF TypeInv, TypeOK

\* ... and one that makes it, or finds nothing to do, is one fewer.
LEMMA PendingShrinks ==
  ASSUME TypeInv, NEW t \in Thread,
         task[t].pc \in {"grant_user", "delete_users"},
         task' = [task EXCEPT ![t] = Idle]
  PROVE  Cardinality(Pending') = Cardinality(Pending) - 1 /\ Cardinality(Pending') \in Nat
  <1>1. Pending' = Pending \ {t} /\ t \in Pending
    BY DEF Pending, TypeInv, TypeOK, Idle
  <1>2. IsFiniteSet(Pending \ {t}) /\ Cardinality(Pending \ {t}) = Cardinality(Pending) - 1
    BY <1>1, PendingFinite, FS_RemoveElement
  <1> QED
    BY <1>1, <1>2, FS_CardinalityType

LEMMA PendingSame ==
  ASSUME TypeInv, NEW t \in Thread, NEW k \in Task,
         task' = [task EXCEPT ![t] = k],
         task[t].pc \notin {"grant_user", "delete_users"},
         k.pc \notin {"grant_user", "delete_users"}
  PROVE  Pending' = Pending
  BY DEF Pending, TypeInv, TypeOK

\* A change in one step has room for its revision.
LEMMA RoomForOne ==
  ASSUME TypeInv, MayChange, UNCHANGED task
  PROVE  /\ revision \in 1..MaxRevision
         /\ revision + 1 \in 1..MaxRevision
         /\ revision + 1 + Cardinality(Pending') <= MaxRevision
  <1>1. revision + Cardinality(Pending) < MaxRevision
    BY DEF MayChange, Pending
  <1>2. Pending' = Pending
    BY DEF Pending
  <1> QED
    BY <1>1, <1>2, PendingFinite, BoundAssumption DEF TypeInv, TypeOK

-----------------------------------------------------------------------------
(***************************************************************************)
(* The inductive invariant.  A check that waits for `roles' still holds    *)
(* `users', so what it remembers of its user is what the user is.          *)
(***************************************************************************)
Remembered ==
  \A t \in Thread :
    task[t].pc = "check_roles" =>
      /\ users[task[t].req.user] # None
      /\ task[t].mine = users[task[t].req.user].roles

AuthInv == TypeInv /\ RevisionDetectsChanges /\ Remembered

\* The store begins with the root user and the root role.
LEMMA InitInv == Init => AuthInv
  <1> SUFFICES ASSUME Init PROVE AuthInv
    OBVIOUS
  <1>1. NewUser(None) \in UserValue
    BY DEF NewUser, UserValue
  <1>2. {FullAccess} \in SUBSET Permission
    BY DEF Permission
  <1>3. NewUser(None) # None /\ {FullAccess} # None
    BY <1>1, <1>2, UserValueNotNone, NoneAssumption
  <1>4. TypeOK
    <2>1. users \in [User -> UserValue \cup {None}] /\ users[RootUser] # None
      BY <1>1, <1>3, NamesAssumption DEF Init
    <2>2. roles \in [Role -> (SUBSET Permission) \cup {None}] /\ roles[RootRole] # None
      BY <1>2, <1>3, NamesAssumption DEF Init
    <2>3. Idle \in Task
      BY DEF Task
    <2>4. task \in [Thread -> Task]
      BY <2>3 DEF Init
    <2>5. enabled \in BOOLEAN
      BY DEF Init
    <2>6. revision \in 1..MaxRevision
      BY BoundAssumption DEF Init
    <2> QED
      BY <2>1, <2>2, <2>4, <2>5, <2>6 DEF TypeOK, UserValue
  <1>5. Pending = {}
    BY DEF Init, Pending, Idle
  <1>6. TypeInv
    BY <1>4, <1>5, FS_EmptySet, BoundAssumption DEF TypeInv, Init
  <1> QED
    BY <1>6 DEF AuthInv, Init, RevisionDetectsChanges, Remembered, Idle

\* A call that changes users under their lock: no check is waiting.
LEMMA UsersWrite ==
  ASSUME AuthInv, NEW t \in Thread, UsersCall(t), Bump,
         users' \in [User -> UserValue \cup {None}], users'[RootUser] # None
  PROVE  AuthInv'
  <1>1. TypeInv'
    BY RoomForOne DEF AuthInv, TypeInv, TypeOK, UsersCall, Bump, UserValue
  <1>2. RevisionDetectsChanges'
    BY DEF RevisionDetectsChanges, Bump
  <1>3. Remembered'
    BY DEF Remembered, UsersCall, UsersWritable
  <1> QED
    BY <1>1, <1>2, <1>3 DEF AuthInv

\* A call that changes roles under their lock, and counts what it changes.
LEMMA RolesWrite ==
  ASSUME AuthInv, NEW t \in Thread, RolesCall(t),
         Bump \/ (NoBump /\ UNCHANGED roles),
         roles' \in [Role -> (SUBSET Permission) \cup {None}], roles'[RootRole] # None
  PROVE  AuthInv'
  <1>1. TypeInv'
    <2>1. CASE Bump
      BY <2>1, RoomForOne DEF AuthInv, TypeInv, TypeOK, RolesCall, Bump
    <2>2. CASE NoBump /\ UNCHANGED roles
      <3>1. Pending' = Pending
        BY DEF Pending, RolesCall
      <3> QED
        BY <2>2, <3>1 DEF AuthInv, TypeInv, TypeOK, RolesCall, NoBump
    <2> QED
      BY <2>1, <2>2
  <1>2. RevisionDetectsChanges'
    BY DEF AuthInv, RevisionDetectsChanges, RolesFree, Bump, NoBump, RolesCall
  <1>3. Remembered'
    BY DEF AuthInv, Remembered, RolesCall
  <1> QED
    BY <1>1, <1>2, <1>3 DEF AuthInv

LEMMA UserAddInv ==
  ASSUME AuthInv, NEW t \in Thread, NEW u \in User, NEW hash \in Password \cup {None},
         UserAdd(t, u, hash)
  PROVE  AuthInv'
  <1>1. NewUser(hash) \in UserValue
    BY DEF NewUser, UserValue
  <1>2. users' \in [User -> UserValue \cup {None}] /\ users'[RootUser] # None
    BY <1>1, NamesAssumption DEF UserAdd, AuthInv, TypeInv, TypeOK, UserValue
  <1> QED
    BY <1>2, UsersWrite DEF UserAdd

LEMMA UserDeleteInv ==
  ASSUME AuthInv, NEW t \in Thread, NEW u \in User, UserDelete(t, u)
  PROVE  AuthInv'
  <1>1. users' \in [User -> UserValue \cup {None}] /\ users'[RootUser] # None
    BY NamesAssumption DEF UserDelete, Deletable, AuthInv, TypeInv, TypeOK, UserValue
  <1> QED
    BY <1>1, UsersWrite DEF UserDelete

LEMMA UserChangePasswordInv ==
  ASSUME AuthInv, NEW t \in Thread, NEW u \in User, NEW hash \in Password,
         UserChangePassword(t, u, hash)
  PROVE  AuthInv'
  <1>1. users[u] \in UserValue
    BY UserShape DEF AuthInv, TypeInv, UserChangePassword
  <1>2. [users[u] EXCEPT !.password_hash = hash] \in UserValue
    BY <1>1 DEF UserValue
  <1>3. users' = [users EXCEPT ![u] = [users[u] EXCEPT !.password_hash = hash]]
    BY DEF UserChangePassword
  <1>4. users \in [User -> UserValue \cup {None}] /\ users[RootUser] # None
    BY DEF AuthInv, TypeInv, TypeOK, UserValue
  <1>5. users' \in [User -> UserValue \cup {None}] /\ users'[RootUser] # None
    BY <1>2, <1>3, <1>4, UserValueNotNone, NamesAssumption
  <1> QED
    BY <1>5, UsersWrite DEF UserChangePassword

\* users with the roles of one user replaced are still users.
LEMMA WithRoles ==
  ASSUME TypeOK, NEW u \in User, users[u] # None, NEW rs \in SUBSET Role,
         users' = [users EXCEPT ![u] = [users[u] EXCEPT !.roles = rs]]
  PROVE  users' \in [User -> UserValue \cup {None}] /\ users'[RootUser] # None
  <1>1. users[u] \in UserValue
    BY UserShape
  <1>2. [users[u] EXCEPT !.roles = rs] \in UserValue
    BY <1>1 DEF UserValue
  <1>3. users \in [User -> UserValue \cup {None}] /\ users[RootUser] # None
    BY DEF TypeOK, UserValue
  <1> QED
    BY <1>2, <1>3, UserValueNotNone, NamesAssumption

LEMMA UserRevokeRoleInv ==
  ASSUME AuthInv, NEW t \in Thread, NEW u \in User, NEW r \in Role, UserRevokeRole(t, u, r)
  PROVE  AuthInv'
  <1>1. users[u] \in UserValue
    BY UserShape DEF AuthInv, TypeInv, UserRevokeRole
  <1>2. users[u].roles \ {r} \in SUBSET Role
    BY <1>1 DEF UserValue
  <1>3. users' = [users EXCEPT ![u] = [users[u] EXCEPT !.roles = users[u].roles \ {r}]]
    BY DEF UserRevokeRole
  <1>4. users' \in [User -> UserValue \cup {None}] /\ users'[RootUser] # None
    BY <1>2, <1>3, WithRoles DEF AuthInv, TypeInv, UserRevokeRole
  <1> QED
    BY <1>4, UsersWrite DEF UserRevokeRole

\* A step that changes neither users nor roles, of a thread that is and stays
\* none of those that hold a lock.
LEMMA TaskStep ==
  ASSUME AuthInv, NEW t \in Thread, NEW k \in Task,
         task' = [task EXCEPT ![t] = k],
         UNCHANGED <<users, roles, revision, stamped>>,
         enabled' \in BOOLEAN,
         revision + Cardinality(Pending') <= MaxRevision,
         task[t].pc # "delete_users",
         k.pc = "check_roles" =>
           users[k.req.user] # None /\ k.mine = users[k.req.user].roles
  PROVE  AuthInv'
  <1>1. TypeInv'
    BY DEF AuthInv, TypeInv, TypeOK
  <1>2. RevisionDetectsChanges'
    BY DEF AuthInv, TypeInv, TypeOK, RevisionDetectsChanges, RolesFree
  <1>3. Remembered'
    BY DEF AuthInv, TypeInv, TypeOK, Remembered
  <1> QED
    BY <1>1, <1>2, <1>3 DEF AuthInv

LEMMA UserGrantRoleInv ==
  ASSUME AuthInv, NEW t \in Thread, NEW u \in User, NEW r \in Role, UserGrantRole(t, u, r)
  PROVE  AuthInv'
  <1> DEFINE k == [pc |-> "grant_user", user |-> u, role |-> r]
  <1>1. k \in Task /\ k.pc = "grant_user"
    BY DEF Task
  <1> HIDE DEF k
  <1>2. task' = [task EXCEPT ![t] = k] /\ task[t].pc = "idle"
    BY DEF UserGrantRole, k
  <1>3. revision + Cardinality(Pending') <= MaxRevision
    BY <1>1, <1>2, PendingGrows DEF AuthInv, UserGrantRole
  <1>4. UNCHANGED <<users, roles, revision, stamped>> /\ enabled' \in BOOLEAN
    BY DEF AuthInv, TypeInv, TypeOK, UserGrantRole
  <1> QED
    BY <1>1, <1>2, <1>3, <1>4, TaskStep

\* Once it has `users', the grant gives the role and counts it, or ends.
LEMMA GrantUserInv ==
  ASSUME AuthInv, NEW t \in Thread, GrantUser(t)
  PROVE  AuthInv'
  <1> DEFINE u == task[t].user
             r == task[t].role
  <1>1. task[t].pc = "grant_user" /\ task' = [task EXCEPT ![t] = Idle]
    BY DEF GrantUser
  <1>2. u \in User /\ r \in Role
    BY <1>1, TaskShape DEF AuthInv, TypeInv, TypeOK
  <1>3. Cardinality(Pending') = Cardinality(Pending) - 1 /\ Cardinality(Pending') \in Nat
    BY <1>1, PendingShrinks DEF AuthInv
  <1>4. Idle \in Task /\ Idle.pc = "idle"
    BY DEF Task, Idle
  <1>5. CASE users[u] # None /\ r \notin users[u].roles
    <2>1. users[u] \in UserValue
      BY <1>2, <1>5, UserShape DEF AuthInv, TypeInv
    <2>2. users[u].roles \cup {r} \in SUBSET Role
      BY <1>2, <2>1 DEF UserValue
    <2>3. users' = [users EXCEPT ![u] = [users[u] EXCEPT !.roles = users[u].roles \cup {r}]]
          /\ Bump /\ UNCHANGED <<roles, enabled>>
      BY <1>5 DEF GrantUser
    <2>4. users' \in [User -> UserValue \cup {None}] /\ users'[RootUser] # None
      BY <1>2, <1>5, <2>2, <2>3, WithRoles DEF AuthInv, TypeInv
    <2>5. revision' \in 1..MaxRevision /\ revision' + Cardinality(Pending') <= MaxRevision
      BY <1>3, <2>3, PendingFinite, BoundAssumption DEF Bump, AuthInv, TypeInv, TypeOK
    <2>6. task' \in [Thread -> Task]
      BY <1>1, <1>4 DEF AuthInv, TypeInv, TypeOK
    <2>7. TypeInv'
      BY <2>3, <2>4, <2>5, <2>6 DEF AuthInv, TypeInv, TypeOK, UserValue
    <2>8. RevisionDetectsChanges'
      BY <2>3 DEF RevisionDetectsChanges, Bump
    <2>9. Remembered'
      BY <1>1, <1>4 DEF Remembered, GrantUser, UsersWritable, AuthInv, TypeInv, TypeOK
    <2> QED
      BY <2>7, <2>8, <2>9 DEF AuthInv
  <1>6. CASE ~ (users[u] # None /\ r \notin users[u].roles)
    <2>1. UNCHANGED <<users, roles, revision, stamped, enabled>>
      BY <1>6 DEF GrantUser, NoBump
    <2>2. revision + Cardinality(Pending') <= MaxRevision
      BY <1>3, PendingFinite, BoundAssumption DEF AuthInv, TypeInv, TypeOK
    <2>3. enabled' \in BOOLEAN
      BY <2>1 DEF AuthInv, TypeInv, TypeOK
    <2> QED
      BY <1>1, <1>4, <2>1, <2>2, <2>3, TaskStep
  <1> QED
    BY <1>5, <1>6

LEMMA RoleAddInv ==
  ASSUME AuthInv, NEW t \in Thread, NEW r \in Role, RoleAdd(t, r)
  PROVE  AuthInv'
  <1>1. {} \in SUBSET Permission /\ {} # None
    BY NoneAssumption
  <1>2. roles' \in [Role -> (SUBSET Permission) \cup {None}] /\ roles'[RootRole] # None
    BY <1>1, NamesAssumption DEF RoleAdd, AuthInv, TypeInv, TypeOK
  <1> QED
    BY <1>2, RolesWrite DEF RoleAdd

\* role_delete keeps `roles' locked, and so promises nothing about revisions
\* until it has removed the role from the users.
LEMMA RoleDeleteInv ==
  ASSUME AuthInv, NEW t \in Thread, NEW r \in Role, RoleDelete(t, r)
  PROVE  AuthInv'
  <1> DEFINE k == [pc |-> "delete_users", role |-> r]
  <1>1. k \in Task /\ k.pc = "delete_users"
    BY DEF Task
  <1> HIDE DEF k
  <1>2. task' = [task EXCEPT ![t] = k] /\ task[t].pc = "idle"
    BY DEF RoleDelete, k
  <1>3. revision + Cardinality(Pending') <= MaxRevision
    BY <1>1, <1>2, PendingGrows DEF AuthInv, RoleDelete
  <1>4. roles' \in [Role -> (SUBSET Permission) \cup {None}] /\ roles'[RootRole] # None
    BY NamesAssumption DEF RoleDelete, AuthInv, TypeInv, TypeOK
  <1>5. task' \in [Thread -> Task]
    BY <1>1, <1>2 DEF AuthInv, TypeInv, TypeOK
  <1>6. TypeInv'
    BY <1>3, <1>4, <1>5 DEF RoleDelete, AuthInv, TypeInv, TypeOK
  <1>7. ~ RolesFree'
    BY <1>1, <1>2 DEF RolesFree, AuthInv, TypeInv, TypeOK
  <1>8. Remembered'
    BY <1>1, <1>2 DEF RoleDelete, Remembered, AuthInv, TypeInv, TypeOK
  <1> QED
    BY <1>6, <1>7, <1>8 DEF AuthInv, RevisionDetectsChanges

\* ... which counts as a change whatever the users had.
LEMMA DeleteUsersInv ==
  ASSUME AuthInv, NEW t \in Thread, DeleteUsers(t)
  PROVE  AuthInv'
  <1>1. task[t].pc = "delete_users" /\ task' = [task EXCEPT ![t] = Idle]
    BY DEF DeleteUsers
  <1>2. Cardinality(Pending') = Cardinality(Pending) - 1 /\ Cardinality(Pending') \in Nat
    BY <1>1, PendingShrinks DEF AuthInv
  <1>3. Idle \in Task /\ Idle.pc = "idle"
    BY DEF Task, Idle
  <1> DEFINE w(u) == [users[u] EXCEPT !.roles = @ \ {task[t].role}]
  <1>4. ASSUME NEW u \in User, users[u] # None
        PROVE  w(u) \in UserValue /\ w(u) # None
    <2>1. users[u] \in UserValue
      BY <1>4, UserShape DEF AuthInv, TypeInv
    <2>2. w(u) \in UserValue
      BY <2>1 DEF UserValue
    <2> QED
      BY <2>2, UserValueNotNone
  <1>5. users' = [u \in User |-> IF users[u] = None THEN None ELSE w(u)]
    BY DEF DeleteUsers
  <1> HIDE DEF w
  <1>6. users' \in [User -> UserValue \cup {None}] /\ users'[RootUser] # None
    <2>1. users[RootUser] # None /\ RootUser \in User
      BY NamesAssumption DEF AuthInv, TypeInv, TypeOK
    <2> QED
      BY <1>4, <1>5, <2>1
  <1>7. revision' \in 1..MaxRevision /\ revision' + Cardinality(Pending') <= MaxRevision
    BY <1>2, PendingFinite, BoundAssumption DEF DeleteUsers, Bump, AuthInv, TypeInv, TypeOK
  <1>8. task' \in [Thread -> Task]
    BY <1>1, <1>3 DEF AuthInv, TypeInv, TypeOK
  <1>9. TypeInv'
    BY <1>6, <1>7, <1>8 DEF DeleteUsers, AuthInv, TypeInv, TypeOK, UserValue
  <1>10. RevisionDetectsChanges'
    BY DEF DeleteUsers, RevisionDetectsChanges, Bump
  <1>11. Remembered'
    BY <1>1, <1>3 DEF Remembered, DeleteUsers, UsersWritable, AuthInv, TypeInv, TypeOK
  <1> QED
    BY <1>9, <1>10, <1>11 DEF AuthInv

LEMMA RoleGrantPermissionInv ==
  ASSUME AuthInv, NEW t \in Thread, NEW r \in Role, NEW p \in Permission,
         RoleGrantPermission(t, r, p)
  PROVE  AuthInv'
  <1>1. roles \in [Role -> (SUBSET Permission) \cup {None}] /\ roles[RootRole] # None
    BY DEF AuthInv, TypeInv, TypeOK
  <1>2. roles[r] \in SUBSET Permission
    BY <1>1 DEF RoleGrantPermission
  <1>3. roles[r] \cup {p} \in SUBSET Permission /\ roles[r] \cup {p} # None
    BY <1>2, NoneAssumption
  <1>4. roles' \in [Role -> (SUBSET Permission) \cup {None}] /\ roles'[RootRole] # None
    BY <1>1, <1>3, NamesAssumption DEF RoleGrantPermission
  <1>5. Bump \/ (NoBump /\ UNCHANGED roles)
    <2>1. CASE p \in roles[r]
      <3>1. roles[r] \cup {p} = roles[r]
        BY <2>1
      <3> QED
        BY <1>1, <2>1, <3>1 DEF RoleGrantPermission
    <2>2. CASE p \notin roles[r]
      BY <2>2 DEF RoleGrantPermission
    <2> QED
      BY <2>1, <2>2
  <1> QED
    BY <1>4, <1>5, RolesWrite DEF RoleGrantPermission

LEMMA RoleRevokePermissionInv ==
  ASSUME AuthInv, NEW t \in Thread, NEW r \in Role, NEW p \in Permission,
         RoleRevokePermission(t, r, p.key, p.range_end)
  PROVE  AuthInv'
  <1> DEFINE left == Without(roles[r], p.key, p.range_end)
  <1>1. roles \in [Role -> (SUBSET Permission) \cup {None}] /\ roles[RootRole] # None
    BY DEF AuthInv, TypeInv, TypeOK
  <1>2. roles[r] \in SUBSET Permission
    BY <1>1 DEF RoleRevokePermission
  <1>3. left \in SUBSET Permission /\ left # None
    BY <1>2, NoneAssumption DEF Without
  <1>4. roles' = [roles EXCEPT ![r] = left]
    BY DEF RoleRevokePermission
  <1> HIDE DEF left
  <1>5. roles' \in [Role -> (SUBSET Permission) \cup {None}] /\ roles'[RootRole] # None
    BY <1>1, <1>3, <1>4, NamesAssumption
  <1>6. Bump \/ (NoBump /\ UNCHANGED roles)
    <2>1. CASE roles'[r] = roles[r]
      <3>1. roles' = roles
        BY <1>1, <1>4, <2>1
      <3> QED
        BY <2>1, <3>1 DEF RoleRevokePermission
    <2>2. CASE roles'[r] # roles[r]
      BY <2>2 DEF RoleRevokePermission
    <2> QED
      BY <2>1, <2>2
  <1> QED
    BY <1>5, <1>6, RolesWrite DEF RoleRevokePermission

LEMMA CheckPermissionInv ==
  ASSUME AuthInv, NEW t \in Thread, NEW req \in Request, CheckPermission(t, req)
  PROVE  AuthInv'
  <1> DEFINE k == [pc |-> "check_roles", req |-> req, mine |-> users[req.user].roles]
  <1>1. req.user \in User
    BY DEF Request
  <1>2. users[req.user] \in UserValue
    BY <1>1, UserShape DEF AuthInv, TypeInv, CheckPermission
  <1>3. k \in Task
    BY <1>2 DEF Task, UserValue
  <1>4. k.pc = "check_roles" /\ users[k.req.user] # None
        /\ k.mine = users[k.req.user].roles
    BY DEF CheckPermission
  <1>5. task' = [task EXCEPT ![t] = k] /\ task[t].pc = "idle"
    BY DEF CheckPermission
  <1> HIDE DEF k
  <1>6. Pending' = Pending
    BY <1>3, <1>4, <1>5, PendingSame DEF AuthInv
  <1>7. /\ UNCHANGED <<users, roles, revision, stamped>> /\ enabled' \in BOOLEAN
        /\ revision + Cardinality(Pending') <= MaxRevision
    BY <1>6 DEF AuthInv, TypeInv, TypeOK, CheckPermission
  <1> QED
    BY <1>3, <1>4, <1>5, <1>7, TaskStep

\* A thread that held no lock for writing returns.
LEMMA ReturnInv ==
  ASSUME AuthInv, NEW t \in Thread, task' = [task EXCEPT ![t] = Idle],
         task[t].pc \in {"check_roles", "enable"},
         UNCHANGED <<users, roles, revision, stamped>>, enabled' \in BOOLEAN
  PROVE  AuthInv'
  <1>1. Idle \in Task /\ Idle.pc = "idle"
    BY DEF Task, Idle
  <1>2. Pending' = Pending
    BY <1>1, PendingSame DEF AuthInv
  <1>3. revision + Cardinality(Pending') <= MaxRevision
    BY <1>2 DEF AuthInv, TypeInv
  <1> QED
    BY <1>1, <1>3, TaskStep

LEMMA EnableInv == ASSUME AuthInv, NEW t \in Thread, Enable(t) PROVE AuthInv'
  <1> DEFINE k == [pc |-> "enable"]
  <1>1. k \in Task /\ k.pc = "enable"
    BY DEF Task
  <1>2. task' = [task EXCEPT ![t] = k] /\ task[t].pc = "idle"
    BY DEF Enable
  <1> HIDE DEF k
  <1>3. Pending' = Pending
    BY <1>1, <1>2, PendingSame DEF AuthInv
  <1>4. /\ UNCHANGED <<users, roles, revision, stamped>> /\ enabled' \in BOOLEAN
        /\ revision + Cardinality(Pending') <= MaxRevision
    BY <1>3 DEF AuthInv, TypeInv, TypeOK, Enable
  <1> QED
    BY <1>1, <1>2, <1>4, TaskStep

LEMMA DisableInv == ASSUME AuthInv, NEW t \in Thread, Disable(t) PROVE AuthInv'
  <1>1. Pending' = Pending
    BY DEF Pending, Disable
  <1> QED
    BY <1>1 DEF Disable, AuthInv, TypeInv, TypeOK, RevisionDetectsChanges, RolesFree, Remembered

LEMMA CheckRolesInv == ASSUME AuthInv, NEW t \in Thread, CheckRoles(t) PROVE AuthInv'
  BY ReturnInv DEF CheckRoles, AuthInv, TypeInv, TypeOK

LEMMA EnableStoreInv == ASSUME AuthInv, NEW t \in Thread, EnableStore(t) PROVE AuthInv'
  BY ReturnInv DEF EnableStore, AuthInv, TypeInv, TypeOK

\* Every step of every thread keeps the invariant.
LEMMA NextInv == AuthInv /\ [Next]_vars => AuthInv'
  <1> SUFFICES ASSUME AuthInv, [Next]_vars PROVE AuthInv'
    OBVIOUS
  <1>1. ASSUME NEW t \in Thread, UserCall(t) PROVE AuthInv'
    BY <1>1, UserAddInv, UserDeleteInv, UserChangePasswordInv, UserGrantRoleInv,
       UserRevokeRoleInv DEF UserCall
  <1>2. ASSUME NEW t \in Thread, RoleCall(t) PROVE AuthInv'
    BY <1>2, RoleAddInv, RoleDeleteInv, RoleGrantPermissionInv, RoleRevokePermissionInv
    DEF RoleCall
  <1>3. ASSUME NEW t \in Thread, OtherCall(t) PROVE AuthInv'
    BY <1>3, CheckPermissionInv, EnableInv, DisableInv DEF OtherCall
  <1>4. ASSUME NEW t \in Thread, Continue(t) PROVE AuthInv'
    BY <1>4, GrantUserInv, DeleteUsersInv, CheckRolesInv, EnableStoreInv DEF Continue
  <1>5. CASE UNCHANGED vars
    <2>1. Pending' = Pending
      BY <1>5 DEF vars, Pending
    <2> QED
      BY <1>5, <2>1 DEF vars, AuthInv, TypeInv, TypeOK, RevisionDetectsChanges,
                        RolesFree, Remembered
  <1> QED
    BY <1>1, <1>2, <1>3, <1>4, <1>5 DEF Next

\* The types of the store, and that the root user and the root role are there
\* for good: user_delete and role_delete refuse them, and nothing else removes.
THEOREM TypeCorrect == Spec => []TypeOK
  <1>1. AuthInv => TypeOK
    BY DEF AuthInv, TypeInv
  <1> QED
    BY <1>1, InitInv, NextInv, PTL DEF Spec

\* Whoever remembers the revision can tell whether users and roles changed, for
\* every interleaving of calls: each change of either map is counted before the
\* lock that role_delete holds across its two steps is free again.
THEOREM RevisionCounts == Spec => []RevisionDetectsChanges
  <1>1. AuthInv => RevisionDetectsChanges
    BY DEF AuthInv
  <1> QED
    BY <1>1, InitInv, NextInv, PTL DEF Spec

-----------------------------------------------------------------------------
(***************************************************************************)
(* ChecksAnswerTheMoment.  Permission::covers, asked for a single key, is  *)
(* membership of the key in the permission's range.                        *)
(***************************************************************************)
LEMMA CoversIsMembership ==
  ASSUME NEW p \in Permission, NEW key \in Key
  PROVE  Covers(p, key, Empty) <=> key \in KeysOf(p)
  <1>1. p.key \in Nat /\ p.range_end \in Nat
    BY PermissionShape
  <1>2. key \in Nat
    BY KeyAssumption
  <1>3. CASE p.range_end = Empty
    BY <1>1, <1>2, <1>3 DEF Covers, KeysOf, Empty, Nul
  <1>4. CASE p.range_end = Nul
    BY <1>1, <1>2, <1>4 DEF Covers, KeysOf, Empty, Nul
  <1>5. CASE p.range_end > Nul
    <2>1. p.range_end # Empty /\ p.range_end # Nul
      BY <1>1, <1>5 DEF Empty, Nul
    <2>2. Covers(p, key, Empty) <=> key >= p.key /\ key < p.range_end
      BY <1>5, <2>1 DEF Covers
    <2>3. key \in KeysOf(p) <=> key >= p.key /\ key < p.range_end
      BY <2>1 DEF KeysOf
    <2> QED
      BY <2>2, <2>3
  <1> QED
    BY <1>1, <1>3, <1>4, <1>5 DEF Empty, Nul

\* Hence the answer of a check that reads what it remembered is what it owes.
LEMMA AnswerIsOwed ==
  ASSUME RequestEnd = {Empty}, AuthInv, NEW t \in Thread, task[t].pc = "check_roles"
  PROVE  AnyRoleGrants(task[t].mine, task[t].req) = Permitted(task[t].req)
  <1> DEFINE req == task[t].req
  <1>1. req \in Request /\ task[t].mine \in SUBSET Role
    BY TaskShape DEF AuthInv, TypeInv, TypeOK
  <1>2. users[req.user] # None /\ task[t].mine = users[req.user].roles
    BY DEF AuthInv, Remembered
  <1>3. req.key \in Key /\ req.range_end = Empty
    BY <1>1 DEF Request
  <1> HIDE DEF req
  <1>4. ASSUME NEW r \in task[t].mine, roles[r] # None, NEW p \in roles[r]
        PROVE  Covers(p, req.key, req.range_end) <=> req.key \in KeysOf(p)
    <2>1. p \in Permission
      BY <1>1, <1>4 DEF AuthInv, TypeInv, TypeOK
    <2> QED
      BY <1>3, <2>1, CoversIsMembership
  <1>5. AnyRoleGrants(task[t].mine, req) <=> Permitted(req)
    BY <1>2, <1>4 DEF AnyRoleGrants, Permitted, Allows
  <1> QED
    BY <1>5 DEF AnyRoleGrants, Permitted, req

\* Asked for single keys, check_permission answers for the moment it answers,
\* whatever is granted, revoked and deleted between the lookup of the user and
\* that of its roles.  (Of ranges it is not true: a permission on one key
\* covers any range that begins with it.)
THEOREM ChecksCorrect ==
  ASSUME RequestEnd = {Empty}
  PROVE  Spec => []ChecksAnswerTheMoment
  <1> DEFINE Inv == AuthInv /\ ChecksAnswerTheMoment
  <1>1. Init => Inv
    BY InitInv DEF Init, ChecksAnswerTheMoment
  <1>2. Inv /\ [Next]_vars => Inv'
    <2> SUFFICES ASSUME Inv, [Next]_vars PROVE ChecksAnswerTheMoment'
      BY NextInv
    <2>1. ASSUME NEW t \in Thread, CheckRoles(t) PROVE ChecksAnswerTheMoment'
      BY <2>1, AnswerIsOwed DEF CheckRoles, ChecksAnswerTheMoment
    <2>2. ASSUME UNCHANGED answers PROVE ChecksAnswerTheMoment'
      BY <2>2 DEF ChecksAnswerTheMoment
    <2>3. ASSUME NEW t \in Thread, UserCall(t) PROVE UNCHANGED answers
      BY <2>3 DEF UserCall, UserAdd, UserDelete, UserChangePassword, UserGrantRole,
                  UserRevokeRole, UsersCall
    <2>4. ASSUME NEW t \in Thread, RoleCall(t) PROVE UNCHANGED answers
      BY <2>4 DEF RoleCall, RoleAdd, RoleDelete, RoleGrantPermission,
                  RoleRevokePermission, RolesCall
    <2>5. ASSUME NEW t \in Thread, OtherCall(t) PROVE UNCHANGED answers
      BY <2>5 DEF OtherCall, CheckPermission, Enable, Disable
    <2>6. ASSUME NEW t \in Thread, Continue(t), ~ CheckRoles(t) PROVE UNCHANGED answers
      BY <2>6 DEF Continue, GrantUser, DeleteUsers, EnableStore
    <2> QED
      BY <2>1, <2>2, <2>3, <2>4, <2>5, <2>6 DEF Next, vars
  <1> QED
    BY <1>1, <1>2, PTL DEF Spec
=============================================================================
