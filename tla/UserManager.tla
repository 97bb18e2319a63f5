----------------------------- MODULE UserManager ----------------------------
(***************************************************************************)
(* The accounts and the interactive session of                             *)
(* src/src/auth/UserManager.cpp.  A password is either the right one or a  *)
(* wrong one; salts and hashes are left out.                               *)
(***************************************************************************)
EXTENDS Integers, Owners

VARIABLES users,         \* users_: user name -> account
          currentUser    \* currentUser_, or NoUser

umVars == <<users, currentUser>>

UserAccount == [failedAttempts : Nat, status : {"NORMAL", "LOCKED"}]

isLoggedIn == currentUser # NoUser

UMInit ==
    /\ users = [u \in {} |-> u]
    /\ currentUser = NoUser

registerUser(u) ==
    /\ u \notin DOMAIN users
    /\ users' = [v \in DOMAIN users \cup {u} |->
                    IF v = u THEN [failedAttempts |-> 0, status |-> "NORMAL"]
                             ELSE users[v]]
    /\ UNCHANGED currentUser

(* The guards every login attempt passes before the password is compared.  *)
MayTryLogin(u) ==
    /\ ~isLoggedIn
    /\ u \in DOMAIN users
    /\ users[u].status # "LOCKED"

loginRejected(u) ==
    /\ MayTryLogin(u)
    /\ LET failed == users[u].failedAttempts + 1
       IN  users' = [users EXCEPT
               ![u].failedAttempts = failed,
               ![u].status = IF failed >= 3 THEN "LOCKED" ELSE @]
    /\ UNCHANGED currentUser

(* Mutant of login: the wrong attempts are not forgiven.                   *)
loginUnforgiving(u) ==
    /\ MayTryLogin(u)
    /\ currentUser' = u
    /\ UNCHANGED users

login(u) ==
    /\ MayTryLogin(u)
    /\ users' = [users EXCEPT ![u].failedAttempts = 0]
    /\ currentUser' = u

logout ==
    /\ isLoggedIn
    /\ currentUser' = NoUser
    /\ UNCHANGED users

(* importUsers never restores a session.                                   *)
importUsers(accounts) ==
    /\ users' = accounts
    /\ currentUser' = NoUser

-----------------------------------------------------------------------------
(* Accounts and the session are well typed.                                *)
UMTypeOK ==
    /\ DOMAIN users \subseteq Users
    /\ users \in [DOMAIN users -> UserAccount]
    /\ currentUser \in Users \cup {NoUser}

(* The session belongs to an account that exists and is not locked, and an *)
(* account is locked exactly after three wrong passwords in a row.         *)
SessionValid ==
    /\ isLoggedIn => /\ currentUser \in DOMAIN users
                     /\ users[currentUser].failedAttempts = 0
    /\ \A u \in DOMAIN users :
          users[u].status = "LOCKED" <=> users[u].failedAttempts >= 3
=============================================================================
