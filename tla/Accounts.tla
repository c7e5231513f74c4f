------------------------------- MODULE Accounts ------------------------------
(***************************************************************************)
(* Accounts: their public numbers, roles and standing                      *)
(* (apps/api/internal/data/store.go, httpapi/server.go).                   *)
(*                                                                         *)
(* MigrateAndSeed runs in one transaction before the server listens and    *)
(* repairs the numbers of an older volume; CreateUser takes the next       *)
(* number; UpdateUserAccess changes role and standing in one statement, on *)
(* behalf of an administrator whose own row was read when the request was  *)
(* authenticated.  Nothing deletes an account.                             *)
(***************************************************************************)
EXTENDS Integers, FiniteSets

CONSTANTS MaxAccounts,  \* bound: accounts, in the order of their creation
          MaxNumber,    \* the code's maxUserNumber, 2^63-1
          Desk          \* requests that can run at the same time

ASSUME AccountsAssumption ==
  /\ MaxAccounts \in Nat \ {0}
  /\ MaxNumber \in Nat \ {0, 1}

Account == 1 .. MaxAccounts
Seed == 1            \* usr_admin, the first of the order that numbers are given in
Null == -1           \* user_number IS NULL
Role == {"user", "admin"}
Standing == {"active", "suspended"}

VARIABLES
  exists,     \* the rows of users
  number,     \* user_number; 0 stands for every number that is not positive
  role, standing,
  next,       \* user_number_sequence.next_value, 0 when the row is missing
  up,         \* the server accepts requests
  migrated,   \* history: MigrateAndSeed has committed on this volume
  order       \* what each authenticated request of an administrator will do

accountsVars == <<exists, number, role, standing, next, up, migrated, order>>

NoOrder == [actor |-> 0, target |-> 0, role |-> "user", standing |-> "active"]

AccountsTypeOK ==
  /\ exists \in SUBSET Account
  /\ number \in [Account -> {Null} \cup 0 .. MaxNumber]
  /\ role \in [Account -> Role]
  /\ standing \in [Account -> Standing]
  /\ next \in 0 .. MaxNumber
  /\ up \in BOOLEAN /\ migrated \in BOOLEAN
  /\ order \in [Desk -> [actor : Account \cup {0}, target : Account \cup {0},
                         role : Role, standing : Standing]]

\* A new volume, or one of an older version: numbers may be missing, repeated or
\* not positive and the sequence may be missing or behind.  The administrator
\* that every version has seeded may still administer.
AccountsInit ==
  /\ exists \in {{}} \cup {1 .. n : n \in Account}
  /\ number \in {f \in [Account -> {Null} \cup 0 .. MaxNumber] :
                   \A a \in Account \ exists : f[a] = Null}
  /\ next \in IF exists = {} THEN {0} ELSE {0, 2}
  /\ role = [a \in Account |-> IF a = Seed THEN "admin" ELSE "user"]
  /\ standing = [a \in Account |-> "active"]
  /\ up = FALSE /\ migrated = FALSE
  /\ order = [d \in Desk |-> NoOrder]

Administers(a) == a \in exists /\ role[a] = "admin" /\ standing[a] = "active"

----------------------------------------------------------------------------
(* Startup                                                                 *)

Numbers(f, S) == {f[a] : a \in S}

\* m is the highest number in use, 0 when there is none.
IsHighest(m, f, S) == /\ m \in Numbers(f, S) \cup {0}
                      /\ \A n \in Numbers(f, S) : n <= m

\* needsRebuild: the administrator is not number 1, or a number is not positive
\* or given twice.
NeedsRebuild(f, S) ==
  \/ f[Seed] # 1
  \/ \E a \in S : f[a] = 0
  \/ \E a, b \in S : a # b /\ f[a] = f[b] /\ f[a] # Null

\* In the order of the accounts, f gives those of S the numbers first .. last.
Assigns(f, S, first, last) ==
  /\ last - first + 1 = Cardinality(S)
  /\ \A a \in S : f[a] \in first .. last
  /\ \A a, b \in S : a < b => f[a] < f[b]

\* backfillUserNumbers on the rows S: numbers old become new.
Backfill(S, old, new) ==
  \E m \in 0 .. MaxNumber :
    /\ IsHighest(m, old, S)
    /\ \A a \in Account \ S : new[a] = old[a]
    /\ IF NeedsRebuild(old, S)
       THEN /\ m <= MaxNumber - 2 * Cardinality(S)
            /\ Assigns(new, S, 1, Cardinality(S))
       ELSE LET missing == {a \in S : old[a] = Null} IN
            /\ m + Cardinality(missing) <= MaxNumber
            /\ \A a \in S \ missing : new[a] = old[a]
            /\ Assigns(new, missing, m + 1, m + Cardinality(missing))

\* MigrateAndSeed: seeds the administrator, numbers the accounts and lets the
\* sequence go on after the highest number, never back.
MigrateAndSeed(new) ==
  /\ ~up
  /\ exists' = exists \cup {Seed}
  /\ Backfill(exists', IF Seed \in exists THEN number ELSE [number EXCEPT ![Seed] = 1], new)
  /\ number' = new
  /\ \E m \in 0 .. MaxNumber - 1 :
       /\ IsHighest(m, new, exists')
       /\ next' = IF m + 1 > next THEN m + 1 ELSE next
  /\ up' = TRUE /\ migrated' = TRUE
  /\ UNCHANGED <<role, standing, order>>

\* The process ends at any time; requests that were under way end with it.
Stop ==
  /\ up
  /\ up' = FALSE
  /\ order' = [d \in Desk |-> NoOrder]
  /\ UNCHANGED <<exists, number, role, standing, next, migrated>>

----------------------------------------------------------------------------
(* Requests                                                                *)

\* Bug variant: the end of the range is not looked at.
CreateUserAnyway ==
  LET a == Cardinality(exists) + 1 IN
  /\ up /\ a \in Account
  /\ next > 0
  /\ exists' = exists \cup {a}
  /\ number' = [number EXCEPT ![a] = next]
  /\ next' = next + 1
  /\ UNCHANGED <<role, standing, up, migrated, order>>

\* register, CreateUser
CreateUser ==
  LET a == Cardinality(exists) + 1 IN
  /\ up /\ a \in Account
  /\ next > 0 /\ next # MaxNumber
  /\ exists' = exists \cup {a}
  /\ number' = [number EXCEPT ![a] = next]
  /\ next' = next + 1
  /\ UNCHANGED <<role, standing, up, migrated, order>>

\* authenticate (admin) and the checks of updateUser: nobody locks out themselves.
BeginUpdateUser(d, a, t, r, st) ==
  /\ up /\ order[d] = NoOrder
  /\ Administers(a)
  /\ t = a => r = "admin" /\ st = "active"
  /\ order' = [order EXCEPT ![d] = [actor |-> a, target |-> t, role |-> r, standing |-> st]]
  /\ UNCHANGED <<exists, number, role, standing, next, up, migrated>>

\* Bug variant: the last administrator is left to the check of the handler.
OthersAnyway(t) == TRUE

\* (SELECT COUNT(*) ... WHERE role='admin' AND status='active') > 1, asked when t
\* is one of them.
OthersAdminister(t) == \E b \in Account \ {t} : Administers(b)

\* UpdateUserAccess, one statement; otherwise ErrLastAdmin or ErrNotFound.
EndUpdateUser(d) ==
  LET o == order[d] IN
  /\ o # NoOrder
  /\ order' = [order EXCEPT ![d] = NoOrder]
  /\ \/ /\ o.target \in exists
        /\ \/ ~Administers(o.target)
           \/ o.role = "admin" /\ o.standing = "active"
           \/ OthersAdminister(o.target)
        /\ role' = [role EXCEPT ![o.target] = o.role]
        /\ standing' = [standing EXCEPT ![o.target] = o.standing]
     \/ /\ \/ o.target \notin exists
           \/ /\ Administers(o.target)
              /\ ~(o.role = "admin" /\ o.standing = "active")
              /\ ~OthersAdminister(o.target)
        /\ UNCHANGED <<role, standing>>
  /\ UNCHANGED <<exists, number, next, up, migrated>>

AccountsNext ==
  \/ \E new \in [Account -> {Null} \cup 0 .. MaxNumber] : MigrateAndSeed(new)
  \/ Stop
  \/ CreateUser
  \/ \E d \in Desk, a \in exists, t \in Account, r \in Role, st \in Standing :
       BeginUpdateUser(d, a, t, r, st)
  \/ \E d \in Desk : EndUpdateUser(d)

AccountsSpec == AccountsInit /\ [][AccountsNext]_accountsVars

----------------------------------------------------------------------------
(* Properties                                                              *)

\* Once a volume is migrated every account has a public number of its own, the
\* seeded administrator the first; the next one is higher than all of them and
\* still in range, so that no later startup can be refused for the numbers.
NumbersAreDistinct ==
  migrated =>
    /\ Seed \in exists /\ number[Seed] = 1
    /\ next <= MaxNumber
    /\ \A a \in exists : 0 < number[a] /\ number[a] < next
    /\ \A a, b \in exists : number[a] = number[b] => a = b

\* However administrators demote and suspend each other at the same time, and
\* though each was only asked for at the start of the request, one remains.
SomebodyAdministers == migrated => \E a \in Account : Administers(a)

AccountsInv == NumbersAreDistinct /\ SomebodyAdministers

\* A number once public stays with its account and is never given again, over
\* restarts as well.
NumbersKept ==
  migrated => /\ \A a \in exists : number'[a] = number[a]
              /\ \A a \in exists' \ exists : number'[a] >= next
              /\ next' >= next

NumbersAreStable == [][NumbersKept]_accountsVars
=============================================================================
