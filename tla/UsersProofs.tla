----------------------------- MODULE UsersProofs -----------------------------
(***************************************************************************)
(* What TLAPS proves of Accounts and Avatars, for any number of accounts,  *)
(* any size of the range of numbers, any volume of an older version, any   *)
(* images and any concurrent requests: numbers are distinct and kept over  *)
(* restarts, somebody may administer, the avatar of a row is installed, and*)
(* nothing else is left behind.                                            *)
(***************************************************************************)
EXTENDS Accounts, Avatars, FiniteSetTheorems, TLAPS

----------------------------------------------------------------------------
(* Accounts                                                                *)

\* Accounts are created in their order.
PrefixInv == \E n \in 0 .. MaxAccounts : exists = 1 .. n

\* Before the first migration nobody has changed a role or a standing.
BeforeMigration ==
  ~migrated => /\ ~up /\ role[Seed] = "admin" /\ standing[Seed] = "active"
               /\ order = [d \in Desk |-> NoOrder]

AccountsIInv == AccountsTypeOK /\ PrefixInv /\ BeforeMigration /\ AccountsInv

LEMMA AccountsInitIInv == AccountsInit => AccountsIInv
<1> SUFFICES ASSUME AccountsInit PROVE AccountsIInv
  OBVIOUS
<1>1. PrefixInv /\ exists \in SUBSET Account
  <2>1. {} = 1 .. 0 /\ 0 \in 0 .. MaxAccounts
    BY AccountsAssumption
  <2>2. \A n \in Account : n \in 0 .. MaxAccounts /\ 1 .. n \subseteq Account
    BY AccountsAssumption DEF Account
  <2> QED
    BY <2>1, <2>2 DEF AccountsInit, PrefixInv
<1>2. Seed \in Account /\ MaxNumber \in Nat \ {0}
  BY AccountsAssumption DEF Seed, Account
<1>3. next \in 0 .. MaxNumber
  BY AccountsAssumption DEF AccountsInit
<1> QED
  BY <1>1, <1>2, <1>3
     DEF AccountsInit, AccountsIInv, AccountsTypeOK, BeforeMigration, AccountsInv, NumbersAreDistinct,
         SomebodyAdministers, Role, Standing, NoOrder

\* A list of accounts that gets the numbers 1, 2, ... in order starts with 1.
LEMMA FirstIsOne ==
  ASSUME NEW n \in Nat \ {0}, NEW f, \A a \in 1 .. n : f[a] \in 1 .. n,
         \A a, b \in 1 .. n : a < b => f[a] < f[b]
  PROVE  f[1] = 1
<1> SUFFICES ASSUME f[1] # 1 PROVE FALSE
  OBVIOUS
<1> DEFINE g == [a \in 1 .. n |-> f[a]]
<1>1. g \in [1 .. n -> 2 .. n]
  <2> SUFFICES ASSUME NEW a \in 1 .. n PROVE f[a] \in 2 .. n
    OBVIOUS
  <2>1. 1 \in 1 .. n /\ f[1] \in 1 .. n /\ f[a] \in 1 .. n
    OBVIOUS
  <2>2. a = 1 \/ f[1] < f[a]
    BY <2>1
  <2> QED
    BY <2>1, <2>2
<1>2. /\ IsFiniteSet(1 .. n) /\ IsFiniteSet(2 .. n)
      /\ Cardinality(2 .. n) < Cardinality(1 .. n)
  <2>1. /\ IsFiniteSet(1 .. n)
        /\ Cardinality(1 .. n) = IF 1 > n THEN 0 ELSE n - 1 + 1
    BY FS_Interval
  <2>2. /\ IsFiniteSet(2 .. n)
        /\ Cardinality(2 .. n) = IF 2 > n THEN 0 ELSE n - 2 + 1
    BY FS_Interval
  <2> QED
    BY <2>1, <2>2
<1>3. PICK a \in 1 .. n, b \in 1 .. n : a # b /\ g[a] = g[b]
  <2> HIDE DEF g
  <2>1. PICK S : S = 1 .. n
    OBVIOUS
  <2>2. PICK T : T = 2 .. n
    OBVIOUS
  <2>3. IsFiniteSet(S) /\ IsFiniteSet(T) /\ Cardinality(T) < Cardinality(S) /\ g \in [S -> T]
    BY <1>1, <1>2, <2>1, <2>2
  <2>4. \E x, y \in S : x # y /\ g[x] = g[y]
    BY ONLY <2>3, FS_PigeonHole
  <2> QED
    BY <2>1, <2>4
<1>4. f[a] = f[b] /\ f[a] \in Int /\ f[b] \in Int
  BY <1>3
<1>5. a < b \/ b < a
  BY <1>3
<1> QED
  BY <1>4, <1>5

\* Public numbers: positive, in range, distinct, the administrator's first.
Numbered(f, S) == /\ f[Seed] = 1
                  /\ \A a \in S : f[a] \in 1 .. MaxNumber
                  /\ \A a, b \in S : f[a] = f[b] => a = b

\* The backfill numbers every account, and leaves alone what is numbered.
LEMMA BackfillNumbers ==
  ASSUME NEW n \in Account, NEW S, S = 1 .. n,
         NEW old \in [Account -> {Null} \cup 0 .. MaxNumber],
         NEW new \in [Account -> {Null} \cup 0 .. MaxNumber], Backfill(S, old, new)
  PROVE  Numbered(new, S) /\ (Numbered(old, S) => new = old)
<1>1. /\ n \in Nat /\ n >= 1 /\ S \subseteq Account /\ Seed \in S /\ Seed = 1
      /\ Cardinality(S) = n /\ S \subseteq Nat /\ MaxNumber \in Nat /\ Null \notin Nat
  <2>1. n \in Nat /\ n >= 1
    BY AccountsAssumption DEF Account
  <2>2. Cardinality(1 .. n) = IF 1 > n THEN 0 ELSE n - 1 + 1
    BY <2>1, FS_Interval
  <2> QED
    BY <2>1, <2>2, AccountsAssumption DEF Account, Seed, Null
<1>2. PICK m \in 0 .. MaxNumber :
        /\ IsHighest(m, old, S)
        /\ \A a \in Account \ S : new[a] = old[a]
        /\ IF NeedsRebuild(old, S)
           THEN /\ m <= MaxNumber - 2 * n
                /\ Assigns(new, S, 1, n)
           ELSE LET missing == {a \in S : old[a] = Null} IN
                /\ m + Cardinality(missing) <= MaxNumber
                /\ \A a \in S \ missing : new[a] = old[a]
                /\ Assigns(new, missing, m + 1, m + Cardinality(missing))
  BY <1>1 DEF Backfill
<1>3. CASE NeedsRebuild(old, S)
  <2>1. /\ \A a \in S : new[a] \in 1 .. n
        /\ \A a, b \in S : a < b => new[a] < new[b]
        /\ n <= MaxNumber
    BY <1>1, <1>2, <1>3 DEF Assigns
  <2>2. new[1] = 1
    BY SMTT(30), <1>1, <2>1, FirstIsOne
  <2>3. \A a, b \in S : new[a] = new[b] => a = b
    <3> SUFFICES ASSUME NEW a \in S, NEW b \in S, new[a] = new[b], a # b PROVE FALSE
      OBVIOUS
    <3>1. a < b \/ b < a
      BY <1>1
    <3>2. new[a] \in Int /\ new[b] \in Int
      BY <2>1
    <3> QED
      BY <2>1, <3>1, <3>2
  <2>4. ~Numbered(old, S)
    BY <1>1, <1>3 DEF NeedsRebuild, Numbered, Null
  <2> QED
    BY <1>1, <2>1, <2>2, <2>3, <2>4 DEF Numbered
<1>4. CASE ~NeedsRebuild(old, S)
  <2> DEFINE missing == {a \in S : old[a] = Null}
             c == Cardinality(missing)
  <2>0. c \in Nat
    <3>1. IsFiniteSet(S)
      BY <1>1, FS_Interval
    <3>2. IsFiniteSet(missing)
      BY <3>1, FS_Subset
    <3> QED
      BY <3>2, FS_CardinalityType
  <2>1. /\ m + c <= MaxNumber
        /\ \A a \in S \ missing : new[a] = old[a]
        /\ \A a \in missing : new[a] \in m + 1 .. m + c
        /\ \A a, b \in missing : a < b => new[a] < new[b]
    BY <1>2, <1>4 DEF Assigns
  <2>2. /\ old[Seed] = 1
        /\ \A a \in S : old[a] # 0
        /\ \A a, b \in S : a # b /\ old[a] = old[b] => old[a] = Null
    BY <1>4 DEF NeedsRebuild
  <2>3. \A a \in S \ missing : old[a] \in 1 .. MaxNumber /\ old[a] <= m
    BY <1>1, <1>2, <2>2 DEF IsHighest, Numbers
  <2> HIDE DEF c
  <2>4. \A a \in S : new[a] \in 1 .. MaxNumber
    <3>1. m \in Nat /\ MaxNumber \in Nat
      BY <1>1, <1>2
    <3>2. \A a \in missing : new[a] \in 1 .. MaxNumber
      BY <2>0, <2>1, <3>1
    <3>3. \A a \in S \ missing : new[a] \in 1 .. MaxNumber
      BY <2>1, <2>3
    <3> QED
      BY <3>2, <3>3
  <2>5. new[Seed] = 1
    BY <1>1, <2>1, <2>2
  <2>6. \A a, b \in S : new[a] = new[b] => a = b
    <3> SUFFICES ASSUME NEW a \in S, NEW b \in S, new[a] = new[b], a # b PROVE FALSE
      OBVIOUS
    <3>1. a < b \/ b < a
      BY <1>1
    <3>2. new[a] \in Int /\ new[b] \in Int
      BY <2>4
    <3>3. CASE a \in missing /\ b \in missing
      BY <2>1, <3>1, <3>2, <3>3
    <3>4. CASE a \in missing /\ b \notin missing
      BY <2>0, <2>1, <2>3, <3>4
    <3>5. CASE a \notin missing /\ b \in missing
      BY <2>0, <2>1, <2>3, <3>5
    <3>6. CASE a \notin missing /\ b \notin missing
      BY <1>1, <2>1, <2>2, <2>3, <3>6
    <3> QED
      BY <3>3, <3>4, <3>5, <3>6
  <2>7. Numbered(old, S) => new = old
    <3> SUFFICES ASSUME Numbered(old, S) PROVE \A a \in Account : new[a] = old[a]
      OBVIOUS
    <3>1. missing = {}
      BY <1>1 DEF Numbered
    <3> QED
      BY <1>2, <2>1, <3>1
  <2> QED
    BY <2>4, <2>5, <2>6, <2>7 DEF Numbered
<1> QED
  BY <1>3, <1>4

LEMMA MigrationKeeps ==
  ASSUME AccountsIInv, NEW new \in [Account -> {Null} \cup 0 .. MaxNumber], MigrateAndSeed(new)
  PROVE  AccountsIInv' /\ NumbersKept
<1> USE DEF AccountsIInv
<1>1. PICK n \in Account : exists' = 1 .. n /\ (Seed \in exists => exists' = exists)
  <2>1. PICK k \in 0 .. MaxAccounts : exists = 1 .. k
    BY DEF PrefixInv
  <2>2. CASE k = 0
    <3>1. exists' = 1 .. 1 /\ 1 \in Account /\ Seed \notin exists
      BY <2>1, <2>2, AccountsAssumption DEF MigrateAndSeed, Seed, Account
    <3> QED
      BY <3>1
  <2>3. CASE k # 0
    <3>1. exists' = 1 .. k /\ k \in Account /\ exists' = exists
      BY <2>1, <2>3, AccountsAssumption DEF MigrateAndSeed, Seed, Account
    <3> QED
      BY <3>1
  <2> QED
    BY <2>2, <2>3
<1>2. PICK old : old = IF Seed \in exists THEN number ELSE [number EXCEPT ![Seed] = 1]
  OBVIOUS
<1>3. /\ Seed \in exists' /\ Seed \in Account /\ MaxNumber \in Nat \ {0, 1}
      /\ exists' \in SUBSET Account
  BY <1>1, AccountsAssumption DEF Seed, Account
<1>4. old \in [Account -> {Null} \cup 0 .. MaxNumber]
  BY <1>2, <1>3 DEF AccountsTypeOK
<1>5. number' = new /\ Backfill(exists', old, new)
  BY <1>2 DEF MigrateAndSeed
<1>6. Numbered(new, exists') /\ (Numbered(old, exists') => new = old)
  BY <1>1, <1>4, <1>5, BackfillNumbers
<1>7. PICK m \in 0 .. MaxNumber - 1 : /\ IsHighest(m, new, exists')
                                      /\ next' = IF m + 1 > next THEN m + 1 ELSE next
  BY DEF MigrateAndSeed
<1>8. next' \in 0 .. MaxNumber /\ next' > m /\ next' >= next
  BY <1>3, <1>7 DEF AccountsTypeOK
<1>9. AccountsTypeOK'
  BY <1>3, <1>5, <1>8 DEF AccountsTypeOK, MigrateAndSeed
<1>10. PrefixInv'
  BY <1>1, AccountsAssumption DEF PrefixInv, Account
<1>11. NumbersAreDistinct'
  <2>1. \A a \in exists' : number'[a] <= m /\ number'[a] \in 1 .. MaxNumber
    BY <1>5, <1>6, <1>7 DEF IsHighest, Numbers, Numbered
  <2>2. \A a \in exists' : 0 < number'[a] /\ number'[a] < next'
    BY <1>3, <1>8, <2>1
  <2>3. next' <= MaxNumber
    BY <1>3, <1>8
  <2> QED
    BY <1>3, <1>5, <1>6, <2>2, <2>3 DEF NumbersAreDistinct, Numbered
<1>12. SomebodyAdministers'
  <2>1. CASE migrated
    <3>1. PICK b \in Account : Administers(b)
      BY <2>1 DEF AccountsInv, SomebodyAdministers
    <3> QED
      BY <3>1 DEF MigrateAndSeed, SomebodyAdministers, Administers
  <2>2. CASE ~migrated
    BY <1>3, <2>2 DEF BeforeMigration, MigrateAndSeed, SomebodyAdministers, Administers
  <2> QED
    BY <2>1, <2>2
<1>13. BeforeMigration'
  BY DEF MigrateAndSeed, BeforeMigration
<1>14. NumbersKept
  <2> SUFFICES ASSUME migrated
               PROVE  /\ \A a \in exists : number'[a] = number[a]
                      /\ exists' = exists
                      /\ next' >= next
    BY DEF NumbersKept
  <2>1. Seed \in exists /\ old = number /\ exists' = exists
    BY <1>1, <1>2 DEF AccountsInv, NumbersAreDistinct
  <2>2. Numbered(old, exists')
    BY <1>3, <2>1 DEF AccountsInv, NumbersAreDistinct, AccountsTypeOK, Numbered, Null
  <2> QED
    BY <1>5, <1>6, <1>8, <2>1, <2>2
<1> QED
  BY <1>9, <1>10, <1>11, <1>12, <1>13, <1>14 DEF AccountsInv

LEMMA CreateKeeps ==
  ASSUME AccountsIInv, CreateUser
  PROVE  AccountsIInv' /\ NumbersKept
<1> USE DEF AccountsIInv
<1>1. PICK n \in 0 .. MaxAccounts : exists = 1 .. n
  BY DEF PrefixInv
<1>2. Cardinality(exists) = n
  <2>1. Cardinality(1 .. n) = IF 1 > n THEN 0 ELSE n - 1 + 1
    BY <1>1, AccountsAssumption, FS_Interval
  <2> QED
    BY <1>1, <2>1, AccountsAssumption
<1>3. PICK a \in Account : a = n + 1
  BY <1>2 DEF CreateUser
<1>4. /\ next > 0 /\ next # MaxNumber
      /\ exists' = exists \cup {a} /\ number' = [number EXCEPT ![a] = next]
      /\ next' = next + 1 /\ UNCHANGED <<role, standing, up, migrated, order>>
      /\ up
  BY <1>2, <1>3 DEF CreateUser
<1>5. a \notin exists /\ exists' = 1 .. a /\ a \in 0 .. MaxAccounts /\ next \in Nat
      /\ MaxNumber \in Nat /\ next < MaxNumber
  BY <1>1, <1>3, <1>4, AccountsAssumption DEF Account, AccountsTypeOK
<1>6. \A b \in exists : number'[b] = number[b] /\ b # a /\ b \in Account
  BY <1>4, <1>5 DEF AccountsTypeOK
<1>7. number'[a] = next
  BY <1>4 DEF AccountsTypeOK
<1>8. AccountsTypeOK'
  BY <1>4, <1>5 DEF AccountsTypeOK
<1>9. PrefixInv' /\ BeforeMigration'
  BY <1>4, <1>5 DEF PrefixInv, BeforeMigration
<1>10. NumbersAreDistinct'
  <2>1. /\ Seed \in exists /\ number[Seed] = 1
        /\ \A b \in exists : 0 < number[b] /\ number[b] < next /\ number[b] \in Int
        /\ \A b, c \in exists : number[b] = number[c] => b = c
    BY <1>4 DEF BeforeMigration, AccountsInv, NumbersAreDistinct, AccountsTypeOK, Null
  <2>2. \A b \in exists' : b \in exists \/ b = a
    BY <1>4
  <2>3. \A b \in exists' : 0 < number'[b] /\ number'[b] < next'
    BY <1>4, <1>5, <1>6, <1>7, <2>1, <2>2
  <2>4. \A b, c \in exists' : number'[b] = number'[c] => b = c
    BY <1>5, <1>6, <1>7, <2>1, <2>2
  <2> QED
    BY <1>4, <1>5, <1>6, <2>1, <2>3, <2>4 DEF NumbersAreDistinct
<1>11. SomebodyAdministers'
  BY <1>4 DEF AccountsInv, SomebodyAdministers, Administers
<1>12. NumbersKept
  BY <1>4, <1>5, <1>6, <1>7 DEF NumbersKept
<1> QED
  BY <1>8, <1>9, <1>10, <1>11, <1>12 DEF AccountsInv

LEMMA UpdateKeeps ==
  ASSUME AccountsIInv, NEW d \in Desk, EndUpdateUser(d)
  PROVE  AccountsIInv' /\ NumbersKept
<1> USE DEF AccountsIInv
<1> DEFINE t == order[d].target
<1>1. /\ order[d] # NoOrder /\ order' = [order EXCEPT ![d] = NoOrder]
      /\ UNCHANGED <<exists, number, next, up, migrated>>
  BY DEF EndUpdateUser
<1>2. NoOrder \in [actor : Account \cup {0}, target : Account \cup {0}, role : Role,
                   standing : Standing]
  BY DEF NoOrder, Role, Standing
<1>3. migrated
  BY <1>1 DEF BeforeMigration
<1>4. NumbersAreDistinct' /\ PrefixInv' /\ NumbersKept
  BY <1>1 DEF AccountsInv, NumbersAreDistinct, PrefixInv, NumbersKept, AccountsTypeOK
<1>5. CASE UNCHANGED <<role, standing>>
  <2>1. AccountsTypeOK' /\ BeforeMigration' /\ SomebodyAdministers'
    BY <1>1, <1>2, <1>3, <1>5
       DEF AccountsTypeOK, BeforeMigration, AccountsInv, SomebodyAdministers, Administers
  <2> QED
    BY <1>4, <2>1 DEF AccountsInv
<1>6. CASE /\ t \in exists
           /\ \/ ~Administers(t)
              \/ order[d].role = "admin" /\ order[d].standing = "active"
              \/ OthersAdminister(t)
           /\ role' = [role EXCEPT ![t] = order[d].role]
           /\ standing' = [standing EXCEPT ![t] = order[d].standing]
  <2>1. t \in Account /\ order[d].role \in Role /\ order[d].standing \in Standing
    BY <1>6 DEF AccountsTypeOK
  <2>2. AccountsTypeOK' /\ BeforeMigration'
    BY <1>1, <1>2, <1>3, <1>6, <2>1 DEF AccountsTypeOK, BeforeMigration
  <2>3. \A b \in Account \ {t} : Administers(b) => Administers(b)'
    BY <1>1, <1>6, <2>1 DEF AccountsTypeOK, Administers
  <2>4. PICK b \in Account : Administers(b)
    BY <1>3 DEF AccountsInv, SomebodyAdministers
  <2>5. CASE order[d].role = "admin" /\ order[d].standing = "active"
    <3>1. t \in exists' /\ role'[t] = "admin" /\ standing'[t] = "active"
      BY <1>1, <1>6, <2>1, <2>5 DEF AccountsTypeOK
    <3> QED
      BY <1>4, <2>1, <2>2, <3>1 DEF AccountsInv, SomebodyAdministers, Administers
  <2>6. CASE ~Administers(t)
    BY <1>4, <2>2, <2>3, <2>4, <2>6 DEF AccountsInv, SomebodyAdministers
  <2>7. CASE OthersAdminister(t)
    BY <1>4, <2>2, <2>3, <2>7 DEF AccountsInv, SomebodyAdministers, OthersAdminister
  <2> QED
    BY <1>6, <2>5, <2>6, <2>7
<1> QED
  BY <1>5, <1>6 DEF EndUpdateUser

LEMMA AccountsNextIInv == AccountsIInv /\ [AccountsNext]_accountsVars => AccountsIInv' /\ [NumbersKept]_accountsVars
<1> SUFFICES ASSUME AccountsIInv, [AccountsNext]_accountsVars
             PROVE  AccountsIInv' /\ (NumbersKept \/ UNCHANGED accountsVars)
  OBVIOUS
<1> USE DEF AccountsIInv
<1>1. CASE Stop
  <2>1. [d \in Desk |-> NoOrder] \in [Desk -> [actor : Account \cup {0},
             target : Account \cup {0}, role : Role, standing : Standing]]
    BY DEF NoOrder, Role, Standing
  <2>2. AccountsTypeOK' /\ PrefixInv' /\ AccountsInv'
    BY <1>1, <2>1 DEF Stop, AccountsTypeOK, PrefixInv, AccountsInv, NumbersAreDistinct,
       SomebodyAdministers, Administers
  <2>3. BeforeMigration'
    BY <1>1 DEF Stop, BeforeMigration
  <2>4. NumbersKept
    BY <1>1 DEF Stop, NumbersKept, AccountsTypeOK
  <2> QED
    BY <2>2, <2>3, <2>4
<1>2. ASSUME NEW d \in Desk, NEW a \in exists, NEW t \in Account, NEW r \in Role,
             NEW st \in Standing, BeginUpdateUser(d, a, t, r, st)
      PROVE  AccountsIInv' /\ NumbersKept
  BY <1>2 DEF BeginUpdateUser, AccountsTypeOK, PrefixInv, BeforeMigration, AccountsInv,
     NumbersAreDistinct, SomebodyAdministers, Administers, NumbersKept
<1>3. UNCHANGED accountsVars => AccountsIInv'
  BY DEF accountsVars, AccountsTypeOK, PrefixInv, BeforeMigration, AccountsInv,
     NumbersAreDistinct, SomebodyAdministers, Administers
<1> QED
  BY <1>1, <1>2, <1>3, MigrationKeeps, CreateKeeps, UpdateKeeps DEF AccountsNext

\* The strengthened invariant, for every instance.
THEOREM AccountsInvariant == AccountsSpec => []AccountsIInv
<1> QED
  BY AccountsInitIInv, AccountsNextIInv, PTL DEF AccountsSpec

\* The variables of the accounts keep their types; no number leaves its range.
THEOREM AccountsTypeCorrect == AccountsSpec => []AccountsTypeOK
<1>1. AccountsIInv => AccountsTypeOK
  BY DEF AccountsIInv
<1> QED
  BY <1>1, AccountsInvariant, PTL

\* Numbers are distinct and below the next one, and somebody administers.
THEOREM AccountsCorrect == AccountsSpec => []AccountsInv
<1>1. AccountsIInv => AccountsInv
  BY DEF AccountsIInv
<1> QED
  BY <1>1, AccountsInvariant, PTL

\* A public number stays with its account and is not given again.
THEOREM NumbersStay == AccountsSpec => NumbersAreStable
<1> QED
  BY AccountsInvariant, AccountsNextIInv, PTL DEF AccountsSpec, NumbersAreStable

----------------------------------------------------------------------------
(* Avatars                                                                 *)

Inside(s) == request[s].at \in {"installed", "written"}

\* One request at a time is inside the lock, and another one may not be let in.
LockHeld == /\ \A s \in Session : Inside(s) => locked
            /\ \A s, t \in Session : Inside(s) /\ Inside(t) => s = t

AvatarKept == avatar \in Picture => avatar \in files \/ misnamed

\* Outside the lock all files are the avatar.
Tidy == ~locked => files \subseteq {avatar} \/ littered

\* Installed: the new file is there, and was the avatar's if it was there before.
InstalledOK(s) ==
  LET r == request[s] IN
  r.at = "installed" =>
    /\ r.url \in Picture /\ r.url \in files
    /\ r.made => avatar # r.url \/ misnamed
    /\ littered \/ files \subseteq (IF r.made THEN {avatar, r.url} ELSE {avatar})

\* Written: what is left of the old avatar is what the request has read of it.
WrittenOK(s) ==
  LET r == request[s] IN
  r.at = "written" => /\ avatar = r.url
                      /\ littered \/ files \subseteq {r.read, r.url}

UploadOK(s) == request[s].at = "upload" => request[s].url \in Picture

AvatarsIInv ==
  /\ AvatarsTypeOK /\ LockHeld /\ AvatarKept /\ Tidy
  /\ \A s \in Session : InstalledOK(s) /\ WrittenOK(s) /\ UploadOK(s)

LEMMA AvatarsInitIInv == AvatarsInit => AvatarsIInv
<1> SUFFICES ASSUME AvatarsInit PROVE AvatarsIInv
  OBVIOUS
<1>1. \A s \in Session : request[s] = Outside /\ request[s].at = "none"
  BY DEF AvatarsInit, Outside
<1>2. AvatarsTypeOK
  BY DEF AvatarsInit, AvatarsTypeOK, Outside, Url
<1>3. LockHeld /\ \A s \in Session : InstalledOK(s) /\ WrittenOK(s) /\ UploadOK(s)
  BY <1>1 DEF LockHeld, Inside, InstalledOK, WrittenOK, UploadOK
<1>4. AvatarKept /\ Tidy
  BY AvatarsAssumption DEF AvatarsInit, AvatarKept, Tidy
<1> QED
  BY <1>2, <1>3, <1>4 DEF AvatarsIInv

AllRequests == [at : {"none", "upload", "edit", "installed", "written"},
                read : Url, url : Url, made : BOOLEAN]

LEMMA OutsideFacts == Outside \in AllRequests /\ Outside.at = "none"
BY DEF Outside, AllRequests, Url

\* A request outside the lock changes, and takes no lock.
LEMMA OutsideKeeps ==
  ASSUME AvatarsIInv, NEW s \in Session, NEW new \in AllRequests, ~Inside(s),
         request' = [request EXCEPT ![s] = new], new.at \in {"none", "upload", "edit"},
         new.at = "upload" => new.url \in Picture, UNCHANGED <<avatar, files, locked, misnamed, littered>>
  PROVE  AvatarsIInv'
<1> USE DEF AvatarsIInv
<1>1. /\ request' \in [Session -> AllRequests] /\ request'[s] = new
      /\ \A t \in Session \ {s} : request'[t] = request[t]
  BY DEF AvatarsTypeOK, AllRequests
<1>2. \A t \in Session : Inside(t)' => Inside(t) /\ t # s
  BY <1>1 DEF Inside
<1>3. AvatarsTypeOK' /\ LockHeld' /\ AvatarKept' /\ Tidy'
  BY <1>1, <1>2 DEF AvatarsTypeOK, AllRequests, LockHeld, AvatarKept, Tidy
<1>4. ASSUME NEW t \in Session PROVE (InstalledOK(t) /\ WrittenOK(t) /\ UploadOK(t))'
  BY <1>1 DEF InstalledOK, WrittenOK, UploadOK
<1> QED
  BY <1>3, <1>4

LEMMA BeginKeeps ==
  ASSUME AvatarsIInv, NEW s \in Session,
         \/ \E p \in Picture : BeginUpload(s, p)
         \/ \E u \in Url : BeginProfileEdit(s, u)
         \/ EditFails(s)
  PROVE  AvatarsIInv'
<1>1. PICK new :
        /\ new \in AllRequests /\ new.at \in {"none", "upload", "edit"}
        /\ new.at = "upload" => new.url \in Picture
        /\ request' = [request EXCEPT ![s] = new]
  BY OutsideFacts
     DEF BeginUpload, BeginProfileEdit, EditFails, AvatarsIInv, AvatarsTypeOK, AllRequests, Url, Outside
<1>2. ~Inside(s) /\ UNCHANGED <<avatar, files, locked, misnamed, littered>>
  BY DEF BeginUpload, BeginProfileEdit, EditFails, Inside
<1> QED
  BY <1>1, <1>2, OutsideKeeps

\* The request that holds the lock, or takes it, moves on: the others are outside.
LEMMA InsideKeeps ==
  ASSUME AvatarsIInv, NEW s \in Session, NEW new \in AllRequests,
         request' = [request EXCEPT ![s] = new], \A t \in Session \ {s} : ~Inside(t),
         avatar' \in Url, files' \in SUBSET Picture, locked' \in BOOLEAN, misnamed' \in BOOLEAN,
         littered' \in BOOLEAN, new.at # "upload", Inside(s)' => locked',
         AvatarKept', Tidy', InstalledOK(s)', WrittenOK(s)'
  PROVE  AvatarsIInv'
<1> USE DEF AvatarsIInv
<1>1. /\ request' \in [Session -> AllRequests] /\ request'[s] = new
      /\ \A t \in Session \ {s} : request'[t] = request[t]
  BY DEF AvatarsTypeOK, AllRequests
<1>2. \A t \in Session : Inside(t)' => t = s
  BY <1>1 DEF Inside
<1>3. AvatarsTypeOK' /\ LockHeld'
  BY <1>1, <1>2 DEF AvatarsTypeOK, AllRequests, LockHeld
<1>4. ASSUME NEW t \in Session, t # s PROVE (InstalledOK(t) /\ WrittenOK(t) /\ UploadOK(t))'
  BY <1>1, <1>4 DEF InstalledOK, WrittenOK, UploadOK, Inside
<1>5. UploadOK(s)'
  BY <1>1 DEF UploadOK
<1> QED
  BY <1>3, <1>4, <1>5

LEMMA InstallKeeps == ASSUME AvatarsIInv, NEW s \in Session, Install(s) PROVE AvatarsIInv'
<1> USE DEF AvatarsIInv
<1>1. PICK r : r = request[s]
  OBVIOUS
<1>2. r \in AllRequests /\ r.url \in Picture /\ ~locked
  BY <1>1 DEF AvatarsTypeOK, AllRequests, UploadOK, Install, AvatarLockFree
<1>3. PICK new : new = [r EXCEPT !.at = "installed", !.made = r.url \notin files]
  OBVIOUS
<1>4. /\ new \in AllRequests /\ request' = [request EXCEPT ![s] = new] /\ request'[s] = new
      /\ new.at = "installed" /\ new.url = r.url /\ new.made = (r.url \notin files)
  BY <1>1, <1>2, <1>3 DEF Install, AvatarsTypeOK, AllRequests
<1>5. \A t \in Session \ {s} : ~Inside(t)
  BY <1>2 DEF LockHeld
<1>6. AvatarKept' /\ Tidy' /\ files' \in SUBSET Picture
  BY <1>1, <1>2 DEF Install, AvatarKept, Tidy, AvatarsTypeOK
<1>7. InstalledOK(s)'
  <2>1. files' = files \cup {r.url} /\ UNCHANGED <<avatar, misnamed, littered>>
    BY <1>1 DEF Install
  <2>2. files \subseteq {avatar} \/ littered
    BY <1>2 DEF Tidy
  <2>3. r.url \notin files => avatar # r.url \/ misnamed
    BY <1>2 DEF AvatarKept
  <2>4. CASE r.url \notin files
    <3>1. new.made = TRUE
      BY <1>4, <2>4
    <3> QED
      BY <3>1, <1>2, <1>4, <2>1, <2>2, <2>3, <2>4 DEF InstalledOK
  <2>5. CASE r.url \in files
    <3>1. new.made = FALSE
      BY <1>4, <2>5
    <3> QED
      BY <3>1, <1>2, <1>4, <2>1, <2>2, <2>5 DEF InstalledOK
  <2> QED
    BY <2>4, <2>5
<1>8. WrittenOK(s)'
  BY <1>4 DEF WrittenOK
<1> QED
  BY <1>4, <1>5, <1>6, <1>7, <1>8, InsideKeeps DEF Install, AvatarsTypeOK

LEMMA InstallFailsKeeps == ASSUME AvatarsIInv, NEW s \in Session, InstallFails(s) PROVE AvatarsIInv'
<1> USE DEF AvatarsIInv
<1>1. ~locked /\ request[s].at = "upload"
  BY DEF InstallFails, AvatarLockFree
<1>2. Outside \in AllRequests /\ request'[s] = Outside /\ Outside.at = "none"
  BY OutsideFacts DEF InstallFails, AvatarsTypeOK
<1>3. \A t \in Session \ {s} : ~Inside(t)
  BY <1>1 DEF LockHeld
<1>4. AvatarKept' /\ Tidy' /\ files' \in SUBSET Picture /\ littered' \in BOOLEAN
  <2>1. CASE UNCHANGED <<files, littered>>
    BY <1>1, <2>1 DEF InstallFails, AvatarKept, Tidy, AvatarsTypeOK
  <2>2. CASE files' = files \cup {request[s].url} /\ littered' = TRUE
    BY <1>1, <2>2 DEF InstallFails, AvatarKept, Tidy, AvatarsTypeOK, UploadOK
  <2> QED
    BY <2>1, <2>2 DEF InstallFails
<1>5. InstalledOK(s)' /\ WrittenOK(s)' /\ ~Inside(s)'
  BY <1>2 DEF InstalledOK, WrittenOK, Inside
<1> QED
  BY <1>2, <1>3, <1>4, <1>5, InsideKeeps DEF InstallFails, AvatarsTypeOK

LEMMA WriteUploadKeeps == ASSUME AvatarsIInv, NEW s \in Session, WriteUpload(s) PROVE AvatarsIInv'
<1> USE DEF AvatarsIInv
<1>1. PICK r : r = request[s]
  OBVIOUS
<1>2. r \in AllRequests /\ r.at = "installed" /\ Inside(s)
  BY <1>1 DEF AvatarsTypeOK, AllRequests, WriteUpload, Inside
<1>3. PICK new : new = [r EXCEPT !.at = "written"]
  OBVIOUS
<1>4. /\ new \in AllRequests /\ request' = [request EXCEPT ![s] = new] /\ request'[s] = new
      /\ new.at = "written" /\ new.url = r.url /\ new.read = r.read
  BY <1>1, <1>2, <1>3 DEF WriteUpload, AvatarsTypeOK, AllRequests
<1>5. \A t \in Session \ {s} : ~Inside(t)
  BY <1>2 DEF LockHeld
<1>6. /\ avatar' = r.url /\ ~misnamed' /\ files' = files /\ locked' = locked /\ locked
      /\ littered' = (littered \/ r.read # avatar)
  BY <1>1, <1>2 DEF WriteUpload, LockHeld
<1>7. /\ r.url \in files /\ r.url \in Url
      /\ littered \/ files \subseteq {avatar, r.url}
  BY <1>1, <1>2 DEF InstalledOK, AllRequests
<1>8. AvatarKept' /\ Tidy'
  BY <1>6, <1>7 DEF AvatarKept, Tidy
<1>9. InstalledOK(s)' /\ WrittenOK(s)'
  BY <1>4, <1>6, <1>7 DEF InstalledOK, WrittenOK
<1>10. /\ littered' \in BOOLEAN /\ misnamed' \in BOOLEAN /\ locked' \in BOOLEAN
       /\ files' \in SUBSET Picture
  BY <1>6 DEF WriteUpload, AvatarsTypeOK
<1> QED
  BY <1>4, <1>5, <1>6, <1>7, <1>8, <1>9, <1>10, InsideKeeps

LEMMA WriteUploadFailsKeeps == ASSUME AvatarsIInv, NEW s \in Session, WriteUploadFails(s) PROVE AvatarsIInv'
<1> USE DEF AvatarsIInv
<1>1. PICK r : r = request[s]
  OBVIOUS
<1>2. r.at = "installed" /\ Inside(s)
  BY <1>1 DEF WriteUploadFails, Inside
<1>3. Outside \in AllRequests /\ request'[s] = Outside /\ Outside.at = "none"
  BY OutsideFacts DEF WriteUploadFails, AvatarsTypeOK
<1>4. \A t \in Session \ {s} : ~Inside(t)
  BY <1>2 DEF LockHeld
<1>5. /\ files' = IF r.made THEN files \ {r.url} ELSE files
      /\ UNCHANGED <<avatar, misnamed, littered>>
  BY <1>1 DEF WriteUploadFails
<1>6. InstalledOK(s)
  OBVIOUS
<1>7. AvatarKept' /\ Tidy' /\ files' \in SUBSET Picture
  BY <1>1, <1>2, <1>5, <1>6 DEF InstalledOK, AvatarKept, Tidy, AvatarsTypeOK
<1>8. InstalledOK(s)' /\ WrittenOK(s)' /\ ~Inside(s)'
  BY <1>3 DEF InstalledOK, WrittenOK, Inside
<1> QED
  BY <1>3, <1>4, <1>5, <1>7, <1>8, InsideKeeps DEF WriteUploadFails, AvatarsTypeOK

LEMMA WriteEditKeeps == ASSUME AvatarsIInv, NEW s \in Session, WriteEdit(s) PROVE AvatarsIInv'
<1> USE DEF AvatarsIInv
<1>1. PICK r : r = request[s]
  OBVIOUS
<1>2. r \in AllRequests /\ r.url \in Url /\ ~locked
  BY <1>1 DEF AvatarsTypeOK, AllRequests, WriteEdit, AvatarLockFree
<1>3. PICK new : new = [r EXCEPT !.at = "written"]
  OBVIOUS
<1>4. /\ new \in AllRequests /\ request' = [request EXCEPT ![s] = new] /\ request'[s] = new
      /\ new.at = "written" /\ new.url = r.url /\ new.read = r.read
  BY <1>1, <1>2, <1>3 DEF WriteEdit, AvatarsTypeOK, AllRequests
<1>5. \A t \in Session \ {s} : ~Inside(t)
  BY <1>2 DEF LockHeld
<1>6. /\ avatar' = r.url /\ files' = files /\ locked'
      /\ misnamed' = IF r.url = avatar THEN misnamed ELSE r.url \in Picture
      /\ littered' = (littered \/ (r.read # avatar /\ r.url # avatar))
  BY <1>1 DEF WriteEdit
<1>7. files \subseteq {avatar} \/ littered
  BY <1>2 DEF Tidy
<1>8. AvatarKept' /\ Tidy'
  BY <1>6 DEF AvatarKept, Tidy
<1>9. InstalledOK(s)' /\ WrittenOK(s)'
  BY <1>4, <1>6, <1>7 DEF InstalledOK, WrittenOK
<1>10. /\ littered' \in BOOLEAN /\ misnamed' \in BOOLEAN /\ locked' \in BOOLEAN
       /\ files' \in SUBSET Picture /\ avatar' \in Url
  <2>1. misnamed' \in BOOLEAN
    <3>1. CASE r.url = avatar
      BY <3>1, <1>6 DEF AvatarsTypeOK
    <3>2. CASE r.url # avatar
      <4>1. misnamed' = (r.url \in Picture)
        BY <3>2, <1>6
      <4>2. (r.url \in Picture) \in BOOLEAN
        OBVIOUS
      <4> QED
        BY <4>1, <4>2
    <3> QED
      BY <3>1, <3>2
  <2>2. littered' \in BOOLEAN
    BY <1>6
  <2> QED
    BY <1>2, <1>6, <2>1, <2>2 DEF WriteEdit, AvatarsTypeOK
<1> QED
  BY <1>4, <1>5, <1>6, <1>8, <1>9, <1>10, InsideKeeps

LEMMA RemoveKeeps == ASSUME AvatarsIInv, NEW s \in Session, RemoveReplaced(s) PROVE AvatarsIInv'
<1> USE DEF AvatarsIInv
<1>1. PICK r : r = request[s]
  OBVIOUS
<1>2. r.at = "written" /\ Inside(s)
  BY <1>1 DEF RemoveReplaced, Inside
<1>3. Outside \in AllRequests /\ request'[s] = Outside /\ Outside.at = "none"
  BY OutsideFacts DEF RemoveReplaced, AvatarsTypeOK
<1>4. \A t \in Session \ {s} : ~Inside(t)
  BY <1>2 DEF LockHeld
<1>5. /\ \/ files' = (IF r.read # r.url THEN files \ {r.read} ELSE files) /\ littered' = littered
         \/ files' = files /\ littered'
      /\ UNCHANGED <<avatar, misnamed>> /\ littered' \in BOOLEAN
  BY <1>1 DEF RemoveReplaced, AvatarsTypeOK
<1>6. avatar = r.url /\ (littered \/ files \subseteq {r.read, r.url})
  BY <1>1, <1>2 DEF WrittenOK
<1>7. AvatarKept' /\ Tidy' /\ files' \in SUBSET Picture
  BY <1>5, <1>6 DEF AvatarKept, Tidy, AvatarsTypeOK
<1>8. InstalledOK(s)' /\ WrittenOK(s)' /\ ~Inside(s)'
  BY <1>3 DEF InstalledOK, WrittenOK, Inside
<1> QED
  BY <1>3, <1>4, <1>5, <1>7, <1>8, InsideKeeps DEF RemoveReplaced, AvatarsTypeOK

LEMMA CrashKeeps == AvatarsIInv /\ AvatarsCrash => AvatarsIInv'
<1> SUFFICES ASSUME AvatarsIInv, AvatarsCrash PROVE AvatarsIInv'
  OBVIOUS
<1>1. \A s \in Session : request'[s] = Outside /\ Outside.at = "none"
  BY OutsideFacts DEF AvatarsCrash
<1>2. request' \in [Session -> AllRequests] /\ littered' \in BOOLEAN
  BY OutsideFacts DEF AvatarsCrash
<1>3. AvatarsTypeOK'
  BY <1>2 DEF AvatarsCrash, AvatarsTypeOK, AllRequests, AvatarsIInv
<1>4. (LockHeld /\ \A s \in Session : InstalledOK(s) /\ WrittenOK(s) /\ UploadOK(s))'
  BY <1>1 DEF LockHeld, Inside, InstalledOK, WrittenOK, UploadOK
<1>5. AvatarKept' /\ Tidy'
  BY DEF AvatarsCrash, AvatarKept, Tidy, AvatarsIInv
<1> QED
  BY <1>3, <1>4, <1>5 DEF AvatarsIInv

LEMMA AvatarsNextIInv == AvatarsIInv /\ [AvatarsNext]_avatarsVars => AvatarsIInv'
<1> SUFFICES ASSUME AvatarsIInv, [AvatarsNext]_avatarsVars PROVE AvatarsIInv'
  OBVIOUS
<1>1. CASE UNCHANGED avatarsVars
  BY <1>1 DEF avatarsVars, AvatarsIInv, AvatarsTypeOK, LockHeld, Inside, AvatarKept, Tidy,
              InstalledOK, WrittenOK, UploadOK
<1>2. ASSUME NEW s \in Session, NEW p \in Picture, BeginUpload(s, p) PROVE AvatarsIInv'
  BY <1>2, BeginKeeps
<1>3. ASSUME NEW s \in Session, NEW u \in Url, BeginProfileEdit(s, u) PROVE AvatarsIInv'
  BY <1>3, BeginKeeps
<1>4. ASSUME NEW s \in Session,
             \/ Install(s) \/ InstallFails(s) \/ WriteUpload(s)
             \/ WriteUploadFails(s) \/ WriteEdit(s) \/ EditFails(s) \/ RemoveReplaced(s)
      PROVE  AvatarsIInv'
  BY <1>4, InstallKeeps, InstallFailsKeeps, WriteUploadKeeps, WriteUploadFailsKeeps,
     WriteEditKeeps, BeginKeeps, RemoveKeeps
<1>5. CASE AvatarsCrash
  BY <1>5, CrashKeeps
<1> QED
  BY <1>1, <1>2, <1>3, <1>4, <1>5 DEF AvatarsNext

\* The invariant that carries the rest: what a request inside the lock owes the files.
THEOREM AvatarsInvariant == AvatarsSpec => []AvatarsIInv
<1>1. AvatarsInit => AvatarsIInv
  BY AvatarsInitIInv
<1>2. AvatarsIInv /\ [AvatarsNext]_avatarsVars => AvatarsIInv'
  BY AvatarsNextIInv
<1> QED
  BY <1>1, <1>2, PTL DEF AvatarsSpec

\* The row, the files and the requests have their types.
THEOREM AvatarsTypeCorrect == AvatarsSpec => []AvatarsTypeOK
<1>1. AvatarsIInv => AvatarsTypeOK
  BY DEF AvatarsIInv
<1> QED
  BY <1>1, AvatarsInvariant, PTL

\* A request that removes the file it had read of before the lock never removes the avatar,
\* and leaves nothing else (updateAvatar and updateMe under avatarMu).
THEOREM AvatarsCorrect == AvatarsSpec => []AvatarInv
<1>1. AvatarsIInv => AvatarInv
  BY DEF AvatarsIInv, AvatarInv, AvatarIsInstalled, NoOtherFiles, AvatarKept, Tidy
<1> QED
  BY <1>1, AvatarsInvariant, PTL
=============================================================================
