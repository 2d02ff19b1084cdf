--------------------------- MODULE ServicesProofs ---------------------------
(***************************************************************************)
(* What the services shared by the instances and the requests promise, for *)
(* any number of callers, requests, users and accounts of the providers:   *)
(* the lock, the rate limiter, the accounts and the friendships, each      *)
(* about its own specification.                                            *)
(***************************************************************************)
EXTENDS Services, FiniteSetTheorems, SequenceTheorems, TLAPS

\* The lock: what the token buys whatever fails, and what the lock buys while
\* nothing does.

\* The typing that the proofs need: where callers can be and which version
\* numbers they can hold.
LEMMA Typed == Spec => []TypeOK
<1>1. Init => TypeOK
  BY DEF Init, TypeOK
<1>2. TypeOK /\ [Next]_vars => TypeOK'
  <2> SUFFICES ASSUME TypeOK, [Next]_vars
               PROVE  TypeOK'
    OBVIOUS
  <2> USE DEF TypeOK, Goes
  <2>1. CASE Expire
    BY <2>1 DEF Expire
  <2>2. ASSUME NEW c \in Callers, Call(c) PROVE TypeOK'
    BY <2>2 DEF Call
  <2>3. ASSUME NEW c \in Callers, Acquire(c) PROVE TypeOK'
    BY <2>3 DEF Acquire
  <2>4. ASSUME NEW c \in Callers, GiveUp(c) PROVE TypeOK'
    BY <2>4 DEF GiveUp
  <2>5. ASSUME NEW c \in Callers, Load(c) PROVE TypeOK'
    BY <2>5 DEF Load
  <2>6. ASSUME NEW c \in Callers, Persist(c) PROVE TypeOK'
    BY <2>6 DEF Persist
  <2>7. ASSUME NEW c \in Callers, Throw(c) PROVE TypeOK'
    BY <2>7 DEF Throw
  <2>8. ASSUME NEW c \in Callers, Release(c) PROVE TypeOK'
    BY <2>8 DEF Release
  <2>9. CASE UNCHANGED vars
    BY <2>9 DEF vars
  <2> QED
    BY <2>1, <2>2, <2>3, <2>4, <2>5, <2>6, <2>7, <2>8, <2>9 DEF Next
<1> QED
  BY <1>1, <1>2, PTL DEF Spec

\* Who is past the polling and has not let go of the lock yet.
Inside(c) == pc[c] \in {"entered", "loaded", "leaving"}

\* HeldUntilReleased with where the acquirers are: a caller that still polls
\* has acquired nothing, so the key it sets is set by no acquirer before it.
Held ==
    /\ HeldUntilReleased
    /\ \A c \in acquired : Inside(c)

\* Whatever times out, fails or expires, a lock that was acquired is held
\* until its owner releases it or its time to live runs out.
THEOREM HeldUntilReleasedCorrect == Spec => []HeldUntilReleased
<1>1. Init => Held
  BY DEF Init, Held, HeldUntilReleased
<1>2. TypeOK /\ Held /\ [Next]_vars => Held'
  <2> SUFFICES ASSUME TypeOK, Held, [Next]_vars
               PROVE  Held'
    OBVIOUS
  <2> USE TokenAssumption DEF TypeOK, Held, HeldUntilReleased, Inside, Goes
  <2>1. CASE Expire
    BY <2>1 DEF Expire
  <2>2. ASSUME NEW c \in Callers, Call(c) PROVE Held'
    BY <2>2 DEF Call
  <2>3. ASSUME NEW c \in Callers, Acquire(c) PROVE Held'
    BY <2>3 DEF Acquire
  <2>4. ASSUME NEW c \in Callers, GiveUp(c) PROVE Held'
    BY <2>4 DEF GiveUp
  <2>5. ASSUME NEW c \in Callers, Load(c) PROVE Held'
    BY <2>5 DEF Load
  <2>6. ASSUME NEW c \in Callers, Persist(c) PROVE Held'
    BY <2>6 DEF Persist
  <2>7. ASSUME NEW c \in Callers, Throw(c) PROVE Held'
    BY <2>7 DEF Throw
  <2>8. ASSUME NEW c \in Callers, Release(c) PROVE Held'
    BY <2>8 DEF Release
  <2>9. CASE UNCHANGED vars
    BY <2>9 DEF vars
  <2> QED
    BY <2>1, <2>2, <2>3, <2>4, <2>5, <2>6, <2>7, <2>8, <2>9 DEF Next
<1>3. Held => HeldUntilReleased
  BY DEF Held
<1> QED
  BY <1>1, <1>2, <1>3, Typed, PTL DEF Spec

\* Until somebody enters without the lock or a time to live runs out, at most
\* one caller is inside: the owner of the key.
Exclusive ==
    barged = {} /\ lapsed = {} =>
        /\ \A c \in Callers : Inside(c) => key = c /\ c \in acquired
        /\ NoLostUpdate

\* The lock serialises load and persist for as long as it does not fail.
THEOREM LostOnlyAfterFailureCorrect == Spec => []LostOnlyAfterFailure
<1>1. Init => Exclusive
  BY DEF Init, Exclusive, NoLostUpdate, Inside
<1>2. TypeOK /\ Exclusive /\ [Next]_vars => Exclusive'
  <2> SUFFICES ASSUME TypeOK, Exclusive, [Next]_vars
               PROVE  Exclusive'
    OBVIOUS
  <2> USE TokenAssumption DEF TypeOK, Exclusive, NoLostUpdate, Inside, Goes
  <2>1. CASE Expire
    BY <2>1 DEF Expire
  <2>2. ASSUME NEW c \in Callers, Call(c) PROVE Exclusive'
    BY <2>2 DEF Call
  <2>3. ASSUME NEW c \in Callers, Acquire(c) PROVE Exclusive'
    BY <2>3 DEF Acquire
  <2>4. ASSUME NEW c \in Callers, GiveUp(c) PROVE Exclusive'
    BY <2>4 DEF GiveUp
  <2>5. ASSUME NEW c \in Callers, Load(c) PROVE Exclusive'
    BY <2>5 DEF Load
  <2>6. ASSUME NEW c \in Callers, Persist(c) PROVE Exclusive'
    BY <2>6 DEF Persist
  <2>7. ASSUME NEW c \in Callers, Throw(c) PROVE Exclusive'
    BY <2>7 DEF Throw
  <2>8. ASSUME NEW c \in Callers, Release(c) PROVE Exclusive'
    BY <2>8 DEF Release
  <2>9. CASE UNCHANGED vars
    BY <2>9 DEF vars
  <2> QED
    BY <2>1, <2>2, <2>3, <2>4, <2>5, <2>6, <2>7, <2>8, <2>9 DEF Next
<1>3. Exclusive => LostOnlyAfterFailure
  BY DEF Exclusive, LostOnlyAfterFailure
<1> QED
  BY <1>1, <1>2, <1>3, Typed, PTL DEF Spec

\* The lock is its owner's until released, and only a lapse or a caller that
\* failed open ever loses an update, for any number of callers.
THEOREM LockIsSafeCorrect == Spec => []LockIsSafe
<1>1. HeldUntilReleased /\ LostOnlyAfterFailure => LockIsSafe
  BY DEF LockIsSafe
<1> QED
  BY <1>1, HeldUntilReleasedCorrect, LostOnlyAfterFailureCorrect, PTL

-----------------------------------------------------------------------------
\* The rate limiter.

\* A call let through as counted was counted: what the limit needs to be
\* inductive, because a call that fails open may be counted or not.
Counted ==
    /\ count \in Nat /\ passed \in Nat
    /\ passed <= count
    /\ passed <= Max

\* The second half of LimitHolds
WindowEnds == count > 0 /\ ~ttl => erred \/ opening # {}

LimiterInv == Counted /\ WindowEnds

LEMMA CountedStep == LimiterInv /\ [LimiterNext]_limiter => Counted'
<1> SUFFICES ASSUME Counted, [LimiterNext]_limiter
             PROVE  Counted'
    BY DEF LimiterInv
<1>1. ASSUME NEW c \in Clients, Hit(c)
      PROVE  Counted'
    BY <1>1, LimiterAssumption DEF Hit, Counted
<1>2. ASSUME NEW c \in Clients, OpenWindow(c)
      PROVE  Counted'
    BY <1>2 DEF OpenWindow, Counted
<1>3. ASSUME NEW c \in Clients, FailOpen(c)
      PROVE  Counted'
    <2>1. count' \in {count, count + 1} /\ passed' = passed
        BY <1>3, Zenon DEF FailOpen
    <2> QED
        BY <2>1 DEF Counted
<1>4. ASSUME Lapse
      PROVE  Counted'
    BY <1>4, LimiterAssumption DEF Lapse, Counted
<1>5. ASSUME UNCHANGED limiter
      PROVE  Counted'
    <2>1. count' = count /\ passed' = passed
        BY <1>5, Zenon DEF limiter
    <2> QED
        BY <2>1 DEF Counted
<1> QED
    BY <1>1, <1>2, <1>3, <1>4, <1>5 DEF LimiterNext

LEMMA EndsStep == LimiterInv /\ [LimiterNext]_limiter => WindowEnds'
<1> SUFFICES ASSUME Counted, WindowEnds, [LimiterNext]_limiter
             PROVE  WindowEnds'
    BY DEF LimiterInv
<1>1. ASSUME NEW c \in Clients, Hit(c)
      PROVE  WindowEnds'
    <2>1. CASE count = 0
        <3>1. opening' # {}
            BY <1>1, <2>1 DEF Hit
        <3> QED
            BY <3>1, Zenon DEF WindowEnds
    <2>2. CASE count # 0
        <3>1. count > 0 /\ opening' = opening
            BY <1>1, <2>2 DEF Hit, Counted
        <3> QED
            BY <1>1, <3>1, Zenon DEF Hit, WindowEnds
    <2> QED
        BY <2>1, <2>2
<1>2. ASSUME NEW c \in Clients, OpenWindow(c)
      PROVE  WindowEnds'
    BY <1>2, Zenon DEF OpenWindow, WindowEnds
<1>3. ASSUME NEW c \in Clients, FailOpen(c)
      PROVE  WindowEnds'
    BY <1>3, Zenon DEF FailOpen, WindowEnds
<1>4. ASSUME Lapse
      PROVE  WindowEnds'
    <2>1. ~ (count' > 0)
        BY <1>4 DEF Lapse
    <2> QED
        BY <2>1, Zenon DEF WindowEnds
<1>5. ASSUME UNCHANGED limiter
      PROVE  WindowEnds'
    BY <1>5, Zenon DEF limiter, WindowEnds
<1> QED
    BY <1>1, <1>2, <1>3, <1>4, <1>5 DEF LimiterNext

\* However requests overlap and Redis fails between or after its commands, no
\* window lets more calls through than the limit, those apart that met an
\* error, and an unerring window has its end set or about to be set.
THEOREM LimitHoldsCorrect == LimiterSpec => []LimitHolds
<1>1. LimiterInit => LimiterInv
    <2>1. LimiterInit => Counted
        BY LimiterAssumption DEF LimiterInit, Counted
    <2>2. LimiterInit => ~ (count > 0)
        BY DEF LimiterInit
    <2> QED
        BY <2>1, <2>2, Zenon DEF LimiterInv, WindowEnds
<1>2. LimiterInv /\ [LimiterNext]_limiter => LimiterInv'
    BY CountedStep, EndsStep DEF LimiterInv
<1>3. LimiterInv => LimitHolds
    BY Zenon DEF LimiterInv, Counted, WindowEnds, LimitHolds
<1> QED
    BY <1>1, <1>2, <1>3, PTL DEF LimiterSpec

-----------------------------------------------------------------------------
\* The accounts: the reads that a call of auth.service.ts acts upon are repeated
\* by nothing, and what saves them is the unique index of users.email, that a
\* row leaves the guests only once and that only an upgrade sets an address.

\* The rows and the calls in progress have their types, the reads a call has
\* made are told by its step, and an address has one row, which is no guest's.
AccountSet == [email : Emails \cup {Null}, password : Passwords \cup {Null},
               oauth : Identities \cup {Null}, isGuest : BOOLEAN]
SignInSet == [kind : {"register", "upgrade", "oauth"}, at : {"look", "save", "create", "link"},
              row : Nat, email : Emails \cup {Null}, password : Passwords \cup {Null},
              oauth : Identities \cup {Null}]
Registers(c) == c.kind = "register" /\ c.at = "create" /\ c.email \in Emails /\ c.oauth = Null
Upgrades(c) == /\ c.kind = "upgrade" /\ c.at \in {"look", "save"} /\ c.row \in Rows
               /\ c.email \in Emails /\ c.password # Null /\ c.oauth = Null
SignsIn(c) == /\ c.kind = "oauth" /\ c.oauth \in Identities /\ c.email = Mail[c.oauth]
              /\ c.password = Null
              /\ c.email = Null => c.at = "create"
              /\ c.at \in {"look", "create", "link"}
              /\ c.at = "link" => c.row \in Rows

Fits(c) == Registers(c) \/ Upgrades(c) \/ SignsIn(c)
AccountsTyped ==
    /\ accounts \in Seq(AccountSet)
    /\ signIns \subseteq SignInSet
    /\ \A c \in signIns : Fits(c)

OneRowPerEmail ==
    \A r, s \in Rows : accounts[r].email = accounts[s].email /\ accounts[r].email # Null => r = s
GuestsHaveNothing ==
    \A r \in Rows : accounts[r].isGuest => accounts[r].email = Null /\ accounts[r].oauth = Null

\* A row that no two overlapping calls upgraded is a guest's while a call
\* upgrades it, and the call is alone.
UpgradesAlone ==
    /\ \A c \in signIns : c.kind = "upgrade" /\ c.row \notin doubled => accounts[c.row].isGuest
    /\ \A c, d \in signIns :
          c.kind = "upgrade" /\ d.kind = "upgrade" /\ c.row = d.row => c = d \/ c.row \in doubled

\* What a caller was told is set is still set and nobody is about to change it.
KeysHeld ==
    \A k \in keys :
        /\ k[1] \in Rows /\ k[2] \in Emails /\ k[3] # Null
        /\ \/ k[1] \in doubled
           \/ /\ accounts[k[1]].email = k[2] /\ accounts[k[1]].password = k[3]
              /\ ~accounts[k[1]].isGuest
              /\ \A c \in signIns : c.kind = "upgrade" => c.row # k[1]

\* The row that is being linked is nobody's guest and has the address that it
\* was found by, and so has every row that is linked.
LinksByAddress ==
    /\ \A c \in signIns : c.at = "link" => ~accounts[c.row].isGuest
    /\ doubled = {} =>
          /\ \A c \in signIns : c.at = "link" => accounts[c.row].email = c.email
          /\ \A r \in Rows : accounts[r].oauth # Null /\ Mail[accounts[r].oauth] # Null
                 => accounts[r].email = Mail[accounts[r].oauth]

\* An identity without an address has a row or a call that creates one.
BareAlone ==
    \A o \in Identities : Mail[o] = Null /\ o \notin twice =>
        /\ \A c, d \in signIns : c.oauth = o /\ d.oauth = o => c = d
        /\ \A r, s \in ByOAuthId(o) : r = s
        /\ ByOAuthId(o) = {} \/ \A c \in signIns : c.oauth # o

AccountsInv ==
    /\ AccountsTyped /\ OneRowPerEmail /\ GuestsHaveNothing /\ UpgradesAlone
    /\ KeysHeld /\ LinksByAddress /\ BareAlone

-----------------------------------------------------------------------------
\* What a step does to the table
Writes(r, e, p, o) ==
    /\ accounts' \in Seq(AccountSet)
    /\ Rows' = Rows \cup {r}
    /\ \A s \in Rows : s # r => accounts'[s] = accounts[s]
    /\ accounts'[r].email = e /\ accounts'[r].password = p /\ accounts'[r].oauth = o

LEMMA AppendFacts ==
    ASSUME accounts \in Seq(AccountSet), NEW a \in AccountSet, accounts' = Append(accounts, a)
    PROVE  /\ Writes(Len(accounts) + 1, a.email, a.password, a.oauth)
           /\ accounts'[Len(accounts) + 1] = a
           /\ Len(accounts) + 1 \notin Rows
<1> DEFINE n == Len(accounts) + 1
<1>1. /\ accounts' \in Seq(AccountSet)
      /\ Len(accounts') = n
      /\ \A s \in 1..Len(accounts) : accounts'[s] = accounts[s]
      /\ accounts'[n] = a
    BY AppendProperties
<1>2. Rows = 1..Len(accounts) /\ Rows' = 1..Len(accounts') /\ Len(accounts) \in Nat
    BY <1>1, LenProperties DEF Rows
<1>3. n \notin Rows /\ Rows' = Rows \cup {n}
    BY <1>1, <1>2
<1> QED
    BY <1>1, <1>2, <1>3, Zenon DEF Writes

LEMMA ExceptFacts ==
    ASSUME accounts \in Seq(AccountSet), NEW r \in Rows, NEW a \in AccountSet,
           accounts' = [accounts EXCEPT ![r] = a]
    PROVE  Writes(r, a.email, a.password, a.oauth) /\ accounts'[r] = a
<1>1. Rows = 1..Len(accounts) /\ Len(accounts) \in Nat
    BY LenProperties DEF Rows
<1>2. accounts' \in Seq(AccountSet) /\ Len(accounts') = Len(accounts)
    BY <1>1, ExceptSeq
<1>3. Rows' = Rows \cup {r}
    BY <1>2, <1>1, LenProperties DEF Rows
<1>4. accounts'[r] = a /\ \A s \in Rows : s # r => accounts'[s] = accounts[s]
    BY Zenon DEF Rows
<1> QED
    BY <1>2, <1>3, <1>4, Zenon DEF Writes

\* A guest's row
LEMMA GuestFacts ==
    ASSUME AccountsTyped, CreateGuest
    PROVE  LET n == Len(accounts) + 1 IN Writes(n, Null, Null, Null) /\ n \notin Rows
<1> DEFINE a == Account(Null, Null, Null, TRUE)
<1>1. a \in AccountSet /\ a.email = Null /\ a.password = Null /\ a.oauth = Null
    BY Zenon DEF Account, AccountSet
<1>2. accounts' = Append(accounts, a) /\ accounts \in Seq(AccountSet)
    BY Zenon DEF CreateGuest, Creates, AccountsTyped
<1> HIDE DEF a
<1> QED
    BY <1>1, <1>2, AppendFacts, Zenon

\* A call that creates an account: its address has no row yet.
LEMMA CreateFacts ==
    ASSUME AccountsTyped, NEW c \in signIns, CreateUniqueUser(c)
    PROVE  \/ accounts' = accounts /\ keys' = keys
           \/ LET n == Len(accounts) + 1
              IN  /\ Writes(n, c.email, c.password, c.oauth) /\ n \notin Rows
                  /\ ~accounts'[n].isGuest
                  /\ c.email # Null => ByEmail(c.email) = {}
                  /\ Acknowledge(n, c)
<1> DEFINE a == Account(c.email, c.password, c.oauth, FALSE)
<1>0. /\ c.email \in Emails \cup {Null} /\ c.password \in Passwords \cup {Null}
      /\ c.oauth \in Identities \cup {Null}
    BY DEF AccountsTyped, SignInSet
<1>1. /\ a \in AccountSet /\ a.email = c.email /\ a.password = c.password /\ a.oauth = c.oauth
      /\ ~a.isGuest
    BY <1>0, Zenon DEF Account, AccountSet
<1>2. accounts \in Seq(AccountSet)
    BY DEF AccountsTyped
<1>3. CASE c.email # Null /\ ByEmail(c.email) # {}
    BY <1>3, Zenon DEF CreateUniqueUser
<1>4. CASE ~(c.email # Null /\ ByEmail(c.email) # {})
    <2>1. accounts' = Append(accounts, a) /\ Acknowledge(Len(accounts) + 1, c)
        BY <1>4, Zenon DEF CreateUniqueUser, Creates
    <2> HIDE DEF a
    <2> QED
        BY <1>1, <1>2, <1>4, <2>1, AppendFacts, Zenon
<1> QED
    BY <1>3, <1>4

\* An upgrade that saves: its address has no other row.
LEMMA SaveFacts ==
    ASSUME AccountsTyped, NEW c \in signIns, SaveUnique(c), c.at = "save"
    PROVE  \/ accounts' = accounts /\ keys' = keys
           \/ /\ Writes(c.row, c.email, c.password, accounts[c.row].oauth)
              /\ ~accounts'[c.row].isGuest
              /\ ByEmail(c.email) \subseteq {c.row}
              /\ Acknowledge(c.row, c)
<1> DEFINE a == Account(c.email, c.password, accounts[c.row].oauth, FALSE)
<1>0. /\ c.row \in Rows /\ accounts \in Seq(AccountSet) /\ c.email \in Emails \cup {Null}
      /\ c.password \in Passwords \cup {Null}
    BY DEF AccountsTyped, SignInSet, Fits, Registers, Upgrades, SignsIn
<1>1. accounts[c.row] \in AccountSet
    BY <1>0, ElementOfSeq, LenProperties DEF Rows
<1>2. accounts[c.row].oauth \in Identities \cup {Null}
    BY <1>1, Zenon DEF AccountSet
<1>3. /\ a \in AccountSet /\ a.email = c.email /\ a.password = c.password
      /\ a.oauth = accounts[c.row].oauth /\ ~a.isGuest
    BY <1>0, <1>2, Zenon DEF Account, AccountSet
<1>4. CASE ByEmail(c.email) \subseteq {c.row}
    <2>1. accounts' = [accounts EXCEPT ![c.row] = a] /\ Acknowledge(c.row, c)
        BY <1>4, Zenon DEF SaveUnique
    <2> HIDE DEF a
    <2> QED
        BY <1>0, <1>3, <1>4, <2>1, ExceptFacts, Zenon
<1>5. CASE ~(ByEmail(c.email) \subseteq {c.row})
    BY <1>5, Zenon DEF SaveUnique
<1> QED
    BY <1>4, <1>5

\* A sign-in that links a row to its identity
LEMMA LinkFacts ==
    ASSUME AccountsTyped, NEW c \in signIns, SaveUnique(c), c.at = "link"
    PROVE  /\ Writes(c.row, accounts[c.row].email, accounts[c.row].password, c.oauth)
           /\ accounts'[c.row].isGuest <=> accounts[c.row].isGuest
           /\ keys' = keys
<1> DEFINE a == [accounts[c.row] EXCEPT !.oauth = c.oauth]
<1>0. c.row \in Rows /\ accounts \in Seq(AccountSet) /\ c.oauth \in Identities \cup {Null}
    BY DEF AccountsTyped, SignInSet, Fits, Registers, Upgrades, SignsIn
<1>1. accounts[c.row] \in AccountSet
    BY <1>0, ElementOfSeq, LenProperties DEF Rows
<1>2. /\ a \in AccountSet /\ a.email = accounts[c.row].email
      /\ a.password = accounts[c.row].password /\ a.oauth = c.oauth
      /\ a.isGuest <=> accounts[c.row].isGuest
    BY <1>0, <1>1, Zenon DEF AccountSet
<1>3. accounts' = [accounts EXCEPT ![c.row] = a] /\ keys' = keys
    BY Zenon DEF SaveUnique
<1> HIDE DEF a
<1> QED
    BY <1>0, <1>2, <1>3, ExceptFacts, Zenon

-----------------------------------------------------------------------------
\* What a step does to the calls: every call in progress afterwards was one
\* before, or is new and fits.
LEMMA CallsGrow ==
    ASSUME AccountsTyped, accounts' \in Seq(AccountSet), Rows \subseteq Rows',
           \A d \in signIns' : d \in signIns \/ (d \in SignInSet /\ Fits(d))
    PROVE  AccountsTyped'
<1>1. signIns' \subseteq SignInSet
    BY Zenon DEF AccountsTyped
<1>2. ASSUME NEW d \in signIns'
      PROVE  Fits(d)'
    <2>1. Fits(d)
        BY <1>2, Zenon DEF AccountsTyped
    <2> QED
        BY <2>1 DEF Fits, Registers, Upgrades, SignsIn
<1> QED
    BY <1>1, <1>2, Zenon DEF AccountsTyped

\* The next step of a call that has looked up its address
LEMMA LookFacts ==
    ASSUME AccountsTyped, NEW c \in signIns, LookUpEmail(c)
    PROVE  \/ signIns' = signIns \ {c}
           \/ \E d \in SignInSet :
                 /\ signIns' = (signIns \ {c}) \cup {d}
                 /\ Fits(d) /\ d.kind = c.kind /\ d.email = c.email /\ d.oauth = c.oauth
                 /\ c.kind = "upgrade" => d.row = c.row
                 /\ d.at = "link" => d.row \in ByEmail(c.email)
<1>0. c \in SignInSet /\ Fits(c) /\ c.at = "look"
    BY DEF AccountsTyped, LookUpEmail
<1>1. CASE c.kind = "upgrade" /\ Continues(c, "save", c.row)
    <2> DEFINE d == [c EXCEPT !.at = "save", !.row = c.row]
    <2>1. d \in SignInSet /\ d.kind = c.kind /\ d.email = c.email /\ d.oauth = c.oauth
          /\ d.row = c.row /\ d.at = "save" /\ d.password = c.password
        BY <1>0 DEF SignInSet
    <2>2. Fits(d)
        BY <1>0, <1>1, <2>1 DEF Fits, Registers, Upgrades, SignsIn
    <2>3. signIns' = (signIns \ {c}) \cup {d}
        BY <1>1 DEF Continues
    <2>4. d.at # "link"
        BY <2>1
    <2> QED
        BY <1>1, <2>1, <2>2, <2>3, <2>4, Zenon
<1>2. CASE c.kind = "oauth" /\ Continues(c, "create", 0)
    <2> DEFINE d == [c EXCEPT !.at = "create", !.row = 0]
    <2>1. d \in SignInSet /\ d.kind = c.kind /\ d.email = c.email /\ d.oauth = c.oauth
          /\ d.at = "create" /\ d.password = c.password
        BY <1>0 DEF SignInSet
    <2>2. Fits(d) /\ c.email # Null
        BY <1>0, <1>2, <2>1 DEF Fits, Registers, Upgrades, SignsIn
    <2>3. signIns' = (signIns \ {c}) \cup {d}
        BY <1>2 DEF Continues
    <2> QED
        BY <1>2, <2>1, <2>2, <2>3, Zenon
<1>3. CASE c.kind = "oauth" /\ \E r \in ByEmail(c.email) : Continues(c, "link", r)
    <2> PICK r \in ByEmail(c.email) : Continues(c, "link", r)
        BY <1>3
    <2>0. r \in Rows /\ r \in Nat
        BY LenProperties DEF ByEmail, Rows, AccountsTyped
    <2> DEFINE d == [c EXCEPT !.at = "link", !.row = r]
    <2>1. d \in SignInSet /\ d.kind = c.kind /\ d.email = c.email /\ d.oauth = c.oauth
          /\ d.at = "link" /\ d.row = r /\ d.password = c.password
        BY <1>0, <2>0 DEF SignInSet
    <2>2. Fits(d) /\ c.email # Null
        BY <1>0, <1>3, <2>0, <2>1 DEF Fits, Registers, Upgrades, SignsIn
    <2>3. signIns' = (signIns \ {c}) \cup {d}
        BY DEF Continues
    <2> QED
        BY <1>3, <2>1, <2>2, <2>3, Zenon
<1>4. CASE Ends(c)
    BY <1>4 DEF Ends
<1> QED
    BY <1>1, <1>2, <1>3, <1>4 DEF LookUpEmail

\* The call that a step begins
LEMMA RegisterFacts ==
    ASSUME AccountsTyped, NEW e \in Emails, NEW p \in Passwords, Register(e, p)
    PROVE  \E d \in SignInSet :
              signIns' = signIns \cup {d} /\ Fits(d) /\ d.kind = "register" /\ d.at = "create"
              /\ d.oauth = Null
<1> DEFINE d == SignIn("register", "create", 0, e, p, Null)
<1>1. d \in SignInSet /\ d.kind = "register" /\ d.at = "create" /\ d.oauth = Null /\ d.email = e
    BY DEF SignIn, SignInSet
<1>2. Fits(d)
    BY <1>1 DEF Fits, Registers
<1>3. signIns' = signIns \cup {d}
    BY DEF Register, Starts
<1> QED
    BY <1>1, <1>2, <1>3, Zenon

LEMMA UpgradeFacts ==
    ASSUME AccountsTyped, NEW r \in Rows, NEW e \in Emails, NEW p \in Passwords, Upgrade(r, e, p)
    PROVE  \E d \in SignInSet :
              signIns' = signIns \cup {d} /\ Fits(d) /\ d.kind = "upgrade" /\ d.at = "look"
              /\ d.row = r /\ d.oauth = Null
<1> DEFINE d == SignIn("upgrade", "look", r, e, p, Null)
<1>0. r \in Nat /\ p # Null
    BY LenProperties, NullAssumption DEF Rows, AccountsTyped
<1>1. /\ d \in SignInSet /\ d.kind = "upgrade" /\ d.at = "look" /\ d.oauth = Null /\ d.email = e
      /\ d.row = r /\ d.password = p
    BY <1>0 DEF SignIn, SignInSet
<1>2. Fits(d)
    BY <1>0, <1>1 DEF Fits, Upgrades
<1>3. signIns' = signIns \cup {d}
    BY DEF Upgrade, Starts
<1> QED
    BY <1>1, <1>2, <1>3, Zenon

LEMMA OAuthFacts ==
    ASSUME AccountsTyped, NEW o \in Identities, OAuth(o)
    PROVE  \E d \in SignInSet :
              signIns' = signIns \cup {d} /\ Fits(d) /\ d.kind = "oauth" /\ d.at # "link"
              /\ d.oauth = o
<1> DEFINE d == SignIn("oauth", IF Mail[o] = Null THEN "create" ELSE "look", 0, Mail[o], Null, o)
<1>1. /\ d \in SignInSet /\ d.kind = "oauth" /\ d.oauth = o /\ d.email = Mail[o]
      /\ d.password = Null /\ d.at = IF Mail[o] = Null THEN "create" ELSE "look"
    BY MailAssumption DEF SignIn, SignInSet
<1>2. Fits(d) /\ d.at # "link"
    BY <1>1 DEF Fits, SignsIn
<1>3. signIns' = signIns \cup {d}
    BY DEF OAuth, Starts
<1> QED
    BY <1>1, <1>2, <1>3, Zenon

-----------------------------------------------------------------------------
LEMMA TypeStep == AccountsTyped /\ [AccountsNext]_auth => AccountsTyped'
<1> SUFFICES ASSUME AccountsTyped, [AccountsNext]_auth
             PROVE  AccountsTyped'
    OBVIOUS
<1>0. \A d \in signIns : d \in SignInSet /\ Fits(d)
    BY DEF AccountsTyped
<1>1. CASE CreateGuest
    <2>1. signIns' = signIns
        BY <1>1 DEF CreateGuest
    <2>2. accounts' \in Seq(AccountSet) /\ \E n : Rows' = Rows \cup {n}
        BY <1>1, GuestFacts, Zenon DEF Writes
    <2>3. Rows \subseteq Rows'
        BY <2>2
    <2> QED
        BY <2>1, <2>2, <2>3, CallsGrow
<1>2. ASSUME NEW e \in Emails, NEW p \in Passwords, Register(e, p)
      PROVE  AccountsTyped'
    <2>1. accounts' = accounts
        BY <1>2 DEF Register
    <2>2. accounts' \in Seq(AccountSet) /\ Rows \subseteq Rows'
        BY <2>1 DEF AccountsTyped, Rows
    <2> QED
        BY <1>0, <1>2, <2>2, RegisterFacts, CallsGrow
<1>3. ASSUME NEW r \in Rows, NEW e \in Emails, NEW p \in Passwords, Upgrade(r, e, p)
      PROVE  AccountsTyped'
    <2>1. accounts' = accounts
        BY <1>3 DEF Upgrade
    <2>2. accounts' \in Seq(AccountSet) /\ Rows \subseteq Rows'
        BY <2>1 DEF AccountsTyped, Rows
    <2> QED
        BY <1>0, <1>3, <2>2, UpgradeFacts, CallsGrow
<1>4. ASSUME NEW o \in Identities, OAuth(o)
      PROVE  AccountsTyped'
    <2>1. accounts' = accounts
        BY <1>4 DEF OAuth
    <2>2. accounts' \in Seq(AccountSet) /\ Rows \subseteq Rows'
        BY <2>1 DEF AccountsTyped, Rows
    <2> QED
        BY <1>0, <1>4, <2>2, OAuthFacts, CallsGrow
<1>5. ASSUME NEW c \in signIns, LookUpEmail(c)
      PROVE  AccountsTyped'
    <2>1. accounts' = accounts
        BY <1>5 DEF LookUpEmail
    <2>2. accounts' \in Seq(AccountSet) /\ Rows \subseteq Rows'
        BY <2>1 DEF AccountsTyped, Rows
    <2>3. \A d \in signIns' : d \in signIns \/ (d \in SignInSet /\ Fits(d))
        <3>1. CASE signIns' = signIns \ {c}
            BY <3>1, Zenon
        <3>2. ASSUME NEW d \in SignInSet, signIns' = (signIns \ {c}) \cup {d}, Fits(d)
              PROVE  \A b \in signIns' : b \in signIns \/ (b \in SignInSet /\ Fits(b))
            BY <3>2, Zenon
        <3> QED
            BY <1>5, <3>1, <3>2, LookFacts, Zenon
    <2> QED
        BY <1>0, <2>2, <2>3, CallsGrow
<1>6. ASSUME NEW c \in signIns, CreateUniqueUser(c)
      PROVE  AccountsTyped'
    <2>1. signIns' \subseteq signIns
        BY <1>6 DEF CreateUniqueUser, Ends
    <2>2. accounts' = accounts \/ (accounts' \in Seq(AccountSet) /\ \E n : Rows' = Rows \cup {n})
        BY <1>6, CreateFacts, Zenon DEF Writes
    <2>3. accounts' \in Seq(AccountSet) /\ Rows \subseteq Rows'
        BY <2>2 DEF AccountsTyped, Rows
    <2> QED
        BY <1>0, <2>1, <2>3, CallsGrow
<1>7. ASSUME NEW c \in signIns, SaveUnique(c)
      PROVE  AccountsTyped'
    <2>1. signIns' \subseteq signIns
        BY <1>7 DEF SaveUnique, Ends
    <2>2. accounts' = accounts \/ (accounts' \in Seq(AccountSet) /\ \E n : Rows' = Rows \cup {n})
        <3>1. CASE c.at = "save"
            BY <1>7, <3>1, SaveFacts, Zenon DEF Writes
        <3>2. CASE c.at = "link"
            BY <1>7, <3>2, LinkFacts, Zenon DEF Writes
        <3> QED
            BY <1>7, <3>1, <3>2 DEF SaveUnique
    <2>3. accounts' \in Seq(AccountSet) /\ Rows \subseteq Rows'
        BY <2>2 DEF AccountsTyped, Rows
    <2> QED
        BY <1>0, <2>1, <2>3, CallsGrow
<1>8. CASE UNCHANGED auth
    BY <1>8 DEF auth, AccountsTyped, Fits, Registers, Upgrades, SignsIn, Rows
<1> QED
    BY <1>1, <1>2, <1>3, <1>4, <1>5, <1>6, <1>7, <1>8, Zenon DEF AccountsNext

\* A step that writes the table: all others leave it and the keys alone.
LEMMA Writing ==
    ASSUME AccountsTyped, [AccountsNext]_auth
    PROVE  \/ CreateGuest
           \/ \E c \in signIns : CreateUniqueUser(c)
           \/ \E c \in signIns : SaveUnique(c) /\ c.at = "save"
           \/ \E c \in signIns : SaveUnique(c) /\ c.at = "link"
           \/ accounts' = accounts /\ keys' = keys
<1>1. ASSUME NEW c \in signIns, SaveUnique(c)
      PROVE  c.at = "save" \/ c.at = "link"
    BY <1>1 DEF SaveUnique
<1> QED
    BY <1>1, Zenon DEF AccountsNext, auth, Register, Upgrade, OAuth, LookUpEmail

LEMMA EmailStep == AccountsInv /\ [AccountsNext]_auth => OneRowPerEmail'
<1> SUFFICES ASSUME AccountsTyped, OneRowPerEmail, [AccountsNext]_auth
             PROVE  OneRowPerEmail'
    BY Zenon DEF AccountsInv
<1>1. CASE CreateGuest
    BY <1>1, GuestFacts DEF Writes, OneRowPerEmail
<1>2. ASSUME NEW c \in signIns, CreateUniqueUser(c)
      PROVE  OneRowPerEmail'
    <2> DEFINE n == Len(accounts) + 1
    <2>1. CASE Writes(n, c.email, c.password, c.oauth) /\ (c.email # Null => ByEmail(c.email) = {})
        BY <2>1 DEF Writes, OneRowPerEmail, ByEmail
    <2>2. CASE accounts' = accounts
        BY <2>2 DEF OneRowPerEmail, Rows
    <2> HIDE DEF n
    <2> QED
        BY <1>2, <2>1, <2>2, CreateFacts, Zenon DEF n
<1>3. ASSUME NEW c \in signIns, SaveUnique(c), c.at = "save"
      PROVE  OneRowPerEmail'
    <2>1. CASE /\ Writes(c.row, c.email, c.password, accounts[c.row].oauth)
               /\ ByEmail(c.email) \subseteq {c.row}
        BY <2>1 DEF Writes, OneRowPerEmail, ByEmail
    <2>2. CASE accounts' = accounts
        BY <2>2 DEF OneRowPerEmail, Rows
    <2> QED
        BY <1>3, <2>1, <2>2, SaveFacts, Zenon
<1>4. ASSUME NEW c \in signIns, SaveUnique(c), c.at = "link"
      PROVE  OneRowPerEmail'
    <2>1. Writes(c.row, accounts[c.row].email, accounts[c.row].password, c.oauth)
        BY <1>4, LinkFacts, Zenon
    <2>2. c.row \in Rows
        BY <1>4 DEF AccountsTyped, Fits, Registers, Upgrades, SignsIn
    <2> QED
        BY <2>1, <2>2 DEF Writes, OneRowPerEmail
<1>5. CASE accounts' = accounts
    BY <1>5 DEF OneRowPerEmail, Rows
<1> QED
    BY <1>1, <1>2, <1>3, <1>4, <1>5, Writing, Zenon

LEMMA GuestStep == AccountsInv /\ [AccountsNext]_auth => GuestsHaveNothing'
<1> SUFFICES ASSUME AccountsTyped, GuestsHaveNothing, LinksByAddress, [AccountsNext]_auth
             PROVE  GuestsHaveNothing'
    BY Zenon DEF AccountsInv
<1>1. CASE CreateGuest
    BY <1>1, GuestFacts, Zenon DEF Writes, GuestsHaveNothing
<1>2. ASSUME NEW c \in signIns, CreateUniqueUser(c)
      PROVE  GuestsHaveNothing'
    <2>1. \/ accounts' = accounts
          \/ \E n \in Rows' : /\ Rows' = Rows \cup {n} /\ ~accounts'[n].isGuest
                              /\ \A s \in Rows : s # n => accounts'[s] = accounts[s]
        BY <1>2, CreateFacts, Zenon DEF Writes
    <2> QED
        BY <2>1, Zenon DEF GuestsHaveNothing, Rows
<1>3. ASSUME NEW c \in signIns, SaveUnique(c), c.at = "save"
      PROVE  GuestsHaveNothing'
    <2>1. \/ accounts' = accounts
          \/ \E n \in Rows' : /\ Rows' = Rows \cup {n} /\ ~accounts'[n].isGuest
                              /\ \A s \in Rows : s # n => accounts'[s] = accounts[s]
        BY <1>3, SaveFacts, Zenon DEF Writes
    <2> QED
        BY <2>1, Zenon DEF GuestsHaveNothing, Rows
<1>4. ASSUME NEW c \in signIns, SaveUnique(c), c.at = "link"
      PROVE  GuestsHaveNothing'
    <2>1. ~accounts'[c.row].isGuest
        BY <1>4, LinkFacts, Zenon DEF LinksByAddress
    <2>2. /\ Rows' = Rows \cup {c.row}
          /\ \A s \in Rows : s # c.row => accounts'[s] = accounts[s]
        BY <1>4, LinkFacts, Zenon DEF Writes
    <2> QED
        BY <2>1, <2>2, Zenon DEF GuestsHaveNothing
<1>5. CASE accounts' = accounts
    BY <1>5, Zenon DEF GuestsHaveNothing, Rows
<1> QED
    BY <1>1, <1>2, <1>3, <1>4, <1>5, Writing, Zenon

LEMMA AloneStep == AccountsInv /\ [AccountsNext]_auth => UpgradesAlone'
<1> SUFFICES ASSUME AccountsTyped, UpgradesAlone, [AccountsNext]_auth
             PROVE  UpgradesAlone'
    BY Zenon DEF AccountsInv
<1>0. \A c \in signIns : /\ c.kind = "upgrade" => c.row \in Rows
                         /\ c.at = "save" => c.kind = "upgrade"
    BY DEF AccountsTyped, Fits, Registers, Upgrades, SignsIn
<1>1. CASE CreateGuest
    <2>1. \A r \in Rows : accounts'[r] = accounts[r]
        BY <1>1, GuestFacts, Zenon DEF Writes
    <2>2. signIns' = signIns /\ doubled' = doubled
        BY <1>1, Zenon DEF CreateGuest
    <2> QED
        BY <1>0, <2>1, <2>2, Zenon DEF UpgradesAlone
<1>2. ASSUME NEW e \in Emails, NEW p \in Passwords, Register(e, p)
      PROVE  UpgradesAlone'
    <2>1. accounts' = accounts /\ doubled' = doubled
        BY <1>2, Zenon DEF Register
    <2>2. PICK d \in SignInSet : signIns' = signIns \cup {d} /\ d.kind = "register"
        BY <1>2, RegisterFacts, Zenon
    <2> QED
        BY <2>1, <2>2, Zenon DEF UpgradesAlone
<1>3. ASSUME NEW r \in Rows, NEW e \in Emails, NEW p \in Passwords, Upgrade(r, e, p)
      PROVE  UpgradesAlone'
    <2>1. accounts' = accounts /\ doubled \subseteq doubled' /\ accounts[r].isGuest
        BY <1>3, Zenon DEF Upgrade
    <2>2. PICK d \in SignInSet : signIns' = signIns \cup {d} /\ d.kind = "upgrade" /\ d.row = r
        BY <1>3, UpgradeFacts, Zenon
    <2>3. (\E c \in signIns : c.kind = "upgrade" /\ c.row = r) => r \in doubled'
        BY <1>3 DEF Upgrade
    <2>4. ASSUME NEW b \in signIns', b.kind = "upgrade", b.row \notin doubled'
          PROVE  accounts'[b.row].isGuest
        BY <2>1, <2>2, <2>4, Zenon DEF UpgradesAlone
    <2>5. ASSUME NEW a \in signIns', NEW b \in signIns', a.kind = "upgrade", b.kind = "upgrade",
                 a.row = b.row, a # b
          PROVE  a.row \in doubled'
        <3>1. CASE a \in signIns /\ b \in signIns
            BY <2>1, <2>5, <3>1, Zenon DEF UpgradesAlone
        <3>2. CASE ~(a \in signIns /\ b \in signIns)
            BY <2>2, <2>3, <2>5, <3>2, Zenon
        <3> QED
            BY <3>1, <3>2
    <2> QED
        BY <2>4, <2>5, Zenon DEF UpgradesAlone
<1>4. ASSUME NEW o \in Identities, OAuth(o)
      PROVE  UpgradesAlone'
    <2>1. accounts' = accounts /\ doubled' = doubled
        BY <1>4, Zenon DEF OAuth
    <2>2. PICK d \in SignInSet : signIns' = signIns \cup {d} /\ d.kind = "oauth"
        BY <1>4, OAuthFacts, Zenon
    <2> QED
        BY <2>1, <2>2, Zenon DEF UpgradesAlone
<1>5. ASSUME NEW c \in signIns, LookUpEmail(c)
      PROVE  UpgradesAlone'
    <2>1. accounts' = accounts /\ doubled' = doubled
        BY <1>5, Zenon DEF LookUpEmail
    <2>2. CASE signIns' = signIns \ {c}
        BY <2>1, <2>2, Zenon DEF UpgradesAlone
    <2>3. ASSUME NEW d \in SignInSet, signIns' = (signIns \ {c}) \cup {d},
                 d.kind = c.kind, c.kind = "upgrade" => d.row = c.row
          PROVE  UpgradesAlone'
        <3>1. ASSUME NEW b \in signIns', b.kind = "upgrade"
              PROVE  b.row \notin doubled' => accounts'[b.row].isGuest
            BY <2>1, <2>3, <3>1, Zenon DEF UpgradesAlone
        <3>2. ASSUME NEW a \in signIns', NEW b \in signIns', a # b, a # d,
                     a.kind = "upgrade", b.kind = "upgrade", a.row = b.row
              PROVE  a.row \in doubled'
            <4>1. a \in signIns /\ a # c
                BY <2>3, <3>2, Zenon
            <4>2. CASE b = d
                BY <2>1, <2>3, <3>2, <4>1, <4>2, Zenon DEF UpgradesAlone
            <4>3. CASE b # d
                BY <2>1, <2>3, <3>2, <4>1, <4>3, Zenon DEF UpgradesAlone
            <4> QED
                BY <4>2, <4>3
        <3> QED
            BY <3>1, <3>2, Zenon DEF UpgradesAlone
    <2> QED
        BY <1>5, <2>2, <2>3, LookFacts, Zenon
<1>6. ASSUME NEW c \in signIns, CreateUniqueUser(c)
      PROVE  UpgradesAlone'
    <2>1. \A r \in Rows : accounts'[r] = accounts[r]
        BY <1>6, CreateFacts, Zenon DEF Writes
    <2>2. signIns' \subseteq signIns /\ doubled' = doubled
        BY <1>6 DEF CreateUniqueUser, Ends
    <2> QED
        BY <1>0, <2>1, <2>2, Zenon DEF UpgradesAlone
<1>7. ASSUME NEW c \in signIns, SaveUnique(c), c.at = "save"
      PROVE  UpgradesAlone'
    <2>1. \A r \in Rows : r # c.row => accounts'[r] = accounts[r]
        BY <1>7, SaveFacts, Zenon DEF Writes
    <2>2. signIns' = signIns \ {c} /\ doubled' = doubled
        BY <1>7, Zenon DEF SaveUnique, Ends
    <2>3. ASSUME NEW b \in signIns', b.kind = "upgrade", b.row \notin doubled'
          PROVE  accounts'[b.row].isGuest
        <3>1. b \in signIns /\ b # c
            BY <2>2, Zenon
        <3>2. b.row # c.row
            BY <1>0, <1>7, <2>2, <2>3, <3>1, Zenon DEF UpgradesAlone
        <3> QED
            BY <1>0, <2>1, <2>2, <2>3, <3>1, <3>2, Zenon DEF UpgradesAlone
    <2> QED
        BY <2>2, <2>3, Zenon DEF UpgradesAlone
<1>8. ASSUME NEW c \in signIns, SaveUnique(c), c.at = "link"
      PROVE  UpgradesAlone'
    <2>1. \A r \in Rows : accounts'[r].isGuest <=> accounts[r].isGuest
        BY <1>8, LinkFacts, Zenon DEF Writes
    <2>2. signIns' \subseteq signIns /\ doubled' = doubled
        BY <1>8 DEF SaveUnique, Ends
    <2> QED
        BY <1>0, <2>1, <2>2, Zenon DEF UpgradesAlone
<1>9. CASE UNCHANGED auth
    BY <1>9, Zenon DEF auth, UpgradesAlone
<1>10. ASSUME NEW c \in signIns, SaveUnique(c)
      PROVE  c.at = "save" \/ c.at = "link"
    BY <1>10 DEF SaveUnique
<1> QED
    BY <1>1, <1>2, <1>3, <1>4, <1>5, <1>6, <1>7, <1>8, <1>9, <1>10, Zenon DEF AccountsNext

LEMMA KeysStep == AccountsInv /\ [AccountsNext]_auth => KeysHeld'
<1> SUFFICES ASSUME AccountsTyped, UpgradesAlone, KeysHeld, [AccountsNext]_auth
             PROVE  KeysHeld'
    BY Zenon DEF AccountsInv
<1>0. \A c \in signIns : /\ c.kind = "upgrade" => c.row \in Rows
                         /\ c.at = "save" => c.kind = "upgrade"
                         /\ c.at = "save" => c.email \in Emails /\ c.password # Null
                         /\ c.at = "create" /\ c.password # Null => c.email \in Emails
    BY DEF AccountsTyped, Fits, Registers, Upgrades, SignsIn
\* A step that changes no row, adds no upgrade but one of a guest's and tells
\* nobody anything
<1>a. ASSUME keys' = keys, doubled \subseteq doubled', Rows \subseteq Rows',
             \A r \in Rows : accounts'[r] = accounts[r],
             \A d \in signIns' : d.kind = "upgrade" =>
                 accounts[d.row].isGuest \/ \E c \in signIns : c.kind = "upgrade" /\ c.row = d.row
      PROVE  KeysHeld'
    <2>1. ASSUME NEW k \in keys, k[1] \notin doubled'
          PROVE  /\ accounts'[k[1]].email = k[2] /\ accounts'[k[1]].password = k[3]
                 /\ ~accounts'[k[1]].isGuest
        BY <1>a, <2>1, Zenon DEF KeysHeld
    <2>2. ASSUME NEW k \in keys, k[1] \notin doubled', NEW d \in signIns', d.kind = "upgrade"
          PROVE  d.row # k[1]
        BY <1>a, <2>2, ZenonT(60) DEF KeysHeld
    <2> QED
        BY <1>a, <2>1, <2>2, Zenon DEF KeysHeld
<1>1. CASE CreateGuest
    <2>1. /\ \A r \in Rows : accounts'[r] = accounts[r]
          /\ \E n : Rows' = Rows \cup {n}
        BY <1>1, GuestFacts, Zenon DEF Writes
    <2>2. signIns' = signIns /\ doubled' = doubled /\ keys' = keys
        BY <1>1, Zenon DEF CreateGuest
    <2>3. Rows \subseteq Rows'
        BY <2>1
    <2> QED
        BY <1>a, <2>1, <2>2, <2>3, Zenon
<1>2. ASSUME NEW e \in Emails, NEW p \in Passwords, Register(e, p)
      PROVE  KeysHeld'
    <2>1. accounts' = accounts /\ doubled' = doubled /\ keys' = keys /\ Rows' = Rows
        BY <1>2, Zenon DEF Register, Rows
    <2>2. PICK d \in SignInSet : signIns' = signIns \cup {d} /\ d.kind = "register"
        BY <1>2, RegisterFacts, Zenon
    <2> QED
        BY <1>a, <2>1, <2>2, Zenon
<1>3. ASSUME NEW r \in Rows, NEW e \in Emails, NEW p \in Passwords, Upgrade(r, e, p)
      PROVE  KeysHeld'
    <2>1. /\ accounts' = accounts /\ doubled \subseteq doubled' /\ keys' = keys /\ Rows' = Rows
          /\ accounts[r].isGuest
        BY <1>3, Zenon DEF Upgrade, Rows
    <2>2. PICK d \in SignInSet : signIns' = signIns \cup {d} /\ d.kind = "upgrade" /\ d.row = r
        BY <1>3, UpgradeFacts, Zenon
    <2> QED
        BY <1>a, <2>1, <2>2, Zenon
<1>4. ASSUME NEW o \in Identities, OAuth(o)
      PROVE  KeysHeld'
    <2>1. accounts' = accounts /\ doubled' = doubled /\ keys' = keys /\ Rows' = Rows
        BY <1>4, Zenon DEF OAuth, Rows
    <2>2. PICK d \in SignInSet : signIns' = signIns \cup {d} /\ d.kind = "oauth"
        BY <1>4, OAuthFacts, Zenon
    <2> QED
        BY <1>a, <2>1, <2>2, Zenon
<1>5. ASSUME NEW c \in signIns, LookUpEmail(c)
      PROVE  KeysHeld'
    <2>1. accounts' = accounts /\ doubled' = doubled /\ keys' = keys /\ Rows' = Rows
        BY <1>5, Zenon DEF LookUpEmail, Rows
    <2>2. \/ signIns' = signIns \ {c}
          \/ \E d \in SignInSet : /\ signIns' = (signIns \ {c}) \cup {d}
                                  /\ d.kind = c.kind
                                  /\ c.kind = "upgrade" => d.row = c.row
        BY <1>5, LookFacts, Zenon
    <2> QED
        BY <1>a, <2>1, <2>2, Zenon
<1>6. ASSUME NEW c \in signIns, CreateUniqueUser(c)
      PROVE  KeysHeld'
    <2> DEFINE n == Len(accounts) + 1
    <2>1. signIns' \subseteq signIns /\ doubled' = doubled /\ c.at = "create"
        BY <1>6 DEF CreateUniqueUser, Ends
    <2>2. CASE accounts' = accounts /\ keys' = keys
        BY <1>a, <2>1, <2>2, Zenon DEF Rows
    <2>3. CASE /\ Writes(n, c.email, c.password, c.oauth) /\ n \notin Rows
               /\ ~accounts'[n].isGuest
               /\ Acknowledge(n, c)
        <3> HIDE DEF n
        <3>1. ASSUME NEW k \in keys
              PROVE  /\ k[1] \in Rows /\ k[1] \in Rows' /\ k[2] \in Emails /\ k[3] # Null
                     /\ \/ k[1] \in doubled'
                        \/ /\ accounts'[k[1]].email = k[2] /\ accounts'[k[1]].password = k[3]
                           /\ ~accounts'[k[1]].isGuest
                           /\ \A d \in signIns' : d.kind = "upgrade" => d.row # k[1]
            BY <2>1, <2>3, <3>1, Zenon DEF KeysHeld, Writes
        <3>2. CASE keys' = keys
            BY <3>1, <3>2, Zenon DEF KeysHeld
        <3>3. CASE keys' = keys \cup {<<n, c.email, c.password>>} /\ c.password # Null
            <4> DEFINE k == <<n, c.email, c.password>>
            <4>1. k[1] = n /\ k[2] = c.email /\ k[3] = c.password
                OBVIOUS
            <4>2. \A d \in signIns' : d.kind = "upgrade" => d.row # n
                BY <1>0, <2>1, <2>3, Zenon
            <4>3. n \in Rows' /\ accounts'[n].email = c.email /\ accounts'[n].password = c.password
                BY <2>3, Zenon DEF Writes
            <4>4. c.email \in Emails
                BY <1>0, <2>1, <3>3, Zenon
            <4> HIDE DEF k
            <4>5. keys' = keys \cup {k}
                BY <3>3, Zenon DEF k
            <4> QED
                BY <2>3, <3>1, <3>3, <4>1, <4>2, <4>3, <4>4, <4>5, Zenon DEF KeysHeld
        <3> QED
            BY <2>3, <3>2, <3>3 DEF Acknowledge
    <2> HIDE DEF n
    <2> QED
        BY <1>6, <2>2, <2>3, CreateFacts, Zenon DEF n
<1>7. ASSUME NEW c \in signIns, SaveUnique(c), c.at = "save"
      PROVE  KeysHeld'
    <2>1. signIns' = signIns \ {c} /\ doubled' = doubled
        BY <1>7, Zenon DEF SaveUnique, Ends
    <2>2. CASE accounts' = accounts /\ keys' = keys
        BY <1>a, <2>1, <2>2, Zenon DEF Rows
    <2>3. CASE /\ Writes(c.row, c.email, c.password, accounts[c.row].oauth)
               /\ ~accounts'[c.row].isGuest
               /\ Acknowledge(c.row, c)
        <3>1. ASSUME NEW k \in keys
              PROVE  /\ k[1] \in Rows /\ k[1] \in Rows' /\ k[2] \in Emails /\ k[3] # Null
                     /\ \/ k[1] \in doubled'
                        \/ /\ accounts'[k[1]].email = k[2] /\ accounts'[k[1]].password = k[3]
                           /\ ~accounts'[k[1]].isGuest
                           /\ \A d \in signIns' : d.kind = "upgrade" => d.row # k[1]
            <4>1. k[1] \in doubled \/ k[1] # c.row
                BY <1>0, <1>7, Zenon DEF KeysHeld
            <4> QED
                BY <2>1, <2>3, <3>1, <4>1, Zenon DEF KeysHeld, Writes
        <3>2. CASE keys' = keys
            BY <3>1, <3>2, Zenon DEF KeysHeld
        <3>3. CASE keys' = keys \cup {<<c.row, c.email, c.password>>}
            <4> DEFINE k == <<c.row, c.email, c.password>>
            <4>1. k[1] = c.row /\ k[2] = c.email /\ k[3] = c.password
                OBVIOUS
            <4>2. ASSUME c.row \notin doubled', NEW d \in signIns', d.kind = "upgrade"
                  PROVE  d.row # c.row
                BY <1>0, <1>7, <2>1, <4>2, Zenon DEF UpgradesAlone
            <4>3. c.row \in Rows' /\ accounts'[c.row].email = c.email
                  /\ accounts'[c.row].password = c.password
                BY <2>3, Zenon DEF Writes
            <4>4. c.email \in Emails /\ c.password # Null
                BY <1>0, <1>7, Zenon
            <4> HIDE DEF k
            <4>5. keys' = keys \cup {k}
                BY <3>3, Zenon DEF k
            <4> QED
                BY <2>3, <3>1, <4>1, <4>2, <4>3, <4>4, <4>5, Zenon DEF KeysHeld
        <3> QED
            BY <2>3, <3>2, <3>3 DEF Acknowledge
    <2> QED
        BY <1>7, <2>2, <2>3, SaveFacts, Zenon
<1>8. ASSUME NEW c \in signIns, SaveUnique(c), c.at = "link"
      PROVE  KeysHeld'
    <2>1. signIns' \subseteq signIns /\ doubled' = doubled
        BY <1>8 DEF SaveUnique, Ends
    <2>2. /\ keys' = keys
          /\ \E n : Rows' = Rows \cup {n}
          /\ \A r \in Rows : /\ accounts'[r].email = accounts[r].email
                             /\ accounts'[r].password = accounts[r].password
                             /\ accounts'[r].isGuest <=> accounts[r].isGuest
        BY <1>8, LinkFacts, Zenon DEF Writes
    <2>3. Rows \subseteq Rows'
        BY <2>2
    <2> QED
        BY <2>1, <2>2, <2>3, ZenonT(60) DEF KeysHeld
<1>9. CASE UNCHANGED auth
    BY <1>9, Zenon DEF auth, KeysHeld, Rows
<1>10. ASSUME NEW c \in signIns, SaveUnique(c)
      PROVE  c.at = "save" \/ c.at = "link"
    BY <1>10 DEF SaveUnique
<1> QED
    BY <1>1, <1>2, <1>3, <1>4, <1>5, <1>6, <1>7, <1>8, <1>9, <1>10, Zenon DEF AccountsNext

LEMMA LinksStep == AccountsInv /\ [AccountsNext]_auth => LinksByAddress'
<1> SUFFICES ASSUME AccountsTyped, GuestsHaveNothing, UpgradesAlone, LinksByAddress,
                    [AccountsNext]_auth
             PROVE  LinksByAddress'
    BY Zenon DEF AccountsInv
<1>0. \A c \in signIns :
         /\ c.at = "link" => c.row \in Rows /\ c.oauth \in Identities /\ c.email = Mail[c.oauth]
         /\ c.at = "save" => c.row \in Rows /\ c.kind = "upgrade"
         /\ c.oauth # Null => c.email = Mail[c.oauth]
    BY DEF AccountsTyped, Fits, Registers, Upgrades, SignsIn
\* A step that begins no link and changes no row
<1>a. ASSUME doubled \subseteq doubled', accounts' = accounts,
             \A d \in signIns' : d.at = "link" => d \in signIns
      PROVE  LinksByAddress'
    <2>1. doubled' = {} => doubled = {}
        BY <1>a
    <2> QED
        BY <1>a, <2>1, Zenon DEF LinksByAddress, Rows
<1>1. CASE CreateGuest
    <2>1. signIns' = signIns /\ doubled' = doubled
        BY <1>1, Zenon DEF CreateGuest
    <2>2. /\ \A r \in Rows : accounts'[r] = accounts[r]
          /\ \A r \in Rows' : r \in Rows \/ accounts'[r].oauth = Null
        BY <1>1, GuestFacts, Zenon DEF Writes
    <2> QED
        BY <1>0, <2>1, <2>2, Zenon DEF LinksByAddress
<1>2. ASSUME NEW e \in Emails, NEW p \in Passwords, Register(e, p)
      PROVE  LinksByAddress'
    <2>1. accounts' = accounts /\ doubled' = doubled
        BY <1>2, Zenon DEF Register
    <2>2. PICK d \in SignInSet : signIns' = signIns \cup {d} /\ d.at = "create"
        BY <1>2, RegisterFacts, Zenon
    <2>3. d.at # "link"
        BY <2>2
    <2> QED
        BY <1>a, <2>1, <2>2, <2>3, Zenon
<1>3. ASSUME NEW r \in Rows, NEW e \in Emails, NEW p \in Passwords, Upgrade(r, e, p)
      PROVE  LinksByAddress'
    <2>1. accounts' = accounts /\ doubled \subseteq doubled'
        BY <1>3, Zenon DEF Upgrade
    <2>2. PICK d \in SignInSet : signIns' = signIns \cup {d} /\ d.at = "look"
        BY <1>3, UpgradeFacts, Zenon
    <2>3. d.at # "link"
        BY <2>2
    <2> QED
        BY <1>a, <2>1, <2>2, <2>3, Zenon
<1>4. ASSUME NEW o \in Identities, OAuth(o)
      PROVE  LinksByAddress'
    <2>1. accounts' = accounts /\ doubled' = doubled
        BY <1>4, Zenon DEF OAuth
    <2>2. PICK d \in SignInSet : signIns' = signIns \cup {d} /\ d.at # "link"
        BY <1>4, OAuthFacts, Zenon
    <2> QED
        BY <1>a, <2>1, <2>2, Zenon
<1>5. ASSUME NEW c \in signIns, LookUpEmail(c)
      PROVE  LinksByAddress'
    <2>1. accounts' = accounts /\ doubled' = doubled
        BY <1>5, Zenon DEF LookUpEmail
    <2>2. CASE signIns' = signIns \ {c}
        BY <1>a, <2>1, <2>2, Zenon
    <2>3. ASSUME NEW d \in SignInSet, signIns' = (signIns \ {c}) \cup {d}, Fits(d),
                 d.email = c.email, d.at = "link" => d.row \in ByEmail(c.email)
          PROVE  LinksByAddress'
        <3>1. CASE d.at # "link"
            BY <1>a, <2>1, <2>3, <3>1, Zenon
        <3>2. CASE d.at = "link"
            <4>1. d.email # Null
                BY <2>3, <3>2 DEF Fits, Registers, Upgrades, SignsIn
            <4>2. d.row \in Rows /\ accounts[d.row].email = d.email
                BY <2>3, <3>2, Zenon DEF ByEmail
            <4>3. ~accounts[d.row].isGuest
                BY <4>1, <4>2, Zenon DEF GuestsHaveNothing
            <4> QED
                BY <2>1, <2>3, <4>2, <4>3, Zenon DEF LinksByAddress, Rows
        <3> QED
            BY <3>1, <3>2
    <2> QED
        BY <1>5, <2>2, <2>3, LookFacts, Zenon
<1>6. ASSUME NEW c \in signIns, CreateUniqueUser(c)
      PROVE  LinksByAddress'
    <2>1. signIns' \subseteq signIns /\ doubled' = doubled
        BY <1>6 DEF CreateUniqueUser, Ends
    <2>2. CASE accounts' = accounts
        BY <1>a, <2>1, <2>2, Zenon
    <2>3. ASSUME NEW n, n \notin Rows, Rows' = Rows \cup {n},
                 \A s \in Rows : s # n => accounts'[s] = accounts[s],
                 accounts'[n].email = c.email, accounts'[n].oauth = c.oauth
          PROVE  LinksByAddress'
        <3>1. \A s \in Rows : accounts'[s] = accounts[s]
            BY <2>3, Zenon
        <3>2. accounts'[n].oauth # Null => accounts'[n].email = Mail[accounts'[n].oauth]
            BY <1>0, <2>3, Zenon
        <3> QED
            BY <1>0, <2>1, <2>3, <3>1, <3>2, ZenonT(60) DEF LinksByAddress
    <2> QED
        BY <1>6, <2>2, <2>3, CreateFacts, Zenon DEF Writes
<1>7. ASSUME NEW c \in signIns, SaveUnique(c), c.at = "save"
      PROVE  LinksByAddress'
    <2>1. signIns' = signIns \ {c} /\ doubled' = doubled
        BY <1>7, Zenon DEF SaveUnique, Ends
    <2>2. CASE accounts' = accounts
        BY <1>a, <2>1, <2>2, Zenon
    <2>3. CASE /\ Writes(c.row, c.email, c.password, accounts[c.row].oauth)
               /\ ~accounts'[c.row].isGuest
        <3>1. Rows' = Rows \cup {c.row} /\ \A s \in Rows : s # c.row => accounts'[s] = accounts[s]
            BY <2>3, Zenon DEF Writes
        <3>2. Rows' = Rows
            BY <1>0, <1>7, <3>1
        <3>3. CASE doubled = {}
            <4>1. accounts[c.row].isGuest /\ c.row \in Rows
                BY <1>0, <1>7, <3>3 DEF UpgradesAlone
            <4>2. accounts'[c.row].oauth = Null
                BY <2>3, <4>1, Zenon DEF GuestsHaveNothing, Writes
            <4>3. \A b \in signIns : b.at = "link" => b.row \in Rows /\ b.row # c.row
                BY <1>0, <4>1, Zenon DEF LinksByAddress
            <4> QED
                BY <2>1, <3>1, <3>2, <3>3, <4>2, <4>3, Zenon DEF LinksByAddress
        <3>4. CASE doubled # {}
            BY <1>0, <2>1, <2>3, <3>1, <3>4, Zenon DEF LinksByAddress
        <3> QED
            BY <3>3, <3>4
    <2> QED
        BY <1>7, <2>2, <2>3, SaveFacts, Zenon
<1>8. ASSUME NEW c \in signIns, SaveUnique(c), c.at = "link"
      PROVE  LinksByAddress'
    <2>1. signIns' = signIns \ {c} /\ doubled' = doubled
        BY <1>8, Zenon DEF SaveUnique, Ends
    <2>2. /\ Rows' = Rows \cup {c.row}
          /\ \A s \in Rows : s # c.row => accounts'[s] = accounts[s]
          /\ accounts'[c.row].email = accounts[c.row].email /\ accounts'[c.row].oauth = c.oauth
          /\ accounts'[c.row].isGuest <=> accounts[c.row].isGuest
        BY <1>8, LinkFacts, Zenon DEF Writes
    <2>3. Rows' = Rows
        BY <1>0, <1>8, <2>2
    <2>4. doubled = {} => accounts[c.row].email = Mail[c.oauth]
        BY <1>0, <1>8, Zenon DEF LinksByAddress
    <2>5. \A b \in signIns' : b.at = "link" => ~accounts'[b.row].isGuest
        BY <1>0, <2>1, <2>2, Zenon DEF LinksByAddress
    <2>6. doubled = {} => \A b \in signIns' : b.at = "link" => accounts'[b.row].email = b.email
        BY <1>0, <2>1, <2>2, ZenonT(60) DEF LinksByAddress
    <2>7. ASSUME doubled = {}, NEW r \in Rows, accounts'[r].oauth # Null,
                 Mail[accounts'[r].oauth] # Null
          PROVE  accounts'[r].email = Mail[accounts'[r].oauth]
        BY <2>2, <2>4, <2>7, Zenon DEF LinksByAddress
    <2> QED
        BY <2>1, <2>3, <2>5, <2>6, <2>7, Zenon DEF LinksByAddress
<1>9. CASE UNCHANGED auth
    BY <1>9, Zenon DEF auth, LinksByAddress, Rows
<1>10. ASSUME NEW c \in signIns, SaveUnique(c)
      PROVE  c.at = "save" \/ c.at = "link"
    BY <1>10 DEF SaveUnique
<1> QED
    BY <1>1, <1>2, <1>3, <1>4, <1>5, <1>6, <1>7, <1>8, <1>9, <1>10, Zenon DEF AccountsNext

LEMMA BareStep == AccountsInv /\ [AccountsNext]_auth => BareAlone'
<1> SUFFICES ASSUME AccountsTyped, BareAlone, [AccountsNext]_auth,
                    NEW o \in Identities, Mail[o] = Null, o \notin twice'
             PROVE  /\ \A c, d \in signIns' : c.oauth = o /\ d.oauth = o => c = d
                    /\ \A r, s \in ByOAuthId(o)' : r = s
                    /\ ByOAuthId(o)' = {} \/ \A c \in signIns' : c.oauth # o
    BY Zenon DEF AccountsInv, BareAlone
<1> DEFINE Alone == /\ \A c, d \in signIns' : c.oauth = o /\ d.oauth = o => c = d
                    /\ \A r, s \in ByOAuthId(o)' : r = s
                    /\ ByOAuthId(o)' = {} \/ \A c \in signIns' : c.oauth # o
<1>0. /\ o # Null
      /\ \A c \in signIns : c.at = "link" => c.oauth # o /\ c.row \in Rows
      /\ \A c \in signIns : c.at = "save" => c.row \in Rows
    BY NullAssumption DEF AccountsTyped, Fits, Registers, Upgrades, SignsIn
<1>b. twice \subseteq twice'
    BY Zenon DEF AccountsNext, auth, CreateGuest, Register, Upgrade, OAuth, LookUpEmail,
                 CreateUniqueUser, SaveUnique
<1>c. /\ \A c, d \in signIns : c.oauth = o /\ d.oauth = o => c = d
      /\ \A r, s \in ByOAuthId(o) : r = s
      /\ ByOAuthId(o) = {} \/ \A c \in signIns : c.oauth # o
    BY <1>b, Zenon DEF BareAlone
\* A step that neither begins nor finishes a first sign-in of o
<1>a. ASSUME ByOAuthId(o)' \subseteq ByOAuthId(o),
             \A d \in signIns' : d.oauth = o => d \in signIns
      PROVE  Alone
    <2>1. ByOAuthId(o) = {} => ByOAuthId(o)' = {}
        BY <1>a
    <2> QED
        BY <1>a, <1>c, <2>1, Zenon
<1>1. CASE CreateGuest
    <2>1. signIns' = signIns
        BY <1>1, Zenon DEF CreateGuest
    <2>2. /\ \A r \in Rows : accounts'[r] = accounts[r]
          /\ \A r \in Rows' : r \in Rows \/ accounts'[r].oauth = Null
        BY <1>1, GuestFacts, Zenon DEF Writes
    <2>3. ByOAuthId(o)' \subseteq ByOAuthId(o)
        BY <1>0, <2>2, Zenon DEF ByOAuthId
    <2> QED
        BY <1>a, <2>1, <2>3, Zenon
<1>2. ASSUME NEW e \in Emails, NEW p \in Passwords, Register(e, p)
      PROVE  Alone
    <2>1. ByOAuthId(o)' = ByOAuthId(o)
        BY <1>2, Zenon DEF Register, ByOAuthId, Rows
    <2>2. PICK d \in SignInSet : signIns' = signIns \cup {d} /\ d.oauth = Null
        BY <1>2, RegisterFacts, Zenon
    <2> QED
        BY <1>a, <1>0, <2>1, <2>2, Zenon
<1>3. ASSUME NEW r \in Rows, NEW e \in Emails, NEW p \in Passwords, Upgrade(r, e, p)
      PROVE  Alone
    <2>1. ByOAuthId(o)' = ByOAuthId(o)
        BY <1>3, Zenon DEF Upgrade, ByOAuthId, Rows
    <2>2. PICK d \in SignInSet : signIns' = signIns \cup {d} /\ d.oauth = Null
        BY <1>3, UpgradeFacts, Zenon
    <2> QED
        BY <1>a, <1>0, <2>1, <2>2, Zenon
<1>4. ASSUME NEW q \in Identities, OAuth(q)
      PROVE  Alone
    <2>1. ByOAuthId(o)' = ByOAuthId(o)
        BY <1>4, Zenon DEF OAuth, ByOAuthId, Rows
    <2>2. PICK d \in SignInSet : signIns' = signIns \cup {d} /\ d.oauth = q
        BY <1>4, OAuthFacts, Zenon
    <2>3. CASE q # o
        BY <1>a, <2>1, <2>2, <2>3, Zenon
    <2>4. CASE q = o
        <3>1. ByOAuthId(o) = {}
            BY <1>4, <2>4, Zenon DEF OAuth
        <3>2. \A c \in signIns : c.oauth # o
            BY <1>4, <2>4 DEF OAuth
        <3> QED
            BY <2>1, <2>2, <3>1, <3>2, Zenon
    <2> QED
        BY <2>3, <2>4
<1>5. ASSUME NEW c \in signIns, LookUpEmail(c)
      PROVE  Alone
    <2>1. ByOAuthId(o)' = ByOAuthId(o)
        BY <1>5, Zenon DEF LookUpEmail, ByOAuthId, Rows
    <2>2. CASE signIns' = signIns \ {c}
        BY <1>a, <2>1, <2>2, Zenon
    <2>3. ASSUME NEW d \in SignInSet, signIns' = (signIns \ {c}) \cup {d}, d.oauth = c.oauth
          PROVE  Alone
        <3>1. CASE c.oauth # o
            BY <1>a, <2>1, <2>3, <3>1, Zenon
        <3>2. CASE c.oauth = o
            BY <1>c, <2>1, <2>3, <3>2, Zenon
        <3> QED
            BY <3>1, <3>2
    <2> QED
        BY <1>5, <2>2, <2>3, LookFacts, Zenon
<1>6. ASSUME NEW c \in signIns, CreateUniqueUser(c)
      PROVE  Alone
    <2>1. signIns' = signIns \ {c}
        BY <1>6, Zenon DEF CreateUniqueUser, Ends
    <2>2. CASE accounts' = accounts
        <3>1. ByOAuthId(o)' = ByOAuthId(o)
            BY <2>2, Zenon DEF ByOAuthId, Rows
        <3> QED
            BY <1>a, <2>1, <3>1, Zenon
    <2>3. ASSUME NEW n, n \notin Rows, Rows' = Rows \cup {n},
                 \A s \in Rows : s # n => accounts'[s] = accounts[s],
                 accounts'[n].oauth = c.oauth
          PROVE  Alone
        <3>1. CASE c.oauth # o
            <4>1. ByOAuthId(o)' \subseteq ByOAuthId(o)
                BY <2>3, <3>1, Zenon DEF ByOAuthId
            <4> QED
                BY <1>a, <2>1, <4>1, Zenon
        <3>2. CASE c.oauth = o
            <4>1. ByOAuthId(o) = {} /\ \A d \in signIns' : d.oauth # o
                BY <1>c, <2>1, <3>2, Zenon
            <4>2. \A r \in ByOAuthId(o)' : r = n
                BY <2>3, <4>1, Zenon DEF ByOAuthId
            <4> QED
                BY <4>1, <4>2, Zenon
        <3> QED
            BY <3>1, <3>2
    <2> QED
        BY <1>6, <2>2, <2>3, CreateFacts, Zenon DEF Writes
<1>7. ASSUME NEW c \in signIns, SaveUnique(c), c.at = "save"
      PROVE  Alone
    <2>1. signIns' = signIns \ {c}
        BY <1>7, Zenon DEF SaveUnique, Ends
    <2>2. \/ accounts' = accounts
          \/ /\ Rows' = Rows \cup {c.row}
             /\ \A s \in Rows : s # c.row => accounts'[s] = accounts[s]
             /\ accounts'[c.row].oauth = accounts[c.row].oauth
        BY <1>7, SaveFacts, Zenon DEF Writes
    <2>3. ByOAuthId(o)' \subseteq ByOAuthId(o)
        BY <1>0, <1>7, <2>2, Zenon DEF ByOAuthId, Rows
    <2> QED
        BY <1>a, <2>1, <2>3, Zenon
<1>8. ASSUME NEW c \in signIns, SaveUnique(c), c.at = "link"
      PROVE  Alone
    <2>1. signIns' = signIns \ {c}
        BY <1>8, Zenon DEF SaveUnique, Ends
    <2>2. /\ Rows' = Rows \cup {c.row}
          /\ \A s \in Rows : s # c.row => accounts'[s] = accounts[s]
          /\ accounts'[c.row].oauth = c.oauth
        BY <1>8, LinkFacts, Zenon DEF Writes
    <2>3. ByOAuthId(o)' \subseteq ByOAuthId(o)
        BY <1>0, <1>8, <2>2, Zenon DEF ByOAuthId
    <2> QED
        BY <1>a, <2>1, <2>3, Zenon
<1>9. CASE UNCHANGED auth
    <2>1. signIns' = signIns /\ ByOAuthId(o)' = ByOAuthId(o)
        BY <1>9, Zenon DEF auth, ByOAuthId, Rows
    <2> QED
        BY <1>a, <2>1, Zenon
<1>10. ASSUME NEW c \in signIns, SaveUnique(c)
      PROVE  c.at = "save" \/ c.at = "link"
    BY <1>10 DEF SaveUnique
<1> QED
    BY <1>1, <1>2, <1>3, <1>4, <1>5, <1>6, <1>7, <1>8, <1>9, <1>10, Zenon DEF AccountsNext

-----------------------------------------------------------------------------
LEMMA AccountsInvariant == AccountsSpec => []AccountsInv
<1>1. AccountsInit => AccountsInv
    <2> SUFFICES ASSUME AccountsInit PROVE AccountsInv
        OBVIOUS
    <2>1. accounts = << >> /\ Rows = {} /\ signIns = {} /\ keys = {}
        BY DEF AccountsInit, Rows
    <2>2. accounts \in Seq(AccountSet)
        BY <2>1, EmptySeq
    <2> QED
        BY <2>1, <2>2, Zenon DEF AccountsInv, AccountsTyped, OneRowPerEmail, GuestsHaveNothing,
           UpgradesAlone, KeysHeld, LinksByAddress, BareAlone, ByOAuthId
<1>2. AccountsInv /\ [AccountsNext]_auth => AccountsInv'
    BY TypeStep, EmailStep, GuestStep, AloneStep, KeysStep, LinksStep, BareStep, Zenon
       DEF AccountsInv
<1> QED
    BY <1>1, <1>2, PTL DEF AccountsSpec

\* What a caller was told is set signs in to its account and to no other.
LEMMA KeysRight == AccountsInv => KeysWork
<1> SUFFICES ASSUME AccountsInv, NEW k \in keys, k[1] \notin doubled
             PROVE  Login(k[2], k[3]) = {k[1]}
    BY Zenon DEF KeysWork
<1>1. /\ k[1] \in Rows /\ k[2] # Null /\ k[3] # Null
      /\ accounts[k[1]].email = k[2] /\ accounts[k[1]].password = k[3]
    BY NullAssumption DEF AccountsInv, KeysHeld
<1>2. k[1] \in Login(k[2], k[3])
    BY <1>1, Zenon DEF Login, ByEmail
<1>3. \A r \in Login(k[2], k[3]) : r = k[1]
    BY <1>1, Zenon DEF Login, ByEmail, AccountsInv, OneRowPerEmail
<1> QED
    BY <1>2, <1>3

LEMMA IdentitiesRight == AccountsInv => OneAccountPerIdentity
<1> SUFFICES ASSUME AccountsInv, NEW o \in Identities, o \notin twice, doubled = {}
             PROVE  Cardinality(ByOAuthId(o)) <= 1
    BY Zenon DEF OneAccountPerIdentity
<1>1. ASSUME NEW r \in ByOAuthId(o), NEW s \in ByOAuthId(o)
      PROVE  r = s
    <2>1. CASE Mail[o] = Null
        BY <1>1, <2>1, Zenon DEF AccountsInv, BareAlone
    <2>2. CASE Mail[o] # Null
        <3>1. o # Null /\ r \in Rows /\ s \in Rows /\ accounts[r].oauth = o /\ accounts[s].oauth = o
            BY <1>1, NullAssumption DEF ByOAuthId
        <3>2. accounts[r].email = Mail[o] /\ accounts[s].email = Mail[o]
            BY <2>2, <3>1, Zenon DEF AccountsInv, LinksByAddress
        <3> QED
            BY <2>2, <3>1, <3>2, Zenon DEF AccountsInv, OneRowPerEmail
    <2> QED
        BY <2>1, <2>2
<1>2. CASE ByOAuthId(o) = {}
    BY <1>2, FS_EmptySet
<1>3. ASSUME NEW r \in ByOAuthId(o)
      PROVE  Cardinality(ByOAuthId(o)) = 1
    <2>1. ByOAuthId(o) = {r}
        BY <1>1, <1>3
    <2> QED
        BY <2>1, FS_Singleton
<1> QED
    BY <1>2, <1>3

\* Whatever sign-ins, registrations and upgrades overlap, the table's one
\* unique index is enough for no key to stop working and for no identity to
\* get two accounts, outside the two races that the table cannot see.
THEOREM AccountsRightCorrect == AccountsSpec => []AccountsRight
<1>1. AccountsInv => AccountsRight
    BY KeysRight, IdentitiesRight DEF AccountsRight
<1> QED
    BY <1>1, AccountsInvariant, PTL

-----------------------------------------------------------------------------
\* The friendships.
FriendRows == [id : Nat, from : Pair, to : Pair, status : {"pending", "accepted"}]
FriendCalls == [user : Pair, kind : {"send", "accept", "decline", "remove", "load"},
                at : {"create", "notify", "write", "read", "show"},
                read : SUBSET FriendRows, fresh : BOOLEAN]

FriendsTyped ==
    /\ rows \subseteq FriendRows /\ ids \in Nat /\ losses \in Nat
    /\ calls \subseteq FriendCalls
    /\ \A c \in calls : c.kind = "load" <=> c.at \in {"read", "show"}
    /\ pages \in [Pair -> {"fresh", "old", "failed"}]
    /\ crossed \in BOOLEAN /\ muddled \in BOOLEAN /\ over \in BOOLEAN

\* Unless two requests crossed, those that send have one side, and so has the
\* row there is while a request is about to create one; after a removal nobody
\* is about to.
OneSide ==
    ~crossed =>
        /\ \A r, q \in rows : r = q
        /\ \A c, d \in calls : c.kind = "send" /\ d.kind = "send" => c.user = d.user
        /\ \A c \in calls, r \in rows : c.kind = "send" /\ c.at = "create" => r.from = c.user
        /\ over => rows = {}

\* The unique index: a direction has one row.
EachWay == \A r, q \in rows : r.from = q.from => r = q

OverIsQuiet == over => \A c \in calls : c.kind # "send"

\* What a page is about to show was read after its user's last call.
ShowsFresh == ~muddled => \A c \in calls : c.at = "show" => c.fresh

FriendsInv ==
    FriendsTyped /\ OneSide /\ EachWay /\ OverIsQuiet /\ ShowsFresh /\ RequestsAreNotified /\ OwnDeedsShow

LEMMA OtherFacts ==
    ASSUME NEW u \in Pair
    PROVE  Other(u) \in Pair /\ Other(u) # u /\ \A v \in Pair : v = u \/ v = Other(u)
<1>1. PICK a \in Pair, b \in Pair : a # b /\ Pair = {a, b}
    BY PairAssumption
<1>2. \E v \in Pair : v # u
    BY <1>1
<1>3. Other(u) \in Pair /\ Other(u) # u
    BY <1>2 DEF Other
<1> QED
    BY <1>1, <1>3

LEMMA RowFacts ==
    ASSUME NEW id \in Nat, NEW u \in Pair, NEW status \in {"pending", "accepted"}
    PROVE  /\ Row(id, u, status) \in FriendRows
           /\ Row(id, u, status).id = id /\ Row(id, u, status).from = u
BY OtherFacts DEF Row, FriendRows

LEMMA PageCallFacts ==
    ASSUME NEW u \in Pair, NEW kind \in {"send", "accept", "decline", "remove", "load"},
           NEW at \in {"create", "notify", "write", "read", "show"}, NEW read \in SUBSET FriendRows
    PROVE  \E c \in FriendCalls : /\ c = PageCall(u, kind, at, read)
                                  /\ c.user = u /\ c.kind = kind /\ c.at = at /\ c.read = read
<1>1. PICK c : c = PageCall(u, kind, at, read)
    OBVIOUS
<1>2. c \in FriendCalls
    BY <1>1 DEF PageCall, FriendCalls
<1>3. c.user = u /\ c.kind = kind /\ c.at = at /\ c.read = read
    BY <1>1 DEF PageCall
<1> QED
    BY <1>1, <1>2, <1>3, Zenon

\* A call that differs from another only in what it will show.
Same(d, e) == d.user = e.user /\ d.kind = e.kind /\ d.at = e.at /\ d.read = e.read

LEMMA OldFacts ==
    ASSUME NEW d \in FriendCalls
    PROVE  [d EXCEPT !.fresh = FALSE] \in FriendCalls /\ Same([d EXCEPT !.fresh = FALSE], d)
<1>1. PICK e : e = [d EXCEPT !.fresh = FALSE]
    OBVIOUS
<1>2. e \in FriendCalls
    BY <1>1 DEF FriendCalls
<1>3. e.user = d.user /\ e.kind = d.kind /\ e.at = d.at /\ e.read = d.read
    BY <1>1 DEF FriendCalls
<1> QED
    BY <1>1, <1>2, <1>3, Zenon DEF Same

\* The page loads its lists again, and the other calls go on.
LEMMA ReloadFacts ==
    ASSUME FriendsInv, NEW c \in calls, Reloads(c)
    PROVE  /\ calls' \subseteq FriendCalls
           /\ \E x \in calls' : x.user = c.user /\ x.kind = "load"
           /\ \A d \in calls' : \/ d.kind = "load" /\ d.at = "read" /\ d.user = c.user
                                \/ \E e \in calls : /\ e # c /\ Same(d, e)
                                                    /\ e.user # c.user => d = e
           /\ \A e \in calls : e # c => \E d \in calls' : Same(d, e)
           /\ pages' = [pages EXCEPT ![c.user] = "old"]
           /\ muddled' \in BOOLEAN
           /\ ~muddled' => ~muddled /\ \A d \in calls : d.kind = "load" => d.user # c.user
<1>1. calls \subseteq FriendCalls /\ muddled \in BOOLEAN
    BY DEF FriendsInv, FriendsTyped
<1>2. c.user \in Pair
    BY <1>1 DEF FriendCalls
<1>3. PICK x \in FriendCalls : /\ x = PageCall(c.user, "load", "read", {})
                               /\ x.user = c.user /\ x.kind = "load" /\ x.at = "read" /\ x.read = {}
  <2>1. PICK u \in Pair : u = c.user
      BY <1>2
  <2>2. {} \in SUBSET FriendRows
      OBVIOUS
  <2> QED
      BY <2>1, <2>2, PageCallFacts
<1>4. PICK old : old = {IF d.user = c.user THEN [d EXCEPT !.fresh = FALSE] ELSE d : d \in calls \ {c}}
    OBVIOUS
<1>5. calls' = old \cup {x}
    BY <1>3, <1>4, Zenon DEF Reloads
<1>6. ASSUME NEW d \in old
      PROVE  d \in FriendCalls /\ \E e \in calls : e # c /\ Same(d, e) /\ (e.user # c.user => d = e)
  <2>1. PICK e \in calls \ {c} : d = IF e.user = c.user THEN [e EXCEPT !.fresh = FALSE] ELSE e
      BY <1>4
  <2>2. CASE e.user = c.user
    <3>1. d \in FriendCalls /\ Same(d, e)
        BY <1>1, <2>1, <2>2, OldFacts
    <3> QED
        BY <2>1, <2>2, <3>1
  <2>3. CASE e.user # c.user
    <3>1. d = e
        BY <2>1, <2>3
    <3> QED
        BY <1>1, <2>1, <3>1, Zenon DEF Same
  <2> QED
      BY <2>2, <2>3
<1>7. ASSUME NEW e \in calls, e # c
      PROVE  \E d \in old : Same(d, e)
  <2>1. PICK d : d = IF e.user = c.user THEN [e EXCEPT !.fresh = FALSE] ELSE e
      OBVIOUS
  <2>2. d \in old
      BY <1>4, <1>7, <2>1
  <2>3. CASE e.user = c.user
    <3>1. Same(d, e)
        BY <1>1, <2>1, <2>3, OldFacts
    <3> QED
        BY <2>2, <3>1
  <2>4. CASE e.user # c.user
    <3>1. d = e
        BY <2>1, <2>4
    <3> QED
        BY <2>2, <3>1, Zenon DEF Same
  <2> QED
      BY <2>3, <2>4
<1>8. pages' = [pages EXCEPT ![c.user] = "old"]
    BY DEF Reloads
<1>9. /\ muddled' \in BOOLEAN
      /\ ~muddled' => ~muddled /\ \A d \in calls : d.kind = "load" => d.user # c.user
  <2>1. muddled' = (muddled \/ \E d \in calls : d.user = c.user /\ d.kind = "load")
      BY DEF Reloads
  <2> QED
      BY <2>1, Zenon
<1> QED
    BY <1>3, <1>5, <1>6, <1>7, <1>8, <1>9

\* What a call that is answered keeps, whatever it has written.
LEMMA ReloadStep ==
    ASSUME FriendsInv, NEW c \in calls, Reloads(c), UNCHANGED ids,
           rows' \subseteq FriendRows, losses' \in Nat, crossed' = crossed,
           over' \in BOOLEAN, over' => over \/ \A d \in calls : d.kind # "send",
           ~crossed => OneSide', EachWay',
           RequestsAreNotified'
    PROVE  FriendsInv'
<1>1. /\ calls' \subseteq FriendCalls
      /\ \E x \in calls' : x.user = c.user /\ x.kind = "load"
      /\ \A d \in calls' : \/ d.kind = "load" /\ d.at = "read" /\ d.user = c.user
                           \/ \E e \in calls : /\ e # c /\ Same(d, e)
                                               /\ e.user # c.user => d = e
      /\ \A e \in calls : e # c => \E d \in calls' : Same(d, e)
      /\ pages' = [pages EXCEPT ![c.user] = "old"]
      /\ muddled' \in BOOLEAN
      /\ ~muddled' => ~muddled /\ \A d \in calls : d.kind = "load" => d.user # c.user
    BY ReloadFacts
<1>2. /\ FriendsTyped /\ OneSide /\ OverIsQuiet /\ ShowsFresh /\ OwnDeedsShow
    BY DEF FriendsInv
<1>3. FriendsTyped'
  <2>1. \A d \in calls' : d.kind = "load" <=> d.at \in {"read", "show"}
      BY <1>1, <1>2 DEF FriendsTyped, Same
  <2>2. pages' \in [Pair -> {"fresh", "old", "failed"}]
      BY <1>1, <1>2 DEF FriendsTyped
  <2> QED
      BY <1>1, <1>2, <2>1, <2>2 DEF FriendsTyped
<1>4. OneSide'
    BY DEF OneSide
<1>5. OverIsQuiet'
    BY <1>1, <1>2 DEF OverIsQuiet, Same
<1>6. ShowsFresh'
  <2> SUFFICES ASSUME ~muddled', NEW d \in calls', d.at = "show"
               PROVE  d.fresh
      BY DEF ShowsFresh
  <2>1. PICK e \in calls : e # c /\ Same(d, e) /\ (e.user # c.user => d = e)
      BY <1>1
  <2>2. e.kind = "load" /\ e.at = "show"
      BY <1>2, <2>1 DEF Same, FriendsTyped
  <2>3. d = e
      BY <1>1, <2>1, <2>2
  <2> QED
      BY <1>1, <1>2, <2>2, <2>3, Zenon DEF ShowsFresh
<1>7. OwnDeedsShow'
  <2> SUFFICES ASSUME ~muddled', NEW u \in Pair, pages'[u] = "old"
               PROVE  \E d \in calls' : d.user = u /\ d.kind = "load"
      BY DEF OwnDeedsShow
  <2>1. CASE u = c.user
      BY <1>1, <2>1
  <2>2. CASE u # c.user
    <3>1. pages[u] = "old"
        BY <1>1, <1>2, <2>2 DEF FriendsTyped
    <3>2. PICK e \in calls : e.user = u /\ e.kind = "load"
        BY <1>1, <1>2, <3>1 DEF OwnDeedsShow
    <3> QED
        BY <1>1, <2>2, <3>2 DEF Same
  <2> QED
      BY <2>1, <2>2
<1> QED
    BY <1>3, <1>4, <1>5, <1>6, <1>7 DEF FriendsInv

\* A call begins that reads the rows and is not a load.
LEMMA BeginStep ==
    ASSUME FriendsInv, NEW c \in FriendCalls, Begins(c), c.at \in {"create", "write"},
           c.kind # "load", UNCHANGED <<rows, ids, notices, pages, losses, muddled>>,
           crossed' \in BOOLEAN, over' \in BOOLEAN,
           \/ c.kind # "send" /\ crossed' = crossed /\ over' = over
           \/ /\ rows = {} /\ ~over'
              /\ ~crossed' => ~crossed /\ \A d \in calls : d.kind = "send" => d.user = c.user
    PROVE  FriendsInv'
<1>1. calls' = calls \cup {c}
    BY DEF Begins
<1>2. FriendsTyped /\ OneSide /\ OverIsQuiet /\ ShowsFresh /\ RequestsAreNotified /\ OwnDeedsShow
    BY DEF FriendsInv
<1>3. FriendsTyped'
    BY <1>1, <1>2 DEF FriendsTyped
<1>4. OneSide'
  <2>1. CASE c.kind # "send" /\ crossed' = crossed /\ over' = over
      BY <1>1, <1>2, <2>1 DEF OneSide
  <2>2. CASE /\ rows = {} /\ ~over'
             /\ ~crossed' => ~crossed /\ \A d \in calls : d.kind = "send" => d.user = c.user
      BY <1>1, <1>2, <2>2 DEF OneSide
  <2> QED
      BY <2>1, <2>2
<1>5. OverIsQuiet' /\ EachWay'
    BY <1>1, <1>2 DEF OverIsQuiet, EachWay, FriendsInv
<1>6. ShowsFresh'
    BY <1>1, <1>2 DEF ShowsFresh
<1>7. RequestsAreNotified'
  <2> SUFFICES ASSUME losses = 0, NEW r \in rows
               PROVE  \E n \in notices \cup UNION {d.read : d \in {e \in calls' : e.at = "notify"}} : n.id = r.id
      BY DEF RequestsAreNotified
  <2>1. PICK n \in notices \cup UNION {d.read : d \in {e \in calls : e.at = "notify"}} : n.id = r.id
      BY <1>2 DEF RequestsAreNotified
  <2> QED
      BY <1>1, <2>1
<1>8. OwnDeedsShow'
    BY <1>1, <1>2 DEF OwnDeedsShow
<1> QED
    BY <1>3, <1>4, <1>5, <1>6, <1>7, <1>8 DEF FriendsInv

LEMMA AskStep ==
    ASSUME FriendsInv, NEW u \in Pair, Ask(u)
    PROVE  FriendsInv'
<1>1. PICK c \in FriendCalls : /\ c = PageCall(u, "send", "create", {})
                               /\ c.user = u /\ c.kind = "send" /\ c.at = "create"
    BY PageCallFacts
<1>2. /\ Begins(c) /\ rows = {} /\ over' = FALSE /\ crossed' = (crossed \/ Asking(Other(u)))
      /\ UNCHANGED <<rows, ids, notices, pages, losses, muddled>>
    BY <1>1, Zenon DEF Ask
<1>3. crossed' \in BOOLEAN /\ (~crossed' => ~crossed /\ ~Asking(Other(u)))
    BY <1>2, Zenon
<1>4. ~Asking(Other(u)) => \A d \in calls : d.kind = "send" => d.user = u
  <2>1. \A d \in calls : d.user \in Pair
      BY DEF FriendsInv, FriendsTyped, FriendCalls
  <2> QED
      BY <2>1, OtherFacts DEF Asking
<1>5. over' \in BOOLEAN /\ ~over'
    BY <1>2
<1> QED
    BY <1>1, <1>2, <1>3, <1>4, <1>5, BeginStep

LEMMA FindStep ==
    ASSUME FriendsInv, NEW u \in Pair, NEW kind \in {"accept", "decline", "remove"},
           Find(u, kind) \/ (kind = "remove" /\ FindAny(u))
    PROVE  FriendsInv'
<1>1. PICK r \in rows : Begins(PageCall(u, kind, "write", {r}))
    BY Zenon DEF Find, FindAny
<1>2. UNCHANGED <<rows, ids, notices, pages, losses, crossed, muddled, over>>
    BY Zenon DEF Find, FindAny
<1>3. {r} \in SUBSET FriendRows
    BY DEF FriendsInv, FriendsTyped
<1>4. PICK c \in FriendCalls : /\ c = PageCall(u, kind, "write", {r})
                               /\ c.user = u /\ c.kind = kind /\ c.at = "write"
    BY <1>3, PageCallFacts
<1>5. Begins(c)
    BY <1>1, <1>4, Zenon
<1>6. crossed' \in BOOLEAN /\ over' \in BOOLEAN /\ crossed' = crossed /\ over' = over
    BY <1>2 DEF FriendsInv, FriendsTyped
<1> QED
    BY <1>2, <1>4, <1>5, <1>6, BeginStep

LEMMA CreateStep ==
    ASSUME FriendsInv, NEW c \in calls, Create(c)
    PROVE  FriendsInv'
<1>1. /\ FriendsTyped /\ OneSide /\ EachWay /\ OverIsQuiet /\ ShowsFresh
      /\ RequestsAreNotified /\ OwnDeedsShow
      /\ c \in FriendCalls /\ c.user \in Pair
    BY DEF FriendsInv, FriendsTyped, FriendCalls
<1>2. /\ c.kind = "send" /\ c.at = "create"
      /\ UNCHANGED <<notices, pages, losses, crossed, muddled, over>>
    BY DEF Create
<1>3. CASE \E r \in rows : r.from = c.user
  <2>1. calls' = calls \ {c} /\ UNCHANGED <<rows, ids>>
      BY <1>3 DEF Create, Throws
  <2>2. FriendsTyped' /\ OneSide' /\ EachWay' /\ OverIsQuiet' /\ ShowsFresh'
      BY <1>1, <1>2, <2>1 DEF FriendsTyped, OneSide, EachWay, OverIsQuiet, ShowsFresh
  <2>3. RequestsAreNotified'
    <3> SUFFICES ASSUME losses = 0, NEW r \in rows
                 PROVE  \E n \in notices \cup UNION {d.read : d \in {e \in calls' : e.at = "notify"}} : n.id = r.id
        BY <1>2, <2>1 DEF RequestsAreNotified
    <3>1. PICK n \in notices \cup UNION {d.read : d \in {e \in calls : e.at = "notify"}} : n.id = r.id
        BY <1>1 DEF RequestsAreNotified
    <3> QED
        BY <1>2, <2>1, <3>1
  <2>4. OwnDeedsShow'
      BY <1>1, <1>2, <2>1 DEF OwnDeedsShow
  <2> QED
      BY <2>2, <2>3, <2>4 DEF FriendsInv
<1>4. CASE ~\E r \in rows : r.from = c.user
  <2>1. PICK row : row = Row(ids + 1, c.user, "pending")
      OBVIOUS
  <2>2. row \in FriendRows /\ row.id = ids + 1 /\ row.from = c.user /\ ids + 1 \in Nat
    <3>1. ids + 1 \in Nat
        BY <1>1 DEF FriendsTyped
    <3>2. PICK n \in Nat, u \in Pair : n = ids + 1 /\ u = c.user
        BY <1>1, <3>1
    <3> QED
        BY <2>1, <3>1, <3>2, RowFacts
  <2>3. PICK d : d = [c EXCEPT !.at = "notify", !.read = {row}]
      OBVIOUS
  <2>4. d \in FriendCalls /\ d.user = c.user /\ d.kind = "send" /\ d.at = "notify" /\ d.read = {row}
      BY <1>1, <1>2, <2>2, <2>3 DEF FriendCalls
  <2>5. ids' = ids + 1 /\ rows' = rows \cup {row} /\ calls' = (calls \ {c}) \cup {d}
      BY <1>4, <2>1, <2>3, Zenon DEF Create
  <2>6. FriendsTyped'
      BY <1>1, <1>2, <2>2, <2>4, <2>5 DEF FriendsTyped
  <2>7. OneSide'
    <3> SUFFICES ASSUME ~crossed
                 PROVE  /\ \A r, q \in rows' : r = q
                        /\ \A x, y \in calls' : x.kind = "send" /\ y.kind = "send" => x.user = y.user
                        /\ \A x \in calls', r \in rows' : x.kind = "send" /\ x.at = "create" => r.from = x.user
                        /\ ~over
        BY <1>2 DEF OneSide
    <3>1. rows = {}
        BY <1>1, <1>2, <1>4 DEF OneSide
    <3>2. \A r, q \in rows' : r = q
        BY <2>5, <3>1
    <3>3. \A x \in calls' : x.kind = "send" => x.user = c.user
        BY <1>1, <1>2, <2>4, <2>5 DEF OneSide
    <3>4. \A x \in calls', r \in rows' : x.kind = "send" /\ x.at = "create" => r.from = x.user
        BY <2>2, <2>5, <3>1, <3>3
    <3>5. ~over
        BY <1>1, <1>2 DEF OverIsQuiet
    <3> QED
        BY <3>2, <3>3, <3>4, <3>5
  <2>8. OverIsQuiet' /\ ShowsFresh'
      BY <1>1, <1>2, <2>4, <2>5 DEF OverIsQuiet, ShowsFresh
  <2>11. EachWay'
      BY <1>1, <1>4, <2>2, <2>5 DEF EachWay
  <2>9. RequestsAreNotified'
    <3> SUFFICES ASSUME losses = 0, NEW r \in rows'
                 PROVE  \E n \in notices \cup UNION {x.read : x \in {e \in calls' : e.at = "notify"}} : n.id = r.id
        BY <1>2 DEF RequestsAreNotified
    <3>1. CASE r = row
        BY <2>4, <2>5, <3>1
    <3>2. CASE r \in rows
      <4>1. PICK n \in notices \cup UNION {x.read : x \in {e \in calls : e.at = "notify"}} : n.id = r.id
          BY <1>1, <3>2 DEF RequestsAreNotified
      <4> QED
          BY <1>2, <2>5, <4>1
    <3> QED
        BY <2>5, <3>1, <3>2
  <2>10. OwnDeedsShow'
      BY <1>1, <1>2, <2>5 DEF OwnDeedsShow
  <2> QED
      BY <2>6, <2>7, <2>8, <2>9, <2>10, <2>11 DEF FriendsInv
<1> QED
    BY <1>3, <1>4

\* Whoever was told of a request still is, when a call is answered that told
\* nobody or whose notice is there now.
LEMMA NoticesStay ==
    ASSUME FriendsInv, NEW c \in calls, Reloads(c), UNCHANGED losses,
           \A n \in notices : n \in notices',
           c.at = "notify" => \A n \in c.read : n \in notices',
           \A r \in rows' : \E q \in rows : q.id = r.id
    PROVE  RequestsAreNotified'
<1> SUFFICES ASSUME losses = 0, NEW r \in rows'
             PROVE  \E n \in notices' \cup UNION {d.read : d \in {e \in calls' : e.at = "notify"}} : n.id = r.id
    BY DEF RequestsAreNotified
<1>1. PICK q \in rows : q.id = r.id
    OBVIOUS
<1>2. PICK n \in notices \cup UNION {d.read : d \in {e \in calls : e.at = "notify"}} : n.id = q.id
    BY DEF FriendsInv, RequestsAreNotified
<1>3. \A e \in calls : e # c => \E d \in calls' : Same(d, e)
    BY ReloadFacts
<1>4. CASE n \in notices
    BY <1>1, <1>2, <1>4
<1>5. CASE n \notin notices
  <2>1. PICK e \in calls : e.at = "notify" /\ n \in e.read
      BY <1>2, <1>5
  <2>2. CASE e = c
      BY <1>1, <1>2, <2>1, <2>2
  <2>3. CASE e # c
    <3>1. PICK d \in calls' : Same(d, e)
        BY <1>3, <2>3
    <3>2. d.at = "notify" /\ n \in d.read
        BY <2>1, <3>1 DEF Same
    <3> QED
        BY <1>1, <1>2, <3>2
  <2> QED
      BY <2>2, <2>3
<1> QED
    BY <1>4, <1>5

LEMMA SidesStay ==
    ASSUME FriendsInv, NEW c \in calls, Reloads(c), ~crossed,
           \A r, q \in rows' : r = q, \A r \in rows' : \E q \in rows : q.from = r.from,
           over' => rows' = {}
    PROVE  OneSide'
<1>1. \A d \in calls' : d.kind = "send" => \E e \in calls : Same(d, e)
  <2>1. \A d \in calls' : \/ d.kind = "load"
                          \/ \E e \in calls : Same(d, e)
      BY ReloadFacts
  <2> QED
      BY <2>1
<1> QED
    BY <1>1 DEF FriendsInv, OneSide, Same

LEMMA NotifyStep ==
    ASSUME FriendsInv, NEW c \in calls, Notify(c)
    PROVE  FriendsInv'
<1>1. c.kind = "send" /\ c.at = "notify" /\ UNCHANGED <<rows, ids, crossed, over>>
    BY DEF Notify
<1>2. FriendsTyped /\ OneSide /\ OverIsQuiet /\ ShowsFresh /\ OwnDeedsShow
    BY DEF FriendsInv
<1>3. CASE notices' = notices \cup c.read /\ Reloads(c) /\ UNCHANGED losses
  <2>1. RequestsAreNotified'
      BY <1>1, <1>3, NoticesStay
  <2>2. ~crossed => OneSide'
    <3>1. ASSUME ~crossed
          PROVE  /\ \A r, q \in rows' : r = q
                 /\ \A r \in rows' : \E q \in rows : q.from = r.from
                 /\ over' => rows' = {}
        BY <1>1, <1>2, <3>1 DEF OneSide
    <3> QED
        BY <1>3, <3>1, SidesStay
  <2>3. rows' \subseteq FriendRows /\ losses' \in Nat /\ over' \in BOOLEAN
      BY <1>1, <1>2, <1>3 DEF FriendsTyped
  <2>4. EachWay'
      BY <1>1 DEF EachWay, FriendsInv
  <2> QED
      BY <1>1, <1>3, <2>1, <2>2, <2>3, <2>4, ReloadStep
<1>4. CASE losses' = losses + 1 /\ Throws(c) /\ UNCHANGED <<notices, pages, muddled>>
  <2>1. calls' = calls \ {c} /\ losses' \in Nat /\ losses' # 0
      BY <1>2, <1>4 DEF Throws, FriendsTyped
  <2>2. FriendsTyped' /\ OneSide' /\ EachWay' /\ OverIsQuiet' /\ ShowsFresh'
      BY <1>1, <1>2, <1>4, <2>1 DEF FriendsTyped, OneSide, EachWay, OverIsQuiet, ShowsFresh, FriendsInv
  <2>3. OwnDeedsShow'
      BY <1>1, <1>2, <1>4, <2>1 DEF OwnDeedsShow
  <2>4. RequestsAreNotified'
      BY <2>1 DEF RequestsAreNotified
  <2> QED
      BY <2>2, <2>3, <2>4 DEF FriendsInv
<1> QED
    BY <1>3, <1>4, Zenon DEF Notify

LEMMA AcceptStep ==
    ASSUME FriendsInv, NEW c \in calls, Accept(c)
    PROVE  FriendsInv'
<1>1. c.at = "write" /\ Reloads(c) /\ UNCHANGED <<ids, notices, losses, crossed, over>>
    BY DEF Accept
<1>2. FriendsTyped /\ OneSide
    BY DEF FriendsInv
<1>3. PICK found : found = {r \in rows : \E q \in c.read : q.id = r.id}
    OBVIOUS
<1>4. rows' = (rows \ found) \cup {[r EXCEPT !.status = "accepted"] : r \in found}
    BY <1>3, Zenon DEF Accept
<1>5. ASSUME NEW r \in rows'
      PROVE  \E q \in rows : /\ r \in FriendRows /\ r.id = q.id /\ r.from = q.from
                             /\ r = IF q \in found THEN [q EXCEPT !.status = "accepted"] ELSE q
  <2>1. CASE r \in rows \ found
      BY <1>2, <2>1 DEF FriendsTyped
  <2>2. CASE r \notin rows \ found
    <3>1. PICK q \in found : r = [q EXCEPT !.status = "accepted"]
        BY <1>4, <1>5, <2>2
    <3>2. q \in rows /\ q \in FriendRows
        BY <1>2, <1>3 DEF FriendsTyped
    <3>3. r \in FriendRows /\ r.id = q.id /\ r.from = q.from
        BY <3>1, <3>2 DEF FriendRows
    <3> QED
        BY <3>1, <3>2, <3>3
  <2> QED
      BY <2>1, <2>2
<1>6. RequestsAreNotified'
    BY <1>1, <1>5, NoticesStay
<1>7. ~crossed => OneSide'
  <2> SUFFICES ASSUME ~crossed
               PROVE  OneSide'
      OBVIOUS
  <2>1. \A r, q \in rows : r = q
      BY <1>2 DEF OneSide
  <2>2. \A r, q \in rows' : r = q
      BY <1>5, <2>1
  <2>3. over' => rows' = {}
      BY <1>1, <1>2, <1>5 DEF OneSide
  <2> QED
      BY <1>1, <1>5, <2>2, <2>3, SidesStay
<1>8. rows' \subseteq FriendRows
    BY <1>5
<1>9. losses' \in Nat /\ over' \in BOOLEAN /\ (over' => over)
    BY <1>1, <1>2 DEF FriendsTyped
<1>10. EachWay'
    BY <1>5 DEF EachWay, FriendsInv
<1> QED
    BY <1>1, <1>6, <1>7, <1>8, <1>9, <1>10, ReloadStep

LEMMA DestroyStep ==
    ASSUME FriendsInv, NEW c \in calls, Destroy(c)
    PROVE  FriendsInv'
<1>1. /\ c.at = "write" /\ Reloads(c) /\ UNCHANGED <<ids, notices, losses, crossed>>
      /\ rows' = {r \in rows : \A q \in c.read : q.id # r.id}
      /\ over' = (over \/ (c.kind = "remove" /\ rows' # rows /\ \A u \in Pair : ~Asking(u)))
    BY DEF Destroy
<1>2. FriendsTyped /\ OneSide
    BY DEF FriendsInv
<1>3. over' \in BOOLEAN /\ (over' => over \/ (rows' # rows /\ \A u \in Pair : ~Asking(u)))
    BY <1>1, Zenon
<1>4. (\A u \in Pair : ~Asking(u)) => \A d \in calls : d.kind # "send"
    BY <1>2 DEF Asking, FriendsTyped, FriendCalls
<1>5. RequestsAreNotified'
  <2>1. \A r \in rows' : \E q \in rows : q.id = r.id
      BY <1>1
  <2>2. UNCHANGED <<notices, losses>> /\ c.at # "notify" /\ Reloads(c)
      BY <1>1
  <2> QED
      BY <2>1, <2>2, NoticesStay
<1>6. ~crossed => OneSide'
  <2> SUFFICES ASSUME ~crossed
               PROVE  OneSide'
      OBVIOUS
  <2>1. /\ \A r, q \in rows : r = q
        /\ over => rows = {}
      BY <1>2 DEF OneSide
  <2>2. \A r \in rows' : r \in rows
      BY <1>1
  <2>3. over' => rows' = {}
      BY <1>3, <2>1, <2>2
  <2>4. Reloads(c)
      BY <1>1
  <2> QED
      BY <2>1, <2>2, <2>3, <2>4, SidesStay
<1>7. rows' \subseteq FriendRows /\ losses' \in Nat
    BY <1>1, <1>2 DEF FriendsTyped
<1>8. UNCHANGED ids /\ crossed' = crossed /\ Reloads(c)
    BY <1>1
<1>9. over' => over \/ \A d \in calls : d.kind # "send"
    BY <1>3, <1>4
<1>10. EachWay'
    BY <1>1 DEF EachWay, FriendsInv
<1> QED
    BY <1>3, <1>5, <1>6, <1>7, <1>8, <1>9, <1>10, ReloadStep

\* A load goes on or ends: x is what there is of it now.
ToShow(d, u) ==
    d \in FriendCalls /\ d.kind = "load" /\ d.at = "show" /\ d.user = u /\ d.fresh

LEMMA LoadStep ==
    ASSUME FriendsInv, NEW c \in calls, c.kind = "load", NEW x, calls' = (calls \ {c}) \cup x,
           \A d \in x : ToShow(d, c.user),
           UNCHANGED <<rows, ids, notices, crossed, muddled, over>>,
           losses' \in Nat, losses' = 0 => losses = 0,
           pages' \in [Pair -> {"fresh", "old", "failed"}],
           \A u \in Pair : u # c.user => pages'[u] = pages[u],
           x # {} \/ muddled \/ pages'[c.user] # "old"
    PROVE  FriendsInv'
<1>1. FriendsTyped /\ OneSide /\ EachWay /\ OverIsQuiet /\ ShowsFresh /\ RequestsAreNotified /\ OwnDeedsShow
    BY DEF FriendsInv
<1>2. c.at \in {"read", "show"}
    BY <1>1 DEF FriendsTyped
<1>3. FriendsTyped'
    BY <1>1 DEF FriendsTyped, ToShow
<1>4. OneSide' /\ EachWay' /\ OverIsQuiet' /\ ShowsFresh'
    BY <1>1 DEF OneSide, EachWay, OverIsQuiet, ShowsFresh, ToShow
<1>5. RequestsAreNotified'
  <2> SUFFICES ASSUME losses = 0, NEW r \in rows
               PROVE  \E n \in notices \cup UNION {d.read : d \in {e \in calls' : e.at = "notify"}} : n.id = r.id
      BY DEF RequestsAreNotified
  <2>1. PICK n \in notices \cup UNION {d.read : d \in {e \in calls : e.at = "notify"}} : n.id = r.id
      BY <1>1 DEF RequestsAreNotified
  <2> QED
      BY <1>2, <2>1
<1>6. OwnDeedsShow'
  <2> SUFFICES ASSUME ~muddled, NEW u \in Pair, pages'[u] = "old"
               PROVE  \E d \in calls' : d.user = u /\ d.kind = "load"
      BY DEF OwnDeedsShow
  <2>1. CASE u = c.user
      BY <2>1 DEF ToShow
  <2>2. CASE u # c.user
    <3>1. PICK e \in calls : e.user = u /\ e.kind = "load"
        BY <1>1, <2>2 DEF OwnDeedsShow
    <3> QED
        BY <2>2, <3>1
  <2> QED
      BY <2>1, <2>2
<1> QED
    BY <1>3, <1>4, <1>5, <1>6 DEF FriendsInv

LEMMA LoadsStep ==
    ASSUME FriendsInv, NEW c \in calls, ReadLists(c) \/ ShowLists(c) \/ LoadFails(c)
    PROVE  FriendsInv'
<1>1. /\ FriendsTyped /\ ShowsFresh /\ c \in FriendCalls /\ c.user \in Pair
      /\ c.kind = "load" /\ UNCHANGED <<rows, ids, notices, crossed, muddled, over>>
    BY Zenon DEF FriendsInv, FriendsTyped, FriendCalls, ReadLists, ShowLists, LoadFails
<1>2. losses \in Nat /\ pages \in [Pair -> {"fresh", "old", "failed"}]
    BY <1>1 DEF FriendsTyped
<1>3. CASE ReadLists(c)
  <2>1. PICK d : d = [c EXCEPT !.at = "show", !.fresh = TRUE]
      OBVIOUS
  <2>2. d \in FriendCalls
      BY <1>1, <2>1 DEF FriendCalls
  <2>3. d.kind = "load" /\ d.at = "show" /\ d.user = c.user
      BY <1>1, <2>1 DEF FriendCalls
  <2>4. d.fresh
      BY <1>1, <2>1 DEF FriendCalls
  <2>5. calls' = (calls \ {c}) \cup {d} /\ UNCHANGED <<pages, losses>>
      BY <1>3, <2>1, Zenon DEF ReadLists
  <2>6. PICK x : x = {d}
      OBVIOUS
  <2>7. \A e \in x : ToShow(e, c.user)
      BY <2>2, <2>3, <2>4, <2>6, Zenon DEF ToShow
  <2>8. calls' = (calls \ {c}) \cup x /\ x # {}
      BY <2>5, <2>6
  <2>9. /\ losses' \in Nat /\ (losses' = 0 => losses = 0)
        /\ pages' \in [Pair -> {"fresh", "old", "failed"}]
        /\ \A u \in Pair : u # c.user => pages'[u] = pages[u]
      BY <1>2, <2>5
  <2>10. UNCHANGED <<rows, ids, notices, crossed, muddled, over>> /\ c.kind = "load"
      BY <1>1
  <2>11. x # {} \/ muddled \/ pages'[c.user] # "old"
      BY <2>8
  <2> QED
      BY <2>7, <2>8, <2>9, <2>10, <2>11, LoadStep, Zenon
<1>4. ASSUME NEW what \in {"fresh", "failed", "old"}, pages' = [pages EXCEPT ![c.user] = what],
             Throws(c), losses' \in Nat, losses' = 0 => losses = 0, muddled \/ what # "old"
      PROVE  FriendsInv'
  <2>1. PICK x : x = {}
      OBVIOUS
  <2>3. calls' = (calls \ {c}) \cup x /\ \A d \in x : ToShow(d, c.user)
      BY <1>4, <2>1 DEF Throws
  <2>2. /\ pages' \in [Pair -> {"fresh", "old", "failed"}]
        /\ \A u \in Pair : u # c.user => pages'[u] = pages[u]
        /\ pages'[c.user] = what
      BY <1>1, <1>2, <1>4
  <2>4. UNCHANGED <<rows, ids, notices, crossed, muddled, over>> /\ c.kind = "load"
      BY <1>1
  <2>5. x # {} \/ muddled \/ pages'[c.user] # "old"
      BY <1>4, <2>2, Zenon
  <2>6. losses' \in Nat /\ (losses' = 0 => losses = 0)
      BY <1>4
  <2> QED
      BY <2>2, <2>3, <2>4, <2>5, <2>6, LoadStep, Zenon
<1>5. CASE ShowLists(c)
  <2>1. PICK what : what = IF c.fresh THEN "fresh" ELSE "old"
      OBVIOUS
  <2>2. pages' = [pages EXCEPT ![c.user] = what] /\ Throws(c) /\ UNCHANGED losses /\ c.at = "show"
      BY <1>5, <2>1, Zenon DEF ShowLists
  <2>3. muddled \/ c.fresh
      BY <1>1, <2>2, Zenon DEF ShowsFresh
  <2>4. what \in {"fresh", "failed", "old"}
      BY <2>1
  <2>5. muddled \/ what # "old"
    <3>1. c.fresh => what = "fresh"
        BY <2>1, Zenon
    <3> QED
        BY <2>3, <3>1, Zenon
  <2> QED
      BY <1>2, <1>4, <2>2, <2>4, <2>5
<1>6. CASE LoadFails(c)
    BY <1>2, <1>4, <1>6 DEF LoadFails
<1> QED
    BY <1>3, <1>5, <1>6

LEMMA FriendsStart == FriendsInit => FriendsInv
<1> SUFFICES ASSUME FriendsInit
             PROVE  FriendsInv
    OBVIOUS
<1>1. FriendsTyped
    BY DEF FriendsInit, FriendsTyped
<1>2. OneSide /\ EachWay /\ OverIsQuiet /\ ShowsFresh /\ RequestsAreNotified /\ OwnDeedsShow
    BY DEF FriendsInit, OneSide, EachWay, OverIsQuiet, ShowsFresh, RequestsAreNotified, OwnDeedsShow
<1> QED
    BY <1>1, <1>2 DEF FriendsInv

LEMMA FriendsStep == FriendsInv /\ [FriendsNext]_people => FriendsInv'
<1> SUFFICES ASSUME FriendsInv, [FriendsNext]_people
             PROVE  FriendsInv'
    OBVIOUS
<1>1. CASE UNCHANGED people
    BY <1>1 DEF people, FriendsInv, FriendsTyped, OneSide, EachWay, OverIsQuiet, ShowsFresh,
                RequestsAreNotified, OwnDeedsShow
<1>2. ASSUME NEW u \in Pair, NEW kind \in {"accept", "decline"}, Find(u, kind)
      PROVE  FriendsInv'
    BY <1>2, FindStep
<1>3. ASSUME NEW u \in Pair, FindAny(u)
      PROVE  FriendsInv'
  <2>1. PICK kind \in {"accept", "decline", "remove"} : kind = "remove"
      OBVIOUS
  <2> QED
      BY <1>3, <2>1, FindStep
<1>4. ASSUME NEW c \in calls, Create(c) \/ Notify(c) \/ Accept(c) \/ Destroy(c)
      PROVE  FriendsInv'
    BY <1>4, CreateStep, NotifyStep, AcceptStep, DestroyStep
<1>5. ASSUME NEW c \in calls, ReadLists(c) \/ ShowLists(c) \/ LoadFails(c)
      PROVE  FriendsInv'
    BY <1>5, LoadsStep
<1> QED
    BY <1>1, <1>2, <1>3, <1>4, <1>5, AskStep DEF FriendsNext

LEMMA FriendsInvRight == FriendsInv => FriendsRight
<1> SUFFICES ASSUME FriendsInv
             PROVE  FriendsRight
    OBVIOUS
<1>1. ASSUME \A r, q \in rows : r = q
      PROVE  Cardinality(rows) <= 1
  <2>1. CASE rows = {}
      BY <2>1, FS_EmptySet
  <2>2. CASE rows # {}
    <3>1. PICK r : r \in rows
        BY <2>2
    <3>2. rows = {r}
        BY <1>1, <3>1
    <3>3. Cardinality(rows) = 1
        BY <3>2, FS_Singleton
    <3> QED
        BY <3>3
  <2> QED
      BY <2>1, <2>2
<1>2. RowsOfThePair
    BY <1>1 DEF FriendsInv, OneSide, EachWay, RowsOfThePair, OneRowBacksThePair
<1> QED
    BY <1>2 DEF FriendsInv, FriendsRight

\* However the calls of two users interleave, a direction has one row, and the
\* pair has a second one only of requests that crossed (which do leave two, as
\* OneRowBacksThePair shows); but for that a removal ends the friendship.  A
\* request that lasts is notified and a page shows what its user did, whatever
\* loads and failures interleave (friends.service.ts, friends-list.tsx).
THEOREM FriendsRightCorrect == FriendsSpec => []FriendsRight
BY FriendsStart, FriendsStep, FriendsInvRight, PTL DEF FriendsSpec

-----------------------------------------------------------------------------
\* A behaviour of the services is one of each of them: the services share no
\* state, so a step of one is none of the others.
LEMMA EachService ==
    ServicesSpec => Spec /\ LimiterSpec /\ AccountsSpec /\ FriendsSpec
<1>1. ServicesInit => Init /\ LimiterInit /\ AccountsInit /\ FriendsInit
    BY DEF ServicesInit
<1>2. [ServicesNext]_services => [Next]_vars
    BY Zenon DEF ServicesNext, LockStep, services
<1>3. [ServicesNext]_services => [LimiterNext]_limiter
    BY Zenon DEF ServicesNext, LockStep, services
<1>4. [ServicesNext]_services => [AccountsNext]_auth
    BY Zenon DEF ServicesNext, LockStep, services
<1>5. [ServicesNext]_services => [FriendsNext]_people
    BY Zenon DEF ServicesNext, LockStep, services
<1> QED
    BY <1>1, <1>2, <1>3, <1>4, <1>5, PTL
       DEF ServicesSpec, Spec, LimiterSpec, AccountsSpec, FriendsSpec

\* Whichever service is followed: the lock loses no update but by a failure, no
\* window lets too many calls through, no account is lost or doubled, and two
\* users have a second row only of requests that crossed.
THEOREM ServicesCorrect ==
    ServicesSpec => [](LockIsSafe /\ LimitHolds /\ AccountsRight /\ FriendsRight)
BY EachService, LockIsSafeCorrect, LimitHoldsCorrect, AccountsRightCorrect, FriendsRightCorrect, PTL
=============================================================================
