------------------------------ MODULE Accounts ------------------------------
(***************************************************************************)
(* The users table and the calls of auth.service.ts that write to it.  A   *)
(* call reads the rows it needs and then writes, other calls run between   *)
(* any two of these steps, and the table has one unique index, on email.   *)
(* Signing in with a password only reads; tokens name the row they were    *)
(* minted for, so what matters of them is which row a sign-in finds.       *)
(***************************************************************************)
EXTENDS Naturals, Sequences, FiniteSets

CONSTANTS
    Emails,      \* normalised addresses
    Passwords,
    Identities,  \* accounts of the OAuth provider
    Mail,        \* Mail[o]: the address the provider names for o, or Null
    Null,
    MaxAccounts, \* bound: rows ever created
    MaxSignIns   \* bound: calls in progress

ASSUME MailAssumption == Mail \in [Identities -> Emails \cup {Null}]
ASSUME NullAssumption == Null \notin Emails \cup Passwords \cup Identities

VARIABLES
    accounts,  \* the rows of users, in the order of their creation
    signIns,   \* the calls in progress
    keys,      \* the <<row, email, password>> that a caller was told are set
    doubled,   \* history: the rows that two overlapping calls upgraded
    twice      \* history: identities without an address whose first sign-ins overlapped

auth == <<accounts, signIns, keys, doubled, twice>>

Account(email, password, oauth, guest) ==
    [email |-> email, password |-> password, oauth |-> oauth, isGuest |-> guest]
SignIn(kind, at, row, email, password, oauth) ==
    [kind |-> kind, at |-> at, row |-> row, email |-> email, password |-> password,
     oauth |-> oauth]

Rows == DOMAIN accounts
ByEmail(e) == {r \in Rows : accounts[r].email = e}
ByOAuthId(o) == {r \in Rows : accounts[r].oauth = o}

AccountsInit ==
    /\ accounts = <<>> /\ signIns = {} /\ keys = {}
    /\ doubled = {} /\ twice = {}

-----------------------------------------------------------------------------
Starts(c) ==
    /\ c \notin signIns
    /\ Cardinality(signIns) < MaxSignIns
    /\ signIns' = signIns \cup {c}
Continues(c, at, row) ==
    signIns' = (signIns \ {c}) \cup {[c EXCEPT !.at = at, !.row = row]}
Ends(c) == signIns' = signIns \ {c}
Creates(a) == Len(accounts) < MaxAccounts /\ accounts' = Append(accounts, a)

CreateGuest ==
    /\ Creates(Account(Null, Null, Null, TRUE))
    /\ UNCHANGED <<signIns, keys, doubled, twice>>

Register(e, p) ==
    /\ ByEmail(e) = {}
    /\ Starts(SignIn("register", "create", 0, e, p, Null))
    /\ UNCHANGED <<accounts, keys, doubled, twice>>

\* Deviation: anybody may be given another address and password.
UpgradeAnyone(r, e, p) ==
    /\ Starts(SignIn("upgrade", "look", r, e, p, Null))
    /\ doubled' = IF \E c \in signIns : c.kind = "upgrade" /\ c.row = r
                  THEN doubled \cup {r} ELSE doubled
    /\ UNCHANGED <<accounts, keys, twice>>

\* upgradeGuest: the row is read and must be a guest's,
Upgrade(r, e, p) ==
    /\ accounts[r].isGuest
    /\ Starts(SignIn("upgrade", "look", r, e, p, Null))
    /\ doubled' = IF \E c \in signIns : c.kind = "upgrade" /\ c.row = r
                  THEN doubled \cup {r} ELSE doubled
    /\ UNCHANGED <<accounts, keys, twice>>

\* findOrCreateOAuthUser: an identity that no row has yet
OAuth(o) ==
    /\ ByOAuthId(o) = {}
    /\ Starts(SignIn("oauth", IF Mail[o] = Null THEN "create" ELSE "look", 0, Mail[o], Null, o))
    /\ twice' = IF Mail[o] = Null /\ \E c \in signIns : c.oauth = o
                THEN twice \cup {o} ELSE twice
    /\ UNCHANGED <<accounts, keys, doubled>>

\* ... and then the address is looked up: an upgrade needs it free, an OAuth
\* sign-in is linked to the row that has it.
LookUpEmail(c) ==
    /\ c.at = "look"
    /\ \/ c.kind = "upgrade" /\ ByEmail(c.email) = {} /\ Continues(c, "save", c.row)
       \/ c.kind = "upgrade" /\ ByEmail(c.email) # {} /\ Ends(c)
       \/ c.kind = "oauth" /\ ByEmail(c.email) = {} /\ Continues(c, "create", 0)
       \/ c.kind = "oauth" /\ \E r \in ByEmail(c.email) : Continues(c, "link", r)
    /\ UNCHANGED <<accounts, keys, doubled, twice>>

Acknowledge(r, c) == keys' = IF c.password = Null THEN keys
                             ELSE keys \cup {<<r, c.email, c.password>>}

\* createUniqueUser, or its 409
CreateUniqueUser(c) ==
    /\ c.at = "create"
    /\ Ends(c)
    /\ IF c.email # Null /\ ByEmail(c.email) # {}
       THEN UNCHANGED <<accounts, keys>>
       ELSE Creates(Account(c.email, c.password, c.oauth, FALSE))
            /\ Acknowledge(Len(accounts) + 1, c)
    /\ UNCHANGED <<doubled, twice>>

\* saveUnique writes the fields that were assigned, or ends with a 409.
SaveUnique(c) ==
    /\ c.at \in {"save", "link"}
    /\ Ends(c)
    /\ IF c.at = "link"
       THEN accounts' = [accounts EXCEPT ![c.row].oauth = c.oauth] /\ UNCHANGED keys
       ELSE IF ByEmail(c.email) \subseteq {c.row}
            THEN /\ accounts' = [accounts EXCEPT ![c.row] =
                                    Account(c.email, c.password, @.oauth, FALSE)]
                 /\ Acknowledge(c.row, c)
            ELSE UNCHANGED <<accounts, keys>>
    /\ UNCHANGED <<doubled, twice>>

AccountsNext ==
    \/ CreateGuest
    \/ \E e \in Emails, p \in Passwords : Register(e, p)
    \/ \E r \in Rows, e \in Emails, p \in Passwords : Upgrade(r, e, p)
    \/ \E o \in Identities : OAuth(o)
    \/ \E c \in signIns : LookUpEmail(c) \/ CreateUniqueUser(c) \/ SaveUnique(c)

AccountsSpec == AccountsInit /\ [][AccountsNext]_auth

-----------------------------------------------------------------------------
\* login: the row with that address, if it has that password
Login(e, p) == {r \in ByEmail(e) : accounts[r].password # Null /\ accounts[r].password = p}

\* An address and a password that a registration or an upgrade was told are
\* set sign in to that account from then on, whatever calls overlap, except
\* after two upgrades of the same guest at once (auth.service.ts, register,
\* upgradeGuest and the unique index of users.email).
KeysWork == \A k \in keys : k[1] \in doubled \/ Login(k[2], k[3]) = {k[1]}

\* An identity of the OAuth provider has one account, however many of its
\* sign-ins overlap and whoever registers its address meanwhile, except after
\* first sign-ins at once of an identity without an address (auth.service.ts,
\* findOrCreateOAuthUser: no index covers the identity).
OneAccountPerIdentity ==
    \A o \in Identities : o \in twice \/ doubled # {} \/ Cardinality(ByOAuthId(o)) <= 1

\* Accounts are neither lost nor doubled.
AccountsRight == KeysWork /\ OneAccountPerIdentity
=============================================================================
