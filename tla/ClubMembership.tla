---------------------------- MODULE ClubMembership ----------------------------
(***************************************************************************)
(* Clubs and who belongs to them (ClubService).  A route of the members    *)
(* looks first whether its caller is an administrator and writes in a      *)
(* later statement; the club, its first member and his wallet are born in  *)
(* one transaction, as are a member who joins and his.                     *)
(***************************************************************************)
EXTENDS Integers, FiniteSets

CONSTANTS None,
          Reqs,
          People,           \* users that ever have an account
          Clubs,            \* clubs that ever exist
          Codes,            \* values of the random join code
          MaxCodeAttempts   \* MAX_JOIN_CODE_ATTEMPTS

VARIABLES accounts,         \* rows of users
          code,             \* the join code of each club that exists
          members,          \* the row of each club and user
          wallets,          \* the pairs of club and user that have one
          deed,             \* each request
          linked,           \* pairs an administrator linked by user id (of the model)
          contested         \* clubs where two administrators' requests ran at once (of the model)

vars == <<accounts, code, members, wallets, deed, linked, contested>>
rows == <<accounts, code, members, wallets, linked, contested>>

NoDeed == [pc |-> "idle", by |-> None, club |-> None, user |-> None, row |-> None, attempt |-> 0]

Init ==
  /\ accounts \in {People, People \ {CHOOSE p \in People : TRUE}}
  /\ code = [c \in Clubs |-> None]
  /\ members = [c \in Clubs |-> [u \in People |-> None]]
  /\ wallets = {}
  /\ deed = [r \in Reqs |-> NoDeed]
  /\ linked = {}
  /\ contested = {}

-----------------------------------------------------------------------------

Member(role, status) == [role |-> role, status |-> status]
MemberRows == [role : {"ADMIN", "PLAYER"}, status : {"ACTIVE", "REVOKED"}]

IsAdmin(c, u) == members[c][u] = Member("ADMIN", "ACTIVE")

Go(r, q) == deed' = [deed EXCEPT ![r] = q]
Done(r) == Go(r, NoDeed)

\* createClube: a code that is taken is drawn again, five times in all.
CreateClube(r) ==
  /\ deed[r].pc = "idle"
  /\ \E u \in accounts : Go(r, [NoDeed EXCEPT !.pc = "create", !.by = u, !.attempt = 1])
  /\ UNCHANGED rows

InsertClube(r) ==
  LET u == deed[r].by
  IN  /\ deed[r].pc = "create"
      /\ \E c \in Clubs, k \in Codes :
           /\ code[c] = None
           /\ IF \A o \in Clubs : code[o] # k
              THEN /\ code' = [code EXCEPT ![c] = k]
                   /\ members' = [members EXCEPT ![c][u] = Member("ADMIN", "ACTIVE")]
                   /\ wallets' = wallets \cup {<<c, u>>}
                   /\ Done(r)
              ELSE /\ IF deed[r].attempt = MaxCodeAttempts THEN Done(r)
                      ELSE Go(r, [deed[r] EXCEPT !.attempt = @ + 1])
                   /\ UNCHANGED <<code, members, wallets>>
      /\ UNCHANGED <<accounts, linked, contested>>

\* joinByCode: the club is found by its code, then membership and wallet are upserted.
JoinByCode(r) ==
  /\ deed[r].pc = "idle"
  /\ \E u \in accounts, c \in Clubs :
       /\ code[c] # None
       /\ Go(r, [NoDeed EXCEPT !.pc = "join", !.by = u, !.club = c])
  /\ UNCHANGED rows

\* Mutant: the wallet is left for later.
NoWalletYet(c, u) == {}

WalletOf(c, u) == {<<c, u>>}

\* Who was revoked is active again, in the role he had.
Join(r) ==
  LET u == deed[r].by
      c == deed[r].club
  IN  /\ deed[r].pc = "join"
      /\ members' = [members EXCEPT ![c][u] =
           IF @ = None THEN Member("PLAYER", "ACTIVE") ELSE [@ EXCEPT !.status = "ACTIVE"]]
      /\ wallets' = wallets \cup WalletOf(c, u)
      /\ Done(r)
      /\ UNCHANGED <<accounts, code, linked, contested>>

\* Mutant: only the own revocation is refused.
KeepsStatus(by, user, row) == by = user => row.status = "ACTIVE"

\* The check against locking oneself out.
KeepsAccess(by, user, row) == by = user => row = Member("ADMIN", "ACTIVE")

\* upsertMember: requireAdmin, and the checks of the request.
UpsertMember(r) ==
  /\ deed[r].pc = "idle"
  /\ \E by \in accounts, c \in Clubs, u \in People, row \in MemberRows :
       /\ IsAdmin(c, by)
       /\ KeepsAccess(by, u, row)
       /\ Go(r, [pc |-> IF u \in accounts THEN "upsert" ELSE "createMember",
                 by |-> by, club |-> c, user |-> u, row |-> row, attempt |-> 0])
       /\ contested' = IF \E o \in Reqs : deed[o].pc = "upsert" /\ deed[o].club = c
                       THEN contested \cup {c} ELSE contested
  /\ UNCHANGED <<accounts, code, members, wallets, linked>>

\* One statement, whoever is an administrator by now, and no wallet.
Upsert(r) ==
  LET q == deed[r]
  IN  /\ q.pc = "upsert"
      /\ members' = [members EXCEPT ![q.club][q.user] = q.row]
      /\ linked' = linked \cup {<<q.club, q.user>>}
      /\ Done(r)
      /\ UNCHANGED <<accounts, code, wallets, contested>>

\* createMemberWithNewUser: account, membership and wallet, or a conflict of the
\* e-mail when somebody has registered it meanwhile.
CreateMemberWithNewUser(r) ==
  LET q == deed[r]
  IN  /\ q.pc = "createMember"
      /\ IF q.user \in accounts
         THEN UNCHANGED <<accounts, members, wallets>>
         ELSE /\ accounts' = accounts \cup {q.user}
              /\ members' = [members EXCEPT ![q.club][q.user] = q.row]
              /\ wallets' = wallets \cup WalletOf(q.club, q.user)
      /\ Done(r)
      /\ UNCHANGED <<code, linked, contested>>

\* AuthService.register.
Register ==
  /\ \E u \in People \ accounts : accounts' = accounts \cup {u}
  /\ UNCHANGED <<code, members, wallets, deed, linked, contested>>

Fail(r) ==
  /\ deed[r].pc # "idle"
  /\ Done(r)
  /\ UNCHANGED rows

Next ==
  \/ Register
  \/ \E r \in Reqs :
       \/ CreateClube(r) \/ InsertClube(r) \/ JoinByCode(r) \/ Join(r)
       \/ UpsertMember(r) \/ Upsert(r) \/ CreateMemberWithNewUser(r) \/ Fail(r)

Spec == Init /\ [][Next]_vars

-----------------------------------------------------------------------------

\* A club never loses its last active administrator, as nobody else could bring one
\* back (comment in upsertMember): provided that no two administrators' requests about
\* its members ran at the same time, each allowed before the other was carried out.
AdminRemains ==
  \A c \in Clubs \ contested : code[c] # None => \E u \in People : IsAdmin(c, u)

\* Whoever entered a club by founding it, by its code or by being registered there has
\* a wallet in it, and nobody has one in a club he never entered; only somebody linked
\* by his user id may be without (register's note and createMemberWithNewUser's).
WalletsFollowMembers ==
  \A c \in Clubs, u \in People :
    /\ <<c, u>> \in wallets => members[c][u] # None
    /\ members[c][u] # None => <<c, u>> \in wallets \cup linked
=============================================================================
