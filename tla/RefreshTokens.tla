---------------------------- MODULE RefreshTokens ----------------------------
(***************************************************************************)
(* Refresh tokens (AuthService, behind AuthController): a login opens a    *)
(* family, a refresh rotates the token presented, and whoever presents a   *)
(* revoked token is forgiven only shortly after a rotation.  A refresh is  *)
(* a chain of statements outside any transaction but the last.             *)
(***************************************************************************)
EXTENDS Integers, Sequences, FiniteSets

CONSTANTS None,
          Calls,            \* requests to the auth routes
          Users,
          Lifetime,         \* jwt.refreshExpiresIn
          Grace,            \* REFRESH_REUSE_GRACE_MS
          MaxTokens,        \* bound: rows of refresh_tokens
          MaxTime           \* bound: the clock of the process

VARIABLES tokens,           \* the rows, in the order they were created
          call,             \* each request, and the answer it waits to have read
          now

serverVars == <<tokens, call, now>>

\* A row.  Two columns are only of the model: the token it was issued for (from, 0
\* for a login), and what revoked it first (ended); of a row that is revoked already,
\* logout and revokeFamily take no notice.
Row(user, family, from) ==
  [user |-> user, family |-> family, expires |-> now + Lifetime, revokedAt |-> None,
   replacedBy |-> 0, from |-> from, ended |-> None]

Quiet == [pc |-> "idle", op |-> None, user |-> None, token |-> 0, status |-> 0, issued |-> 0]

InitServer ==
  /\ tokens = <<>>
  /\ call = [c \in Calls |-> Quiet]
  /\ now = 0

-----------------------------------------------------------------------------

Answer(c, status, issued) ==
  call' = [call EXCEPT ![c] = [Quiet EXCEPT !.pc = "answered", !.op = call[c].op,
                                            !.status = status, !.issued = issued]]

\* login: the password is right.  A wrong one is answered 401 and changes nothing.
Login(c, u) ==
  /\ call[c].pc = "idle"
  /\ call' = [call EXCEPT ![c] = [Quiet EXCEPT !.pc = "issue", !.op = "login", !.user = u]]
  /\ UNCHANGED <<tokens, now>>

\* refresh: the signature is right, or there was no cookie (0).  verifyRefreshToken
\* looks at the expiry, which no statement after it does.
Verified(t) == t # 0 /\ now < tokens[t].expires

Refresh(c, t) ==
  /\ call[c].pc = "idle"
  /\ call' = [call EXCEPT ![c] =
       IF Verified(t)
       THEN [Quiet EXCEPT !.pc = "revoke", !.op = "refresh", !.token = t, !.user = tokens[t].user]
       ELSE [Quiet EXCEPT !.pc = "answered", !.op = "refresh", !.status = 401]]
  /\ UNCHANGED <<tokens, now>>

Revoked(row, why) ==
  [row EXCEPT !.revokedAt = now, !.ended = IF @ = None THEN why ELSE @]

\* Mutant: the check of revokedAt is not in the UPDATE.
AnyToken(t) == TRUE

\* The compare-and-set of refresh, and what logout and revokeFamily revoke.
Revocable(t) == tokens[t].revokedAt = None

\* updateMany ... WHERE revokedAt IS NULL.
RevokePresented(c) ==
  LET t == call[c].token
  IN  /\ call[c].pc = "revoke"
      /\ IF Revocable(t)
         THEN /\ tokens' = [tokens EXCEPT ![t] = Revoked(@, "rotation")]
              /\ call' = [call EXCEPT ![c].pc = "won"]
         ELSE /\ UNCHANGED tokens
              /\ call' = [call EXCEPT ![c].pc = "lost"]
      /\ UNCHANGED now

\* Mutant: forgives whatever was revoked shortly before.
RevokedLately(row) == row.revokedAt # None /\ now - row.revokedAt <= Grace

\* perdeuCorridaLegitima: only a rotation sets replacedByTokenId.
Forgivable(row) ==
  /\ row.replacedBy # 0 /\ row.revokedAt # None
  /\ now - row.revokedAt <= Grace

ReadToken(c) ==
  /\ call[c].pc \in {"won", "lost"}
  /\ call' = [call EXCEPT ![c].pc =
       IF @ = "won" THEN "rotate"
       ELSE IF Forgivable(tokens[call[c].token]) THEN "issue" ELSE "disown"]
  /\ UNCHANGED <<tokens, now>>

\* issueSession: one transaction, which a rotation has point to the successor.
Issue(c) ==
  LET q == call[c]
      new == Len(tokens) + 1
      family == IF q.op = "login" THEN new ELSE tokens[q.token].family
      earlier == IF q.pc = "rotate"
                 THEN [tokens EXCEPT ![q.token] = [Revoked(@, "rotation") EXCEPT !.replacedBy = new]]
                 ELSE tokens
  IN  /\ q.pc \in {"issue", "rotate"}
      /\ new <= MaxTokens
      /\ tokens' = Append(earlier, Row(q.user, family, q.token))
      /\ Answer(c, 200, new)
      /\ UNCHANGED now

RevokeAll(i, why) == IF Revocable(i) THEN Revoked(tokens[i], why) ELSE tokens[i]

RevokeFamily(c) ==
  LET family == tokens[call[c].token].family
  IN  /\ call[c].pc = "disown"
      /\ tokens' = [i \in DOMAIN tokens |->
           IF tokens[i].family = family THEN RevokeAll(i, "reuse") ELSE tokens[i]]
      /\ Answer(c, 401, 0)
      /\ UNCHANGED now

\* One statement, and no error for a token that is missing or revoked.
Logout(c, t) ==
  /\ call[c].pc = "idle"
  /\ tokens' = [i \in DOMAIN tokens |-> IF i = t THEN RevokeAll(i, "logout") ELSE tokens[i]]
  /\ call' = [call EXCEPT ![c] = [Quiet EXCEPT !.pc = "answered", !.op = "logout", !.status = 204]]
  /\ UNCHANGED now

Running(c) == call[c].pc \notin {"idle", "answered"}

\* mustGetActiveUser: a 401 when the user was deactivated, which no route does.
FindsInactive(c) == call[c].op = "refresh" /\ call[c].pc \in {"issue", "rotate"}

\* A statement fails, the user is no longer active, or the process dies: what was
\* committed stays.
Fail(c) ==
  /\ Running(c)
  /\ Answer(c, 500, 0) \/ (FindsInactive(c) /\ Answer(c, 401, 0))
  /\ UNCHANGED <<tokens, now>>

Work(c) == RevokePresented(c) \/ ReadToken(c) \/ Issue(c) \/ RevokeFamily(c)

Tick ==
  /\ now < MaxTime
  /\ now' = now + 1
  /\ UNCHANGED <<tokens, call>>

Read(c) ==
  /\ call[c].pc = "answered"
  /\ call' = [call EXCEPT ![c] = Quiet]
  /\ UNCHANGED <<tokens, now>>

-----------------------------------------------------------------------------

Unread == {c \in Calls : call[c].pc = "answered"}

Serve ==
  \/ Tick
  \/ \E c \in Calls :
       \/ \E u \in Users : Login(c, u)
       \/ \E t \in DOMAIN tokens : Refresh(c, t) \/ Logout(c, t)
       \/ Work(c) \/ Fail(c)

\* Clients that keep every token they were ever given and may present any; an
\* answer is read at once.
Next == IF Unread = {} THEN Serve ELSE \E c \in Unread : Read(c)

Spec == InitServer /\ [][Next]_serverVars

-----------------------------------------------------------------------------

\* A token is rotated once, however many requests present it at the same time: the
\* chain of replacedByTokenId never forks and never leaves its family, and only a
\* token that has a successor was ever continued outside a rotation.
RotationChain ==
  \A i \in DOMAIN tokens :
    LET heirs == {j \in DOMAIN tokens : tokens[j].from = i}
    IN  /\ heirs # {} =>
             /\ tokens[i].replacedBy \in heirs
             /\ tokens[i].replacedBy = CHOOSE j \in heirs : \A o \in heirs : j <= o
        /\ \A j \in heirs : tokens[j].family = tokens[i].family /\ tokens[j].user = tokens[i].user
        /\ tokens[i].replacedBy # 0 => tokens[i].revokedAt # None

\* Nothing comes of a token that a logout or a disconnection of its family revoked before
\* it was rotated: it is not continued by a request that was running at the time, nor by
\* one that is forgiven (refresh's comment on perdeuCorridaLegitima).  Of a token that was
\* rotated first it says nothing: neither logout nor revokeFamily touches that row, so the
\* winner of its rotation still issues a successor, and so does who is forgiven, also
\* after "todos os dispositivos foram desconectados".
RevokedTokensStayRevoked ==
  \A i \in DOMAIN tokens : tokens[i].from # 0 => tokens[tokens[i].from].ended = "rotation"
=============================================================================
