-------------------------- MODULE HouseServerProofs --------------------------
(***************************************************************************)
(* Six parts of the house, for any number of requests, users, people,      *)
(* clubs, presets, tournaments, calls, rows, sources and entries, and      *)
(* tables and pages of any size.                                           *)
(*                                                                         *)
(* Tokens: rotation never forks, and nothing comes of a token that was     *)
(* revoked before it was rotated.  The invariant says of each row where it *)
(* comes from and who continues it (TokensRowSound), and of each request   *)
(* under way what the row it was presented with looks like by now          *)
(* (TokensCallShape): what decides is that one request at most has won a   *)
(* token and not yet pointed it to its successor (TokensOneWinner).        *)
(*                                                                         *)
(* Clubs: a club keeps an administrator, and wallets follow members.       *)
(* Neither is inductive alone: what an administrator was allowed to do is  *)
(* carried out later, so the invariant says of each request under way what *)
(* is still true of its caller and of whom it is about (ClubsTaskShape,    *)
(* ClubsAlone).                                                            *)
(*                                                                         *)
(* Structures: every grid was sent as a whole.  What a request deletes,    *)
(* writes or copies was whole when it was read or sent (StructuresAsked),  *)
(* and a preset that is being replaced takes no rows of a second request,  *)
(* because two accepted grids have the first level's number in common      *)
(* (StructuresNeverMix).                                                   *)
(*                                                                         *)
(* Gateway: what a call says is true of it, and it was carried out twice   *)
(* only after an unclear answer.  The operations of a call and its         *)
(* requests that were spared, or are still under way, are no more than its *)
(* attempts (GatewayCount), and an amount comes back from the gateway as   *)
(* it was sent, digit by digit (GatewayAmounts).                           *)
(*                                                                         *)
(* The list of entries: a row that was there when the list was opened is   *)
(* on one of its pages or beyond the cursor (HistoryIInv), and what a      *)
(* source was asked for has it or fills a page with rows that come before  *)
(* it (HistoryFetched).                                                    *)
(*                                                                         *)
(* Seating: what the lemmas of SeatingProofs say of one plan holds of the  *)
(* room after any number of them (SeatingIInv).  That the tables are       *)
(* balanced is part of it: a plan moves nobody twice because it starts     *)
(* from tables that were balanced before somebody left.                    *)
(***************************************************************************)
EXTENDS House, FiniteSetTheorems, SequenceTheorems, SumLemmas, TLAPS


TokensRows ==
  [user : Users \cup {None}, family : Nat, expires : Int, revokedAt : Int \cup {None},
   replacedBy : Nat, from : Nat, ended : {None, "rotation", "reuse", "logout"}]

TokensRequests ==
  [pc : {"idle", "answered", "issue", "revoke", "won", "lost", "rotate", "disown"},
   op : {None, "login", "refresh", "logout"}, user : Users \cup {None}, token : Nat,
   status : Int, issued : Nat]

TokensTyping == tokens \in Seq(TokensRows) /\ call \in [Calls -> TokensRequests] /\ now \in Int

\* A row that was not revoked is not ended; a row with a successor was rotated, and its
\* successor came of it, before any other row did; rows stay in their family.
TokensRowSound(i) ==
  LET row == tokens[i]
      next == row.replacedBy
      last == row.from
  IN  /\ row.revokedAt = None => row.ended = None
      /\ next # 0 =>
           /\ next \in DOMAIN tokens /\ tokens[next].from = i
           /\ row.revokedAt # None /\ row.ended = "rotation"
      /\ last # 0 =>
           /\ last \in DOMAIN tokens
           /\ tokens[last].replacedBy # 0 /\ tokens[last].replacedBy <= i
           /\ tokens[last].family = row.family /\ tokens[last].user = row.user

TokensRowsSound == \A i \in DOMAIN tokens : TokensRowSound(i)

\* What the request was presented with, by what it is about to do.
TokensCallShape(q) ==
  /\ q.pc \in {"revoke", "won", "lost", "rotate", "disown"} => q.op = "refresh"
  /\ q.pc = "issue" => q.op \in {"login", "refresh"}
  /\ q.pc = "issue" /\ q.op = "login" => q.token = 0
  /\ q.pc \in {"revoke", "issue", "won", "lost", "rotate", "disown"} /\ q.op = "refresh" =>
       q.token \in DOMAIN tokens /\ q.user = tokens[q.token].user
  /\ q.pc = "issue" /\ q.op = "refresh" => tokens[q.token].replacedBy # 0
  /\ q.pc \in {"won", "rotate"} =>
       /\ tokens[q.token].revokedAt # None
       /\ tokens[q.token].ended = "rotation"
       /\ tokens[q.token].replacedBy = 0

TokensCallShapes == \A c \in Calls : TokensCallShape(call[c])

TokensWinner(c) == call[c].pc \in {"won", "rotate"}

TokensOneWinner ==
  \A c, d \in Calls : TokensWinner(c) /\ TokensWinner(d) /\ call[c].token = call[d].token => c = d

TokensIInv == TokensTyping /\ TokensRowsSound /\ TokensCallShapes /\ TokensOneWinner

-----------------------------------------------------------------------------

\* The two properties follow from the rows.
LEMMA TokensChainFollows == TokensIInv => Tokens!RotationChain
<1> SUFFICES ASSUME TokensIInv, NEW i \in DOMAIN tokens
             PROVE  LET heirs == {j \in DOMAIN tokens : tokens[j].from = i}
                    IN  /\ heirs # {} =>
                             /\ tokens[i].replacedBy \in heirs
                             /\ tokens[i].replacedBy = CHOOSE j \in heirs : \A o \in heirs : j <= o
                        /\ \A j \in heirs : /\ tokens[j].family = tokens[i].family
                                            /\ tokens[j].user = tokens[i].user
                        /\ tokens[i].replacedBy # 0 => tokens[i].revokedAt # None
  BY DEF Tokens!RotationChain
<1> DEFINE heirs == {j \in DOMAIN tokens : tokens[j].from = i}
           next == tokens[i].replacedBy
<1>1. i \in 1 .. Len(tokens) /\ DOMAIN tokens = 1 .. Len(tokens) /\ Len(tokens) \in Nat
  BY DEF TokensIInv, TokensTyping
<1>2. TokensRowSound(i) /\ \A j \in DOMAIN tokens : TokensRowSound(j)
  BY DEF TokensIInv, TokensRowsSound
<1>3. \A j \in heirs : /\ next # 0 /\ next <= j
                       /\ tokens[j].family = tokens[i].family /\ tokens[j].user = tokens[i].user
  BY <1>1, <1>2 DEF TokensRowSound
<1>4. next # 0 => next \in heirs /\ tokens[i].revokedAt # None
  BY <1>2 DEF TokensRowSound
<1>5. heirs # {} => next = CHOOSE j \in heirs : \A o \in heirs : j <= o
  <2> SUFFICES ASSUME heirs # {} PROVE next = CHOOSE j \in heirs : \A o \in heirs : j <= o
    OBVIOUS
  <2>1. next \in heirs /\ \A o \in heirs : next <= o
    BY <1>3, <1>4
  <2>2. heirs \subseteq Int
    BY <1>1
  <2> HIDE DEF heirs, next
  <2>3. \A j \in heirs : (\A o \in heirs : j <= o) => j = next
    <3> SUFFICES ASSUME NEW j \in heirs, \A o \in heirs : j <= o PROVE j = next
      OBVIOUS
    <3>1. j <= next /\ next <= j /\ j \in Int /\ next \in Int
      BY <2>1, <2>2
    <3> QED
      BY <3>1
  <2> QED
    BY <2>1, <2>3
<1> QED
  BY <1>3, <1>4, <1>5

\* A row that anything came of was rotated.
LEMMA TokensEndsFollow == TokensIInv => Tokens!RevokedTokensStayRevoked
BY DEF TokensIInv, TokensRowsSound, TokensRowSound, Tokens!RevokedTokensStayRevoked

-----------------------------------------------------------------------------

\* A step of one request that at most revokes rows which were not, and leaves the rest
\* of each row alone.
LEMMA TokensRowsRevoked ==
  ASSUME TokensIInv, NEW c \in Calls, NEW q \in TokensRequests,
         tokens' \in Seq(TokensRows), DOMAIN tokens' = DOMAIN tokens, now' \in Int,
         \A i \in DOMAIN tokens :
           \/ tokens'[i] = tokens[i]
           \/ /\ tokens[i].revokedAt = None /\ tokens'[i].revokedAt # None
              /\ tokens'[i].user = tokens[i].user /\ tokens'[i].family = tokens[i].family
              /\ tokens'[i].from = tokens[i].from
              /\ tokens'[i].replacedBy = tokens[i].replacedBy,
         call' = [call EXCEPT ![c] = q],
         TokensCallShape(q)',
         q.pc \in {"won", "rotate"} =>
           \/ TokensWinner(c) /\ q.token = call[c].token
           \/ q.token \in DOMAIN tokens /\ tokens[q.token].revokedAt = None
  PROVE  TokensIInv'
<1>1. /\ \A d \in Calls : call'[d] = IF d = c THEN q ELSE call[d]
      /\ call' \in [Calls -> TokensRequests]
  BY DEF TokensIInv, TokensTyping
<1>2. TokensTyping'
  BY <1>1 DEF TokensTyping
<1>3. TokensRowsSound'
  <2> SUFFICES ASSUME NEW i \in DOMAIN tokens PROVE TokensRowSound(i)'
    BY DEF TokensRowsSound
  <2>1. TokensRowSound(i)
    BY DEF TokensIInv, TokensRowsSound
  <2>2. tokens[i].revokedAt = None => tokens[i].replacedBy = 0
    BY <2>1 DEF TokensRowSound
  <2>3. tokens'[i].revokedAt = None => tokens'[i] = tokens[i]
    OBVIOUS
  <2>4. tokens'[i].replacedBy # 0 => tokens'[i] = tokens[i]
    BY <2>2
  <2>5. tokens'[i].from = tokens[i].from /\ tokens'[i].family = tokens[i].family
        /\ tokens'[i].user = tokens[i].user
    OBVIOUS
  <2>6. tokens[i].replacedBy # 0 =>
          tokens[i].replacedBy \in DOMAIN tokens /\ tokens'[tokens[i].replacedBy].from = i
    BY <2>1 DEF TokensRowSound
  <2>7. tokens[i].from # 0 =>
          LET last == tokens[i].from
          IN  /\ last \in DOMAIN tokens
              /\ tokens'[last].replacedBy = tokens[last].replacedBy
              /\ tokens'[last].family = tokens[last].family
              /\ tokens'[last].user = tokens[last].user
    BY <2>1 DEF TokensRowSound
  <2> QED
    BY <2>1, <2>3, <2>4, <2>5, <2>6, <2>7 DEF TokensRowSound
<1>4. TokensCallShapes'
  <2> SUFFICES ASSUME NEW d \in Calls, d # c PROVE TokensCallShape(call[d])'
    BY <1>1 DEF TokensCallShapes
  <2>1. TokensCallShape(call[d]) /\ call'[d] = call[d]
    BY <1>1 DEF TokensIInv, TokensCallShapes
  <2> QED
    BY <2>1 DEF TokensCallShape
<1>5. TokensOneWinner'
  <2> SUFFICES ASSUME NEW d \in Calls, d # c, TokensWinner(d), TokensWinner(c)',
                      call[d].token = q.token
               PROVE  FALSE
    BY <1>1 DEF TokensIInv, TokensOneWinner, TokensWinner
  <2>1. q.pc \in {"won", "rotate"}
    BY <1>1 DEF TokensWinner
  <2>2. tokens[q.token].revokedAt # None
    BY DEF TokensIInv, TokensCallShapes, TokensCallShape, TokensWinner
  <2> QED
    BY <2>1, <2>2 DEF TokensIInv, TokensOneWinner
<1> QED
  BY <1>2, <1>3, <1>4, <1>5 DEF TokensIInv

\* A step of one request that writes no row.
LEMMA TokensOnlyCall ==
  ASSUME TokensIInv, NEW c \in Calls, NEW q \in TokensRequests,
         UNCHANGED <<tokens, now>>, call' = [call EXCEPT ![c] = q],
         TokensCallShape(q),
         q.pc \in {"won", "rotate"} => TokensWinner(c) /\ q.token = call[c].token
  PROVE  TokensIInv'
<1>1. TokensCallShape(q)'
  BY DEF TokensCallShape
<1> QED
  BY <1>1, TokensRowsRevoked DEF TokensIInv, TokensTyping

\* A request that is not under way.
LEMMA TokensSettled ==
  ASSUME NEW q \in TokensRequests, q.pc \in {"idle", "answered"}
  PROVE  TokensCallShape(q) /\ q.pc \notin {"won", "rotate"}
BY DEF TokensCallShape

\* The blank request, and any answer.
LEMMA TokensQuietTyped ==
  /\ Tokens!Quiet \in TokensRequests /\ Tokens!Quiet.pc = "idle"
  /\ \A op \in {None, "login", "refresh", "logout"}, status \in Int, issued \in Nat :
       LET q == [Tokens!Quiet EXCEPT !.pc = "answered",
         !.op = op, !.status = status, !.issued = issued]
       IN  q \in TokensRequests /\ q.pc = "answered"
<1>1. Tokens!Quiet \in TokensRequests /\ Tokens!Quiet.pc = "idle"
  BY DEF Tokens!Quiet, TokensRequests
<1>2. \A q \in TokensRequests, op \in {None, "login", "refresh", "logout"} :
        /\ [q EXCEPT !.pc = "answered", !.op = op] \in TokensRequests
        /\ [q EXCEPT !.pc = "answered", !.op = op].pc = "answered"
  BY DEF TokensRequests
<1>3. \A q \in TokensRequests, status \in Int, issued \in Nat :
        /\ [q EXCEPT !.status = status, !.issued = issued] \in TokensRequests
        /\ [q EXCEPT !.status = status, !.issued = issued].pc = q.pc
  BY DEF TokensRequests
<1>4. ASSUME NEW op \in {None, "login", "refresh", "logout"}, NEW status \in Int, NEW issued \in Nat
      PROVE  LET q == [Tokens!Quiet EXCEPT !.pc = "answered", !.op = op, !.status = status,
                                    !.issued = issued]
             IN  q \in TokensRequests /\ q.pc = "answered"
  <2> DEFINE a == [Tokens!Quiet EXCEPT !.pc = "answered", !.op = op]
             q == [Tokens!Quiet EXCEPT !.pc = "answered",
               !.op = op, !.status = status, !.issued = issued]
  <2>1. a \in TokensRequests /\ a.pc = "answered"
    BY <1>1, <1>2
  <2>2. q = [a EXCEPT !.status = status, !.issued = issued]
    OBVIOUS
  <2>3. q \in TokensRequests /\ q.pc = "answered"
    <3> HIDE DEF a, q
    <3> QED
      BY <1>3, <2>1, <2>2
  <2> QED
    BY <2>3
<1> QED
  BY <1>1, <1>4

\* An answer without a token.
LEMMA TokensAnsweredTyped ==
  ASSUME NEW op \in {"refresh", "logout"}, NEW status \in Int
  PROVE  /\ [Tokens!Quiet EXCEPT !.pc = "answered", !.op = op, !.status = status] \in TokensRequests
         /\ [Tokens!Quiet EXCEPT !.pc = "answered", !.op = op, !.status = status].pc = "answered"
<1>1. [Tokens!Quiet EXCEPT !.pc = "answered", !.op = op] \in TokensRequests
  BY TokensQuietTyped DEF TokensRequests
<1>2. [Tokens!Quiet EXCEPT !.pc = "answered", !.op = op].pc = "answered"
  BY TokensQuietTyped DEF TokensRequests
<1>3. \A q \in TokensRequests : /\ [q EXCEPT !.status = status] \in TokensRequests
                          /\ [q EXCEPT !.status = status].pc = q.pc
  BY DEF TokensRequests
<1> DEFINE a == [Tokens!Quiet EXCEPT !.pc = "answered", !.op = op]
           q == [Tokens!Quiet EXCEPT !.pc = "answered", !.op = op, !.status = status]
<1>4. q = [a EXCEPT !.status = status]
  OBVIOUS
<1>5. a \in TokensRequests /\ a.pc = "answered"
  BY <1>1, <1>2
<1>6. q \in TokensRequests /\ q.pc = "answered"
  <2> HIDE DEF a, q
  <2> QED
    BY <1>3, <1>4, <1>5
<1> QED
  BY <1>6

\* The types of a request and of the rows.
LEMMA TokensTyped ==
  ASSUME TokensIInv, NEW c \in Calls
  PROVE  /\ call[c] \in TokensRequests /\ TokensCallShape(call[c])
         /\ tokens \in Seq(TokensRows) /\ now \in Int
BY DEF TokensIInv, TokensTyping, TokensCallShapes

-----------------------------------------------------------------------------

\* Logging in starts a request without a token.
LEMMA TokensLoginKept ==
  ASSUME TokensIInv, NEW c \in Calls, NEW u \in Users, Tokens!Login(c, u)
  PROVE  TokensIInv'
<1> DEFINE q == [Tokens!Quiet EXCEPT !.pc = "issue", !.op = "login", !.user = u]
<1>1. q \in TokensRequests
  BY TokensQuietTyped DEF TokensRequests
<1>2. q.pc = "issue" /\ q.op = "login" /\ q.token = 0
  BY TokensQuietTyped DEF Tokens!Quiet
<1>3. call' = [call EXCEPT ![c] = q] /\ UNCHANGED <<tokens, now>>
  BY DEF Tokens!Login
<1> HIDE DEF q
<1>4. TokensCallShape(q)
  BY <1>2 DEF TokensCallShape
<1> QED
  BY <1>1, <1>2, <1>3, <1>4, TokensOnlyCall

\* A refresh begins with the cookie its client holds.
LEMMA TokensRefreshKept ==
  ASSUME TokensIInv, NEW c \in Calls, NEW t \in DOMAIN tokens, Tokens!Refresh(c, t)
  PROVE  TokensIInv'
<1>1. tokens[t] \in TokensRows /\ t \in Nat
  BY TokensTyped
<1>2. CASE Tokens!Verified(t)
  <2> DEFINE q == [Tokens!Quiet EXCEPT !.pc = "revoke", !.op = "refresh", !.token = t,
                                !.user = tokens[t].user]
  <2>1. tokens[t].user \in Users \cup {None}
    BY <1>1 DEF TokensRows
  <2>2. q \in TokensRequests
    BY <1>1, <2>1, TokensQuietTyped DEF TokensRequests
  <2>3. q.pc = "revoke" /\ q.op = "refresh" /\ q.token = t /\ q.user = tokens[t].user
    BY TokensQuietTyped, ZenonT(60) DEF TokensRequests
  <2>4. call' = [call EXCEPT ![c] = q] /\ UNCHANGED <<tokens, now>>
    BY <1>2 DEF Tokens!Refresh
  <2> HIDE DEF q
  <2>5. TokensCallShape(q)
    BY <2>3 DEF TokensCallShape
  <2> QED
    BY <2>2, <2>3, <2>4, <2>5, TokensOnlyCall
<1>3. CASE ~Tokens!Verified(t)
  <2> DEFINE q == [Tokens!Quiet EXCEPT !.pc = "answered", !.op = "refresh", !.status = 401]
  <2>1. q \in TokensRequests /\ q.pc = "answered"
    <3>1. 401 \in Int
      OBVIOUS
    <3> QED
      BY <3>1, TokensAnsweredTyped, ZenonT(60)
  <2>2. call' = [call EXCEPT ![c] = q] /\ UNCHANGED <<tokens, now>>
    BY <1>3 DEF Tokens!Refresh
  <2> HIDE DEF q
  <2> QED
    BY <2>1, <2>2, TokensSettled, TokensOnlyCall
<1> QED
  BY <1>2, <1>3

\* Only one of those that present a token finds it not revoked.
LEMMA TokensRevokePresentedKept ==
  ASSUME TokensIInv, NEW c \in Calls, Tokens!RevokePresented(c)
  PROVE  TokensIInv'
<1> PICK t \in DOMAIN tokens : t = call[c].token
  BY TokensTyped DEF Tokens!RevokePresented, TokensCallShape
<1>1. /\ call[c] \in TokensRequests /\ call[c].pc = "revoke" /\ call[c].op = "refresh"
      /\ call[c].user = tokens[t].user
  BY TokensTyped DEF Tokens!RevokePresented, TokensCallShape
<1>2. tokens[t] \in TokensRows /\ tokens \in Seq(TokensRows) /\ now \in Int
  BY <1>1, TokensTyped
<1>3. CASE Tokens!Revocable(t)
  <2> DEFINE row == Tokens!Revoked(tokens[t], "rotation")
  <2>0. [call[c] EXCEPT !.pc = "won"] \in TokensRequests
    BY <1>1 DEF TokensRequests
  <2> PICK q \in TokensRequests : q = [call[c] EXCEPT !.pc = "won"]
    BY <2>0
  <2>1. q.pc = "won" /\ q.op = "refresh" /\ q.token = t /\ q.user = tokens[t].user
    BY <1>1 DEF TokensRequests
  <2>2. tokens' = [tokens EXCEPT ![t] = row] /\ call' = [call EXCEPT ![c] = q] /\ now' = now
    BY <1>1, <1>3 DEF Tokens!RevokePresented
  <2>3. tokens[t].revokedAt = None /\ tokens[t].ended = None /\ tokens[t].replacedBy = 0
    BY <1>1, <1>3 DEF TokensIInv, TokensRowsSound, TokensRowSound, Tokens!Revocable
  <2>4. /\ row \in TokensRows /\ row.revokedAt # None /\ row.ended = "rotation"
        /\ row.user = tokens[t].user /\ row.family = tokens[t].family
        /\ row.from = tokens[t].from /\ row.replacedBy = tokens[t].replacedBy
    BY <1>2, <2>3, TokenConstants DEF TokensRows, Tokens!Revoked
  <2> HIDE DEF row
  <2>5. /\ tokens' \in Seq(TokensRows) /\ DOMAIN tokens' = DOMAIN tokens
        /\ tokens'[t] = row
        /\ \A i \in DOMAIN tokens : i # t => tokens'[i] = tokens[i]
    BY <1>1, <1>2, <2>2, <2>4
  <2>6. TokensCallShape(q)'
    BY <1>1, <2>1, <2>3, <2>4, <2>5 DEF TokensCallShape
  <2> QED
    BY <1>1, <1>2, <2>1, <2>2, <2>3, <2>4, <2>5, <2>6, TokensRowsRevoked, ZenonT(60)
<1>4. CASE ~Tokens!Revocable(t)
  <2> DEFINE q == [call[c] EXCEPT !.pc = "lost"]
  <2>1. q \in TokensRequests /\ q.pc = "lost" /\ q.op = "refresh" /\ q.token = t
        /\ q.user = tokens[t].user
    BY <1>1 DEF TokensRequests
  <2>2. call' = [call EXCEPT ![c] = q] /\ UNCHANGED <<tokens, now>>
    BY <1>1, <1>4 DEF Tokens!RevokePresented
  <2> HIDE DEF q
  <2>3. TokensCallShape(q)
    BY <1>1, <2>1 DEF TokensCallShape
  <2> QED
    BY <2>1, <2>2, <2>3, TokensOnlyCall
<1> QED
  BY <1>3, <1>4

\* Whoever is forgiven has read a successor.
LEMMA TokensReadTokenKept ==
  ASSUME TokensIInv, NEW c \in Calls, Tokens!ReadToken(c)
  PROVE  TokensIInv'
<1> DEFINE pc == IF call[c].pc = "won" THEN "rotate"
                 ELSE IF Tokens!Forgivable(tokens[call[c].token]) THEN "issue" ELSE "disown"
           q == [call[c] EXCEPT !.pc = pc]
<1>1. call[c] \in TokensRequests /\ TokensCallShape(call[c]) /\ call[c].pc \in {"won", "lost"}
  BY TokensTyped DEF Tokens!ReadToken
<1>2. call' = [call EXCEPT ![c] = q] /\ UNCHANGED <<tokens, now>>
  BY DEF Tokens!ReadToken
<1>3. /\ pc \in {"rotate", "issue", "disown"}
      /\ pc = "rotate" => call[c].pc = "won"
      /\ pc = "issue" => tokens[call[c].token].replacedBy # 0
  BY <1>1 DEF Tokens!Forgivable
<1> HIDE DEF pc
<1>4. q \in TokensRequests /\ q.pc = pc /\ q.op = "refresh" /\ q.token = call[c].token
      /\ q.user = call[c].user
  BY <1>1, <1>3 DEF TokensRequests, TokensCallShape
<1> HIDE DEF q
<1>5. TokensCallShape(q)
  BY <1>1, <1>3, <1>4 DEF TokensCallShape
<1>6. q.pc \in {"won", "rotate"} => TokensWinner(c) /\ q.token = call[c].token
  BY <1>3, <1>4 DEF TokensWinner
<1> QED
  BY <1>2, <1>4, <1>5, <1>6, TokensOnlyCall

\* An answer ends the request.
LEMMA TokensAnswerSettles ==
  ASSUME TokensIInv, NEW c \in Calls, NEW status \in Int, NEW issued \in Nat,
           Tokens!Answer(c, status, issued)
  PROVE  \E q \in TokensRequests : q.pc = "answered" /\ call' = [call EXCEPT ![c] = q]
<1>1. call[c].op \in {None, "login", "refresh", "logout"}
  BY TokensTyped DEF TokensRequests
<1> QED
  BY <1>1, TokensQuietTyped DEF Tokens!Answer

\* A request that dies leaves the rows as they are.
LEMMA TokensFailKept ==
  ASSUME TokensIInv, NEW c \in Calls, Tokens!Fail(c)
  PROVE  TokensIInv'
<1>1. PICK q \in TokensRequests : q.pc = "answered" /\ call' = [call EXCEPT ![c] = q]
  BY TokensAnswerSettles DEF Tokens!Fail
<1> QED
  BY <1>1, TokensSettled, TokensOnlyCall DEF Tokens!Fail

\* The client reads its answer, and the request is blank again.
LEMMA TokensReadKept ==
  ASSUME TokensIInv, NEW c \in Calls, Tokens!Read(c)
  PROVE  TokensIInv'
BY TokensQuietTyped, TokensSettled, TokensOnlyCall DEF Tokens!Read

\* What revokeFamily and logout make of a row.
LEMMA TokensRevokeAllRow ==
  ASSUME TokensIInv, NEW i \in DOMAIN tokens, NEW why \in {"reuse", "logout"}
  PROVE  LET row == Tokens!RevokeAll(i, why)
         IN  /\ row \in TokensRows
             /\ \/ row = tokens[i]
                \/ /\ tokens[i].revokedAt = None /\ row.revokedAt # None
                   /\ row.user = tokens[i].user /\ row.family = tokens[i].family
                   /\ row.from = tokens[i].from /\ row.replacedBy = tokens[i].replacedBy
<1>1. tokens[i] \in TokensRows /\ now \in Int
  BY DEF TokensIInv, TokensTyping
<1>2. CASE Tokens!Revocable(i)
  <2> DEFINE row == Tokens!Revoked(tokens[i], why)
  <2>1. /\ row \in TokensRows /\ row.revokedAt # None
        /\ row.user = tokens[i].user /\ row.family = tokens[i].family
        /\ row.from = tokens[i].from /\ row.replacedBy = tokens[i].replacedBy
    BY <1>1, TokenConstants DEF TokensRows, Tokens!Revoked
  <2> QED
    BY <1>2, <2>1 DEF Tokens!RevokeAll, Tokens!Revocable
<1>3. CASE ~Tokens!Revocable(i)
  BY <1>1, <1>3 DEF Tokens!RevokeAll
<1> QED
  BY <1>2, <1>3

\* The family is revoked, but for what was revoked before.
LEMMA TokensRevokeFamilyKept ==
  ASSUME TokensIInv, NEW c \in Calls, Tokens!RevokeFamily(c)
  PROVE  TokensIInv'
<1> DEFINE family == tokens[call[c].token].family
           row(i) == IF tokens[i].family = family THEN Tokens!RevokeAll(i, "reuse") ELSE tokens[i]
<1>1. PICK q \in TokensRequests : q.pc = "answered" /\ call' = [call EXCEPT ![c] = q]
  BY TokensAnswerSettles DEF Tokens!RevokeFamily
<1>2. tokens' = [i \in DOMAIN tokens |-> row(i)] /\ now' = now
  BY DEF Tokens!RevokeFamily
<1>3. tokens \in Seq(TokensRows) /\ now \in Int /\ \A i \in DOMAIN tokens : tokens[i] \in TokensRows
  BY DEF TokensIInv, TokensTyping
<1>4. \A i \in DOMAIN tokens :
        /\ row(i) \in TokensRows
        /\ \/ row(i) = tokens[i]
           \/ /\ tokens[i].revokedAt = None /\ row(i).revokedAt # None
              /\ row(i).user = tokens[i].user /\ row(i).family = tokens[i].family
              /\ row(i).from = tokens[i].from /\ row(i).replacedBy = tokens[i].replacedBy
  BY <1>3, TokensRevokeAllRow
<1> HIDE DEF row, family
<1>5. /\ tokens' \in Seq(TokensRows) /\ DOMAIN tokens' = DOMAIN tokens
      /\ \A i \in DOMAIN tokens : tokens'[i] = row(i)
  BY <1>2, <1>3, <1>4
<1>6. TokensCallShape(q)' /\ q.pc \notin {"won", "rotate"}
  BY <1>1 DEF TokensCallShape
<1> QED
  BY <1>1, <1>2, <1>3, <1>4, <1>5, <1>6, TokensRowsRevoked

\* A logout revokes the token presented, and answers.
LEMMA TokensLogoutKept ==
  ASSUME TokensIInv, NEW c \in Calls, NEW t \in DOMAIN tokens, Tokens!Logout(c, t)
  PROVE  TokensIInv'
<1> DEFINE row(i) == IF i = t THEN Tokens!RevokeAll(i, "logout") ELSE tokens[i]
           q == [Tokens!Quiet EXCEPT !.pc = "answered", !.op = "logout", !.status = 204]
<1>1. q \in TokensRequests /\ q.pc = "answered"
  <2>1. 204 \in Int
    OBVIOUS
  <2> QED
    BY <2>1, TokensAnsweredTyped, Zenon
<1>2. tokens' = [i \in DOMAIN tokens |-> row(i)] /\ now' = now /\ call' = [call EXCEPT ![c] = q]
  BY DEF Tokens!Logout
<1>3. tokens \in Seq(TokensRows) /\ now \in Int /\ \A i \in DOMAIN tokens : tokens[i] \in TokensRows
  BY DEF TokensIInv, TokensTyping
<1>4. \A i \in DOMAIN tokens :
        /\ row(i) \in TokensRows
        /\ \/ row(i) = tokens[i]
           \/ /\ tokens[i].revokedAt = None /\ row(i).revokedAt # None
              /\ row(i).user = tokens[i].user /\ row(i).family = tokens[i].family
              /\ row(i).from = tokens[i].from /\ row(i).replacedBy = tokens[i].replacedBy
  BY <1>3, TokensRevokeAllRow
<1> HIDE DEF row, q
<1>5. /\ tokens' \in Seq(TokensRows) /\ DOMAIN tokens' = DOMAIN tokens
      /\ \A i \in DOMAIN tokens : tokens'[i] = row(i)
  BY <1>2, <1>3, <1>4
<1>6. TokensCallShape(q)' /\ q.pc \notin {"won", "rotate"}
  BY <1>1 DEF TokensCallShape
<1> QED
  BY <1>1, <1>2, <1>3, <1>4, <1>5, <1>6, TokensRowsRevoked

-----------------------------------------------------------------------------

\* A session is issued at the end of the rows: a rotation points its token to it, and
\* whoever was forgiven adds to a token that has its successor.
LEMMA TokensIssueKept ==
  ASSUME TokensIInv, NEW c \in Calls, Tokens!Issue(c)
  PROVE  TokensIInv'
<1>0. tokens \in Seq(TokensRows) /\ call[c] \in TokensRequests
  BY TokensTyped
<1> PICK n \in Nat : n = Len(tokens)
  BY <1>0
<1> PICK t \in Nat : t = call[c].token
  BY <1>0 DEF TokensRequests
<1> DEFINE family == IF call[c].op = "login" THEN n + 1 ELSE tokens[t].family
           earlier == IF call[c].pc = "rotate"
                      THEN [tokens EXCEPT ![t] = [Tokens!Revoked(@,
                        "rotation") EXCEPT !.replacedBy = n + 1]]
                      ELSE tokens
           new == Tokens!Row(call[c].user, family, t)
<1>1. /\ call[c] \in TokensRequests /\ TokensCallShape(call[c]) /\ tokens \in Seq(TokensRows)
        /\ now \in Int
      /\ n \in Nat /\ DOMAIN tokens = 1 .. n
      /\ \A i \in DOMAIN tokens : tokens[i] \in TokensRows
  BY DEF TokensIInv, TokensTyping, TokensCallShapes
<1>2. /\ call[c].pc \in {"issue", "rotate"}
      /\ tokens' = Append(earlier, new)
      /\ Tokens!Answer(c, 200, n + 1)
      /\ now' = now
  BY DEF Tokens!Issue
<1>3. PICK q \in TokensRequests : q.pc = "answered" /\ call' = [call EXCEPT ![c] = q]
  BY <1>1, <1>2, TokensAnswerSettles
<1>4. /\ t \in Nat /\ call[c].user \in Users \cup {None}
      /\ \/ call[c].op = "login" /\ t = 0 /\ call[c].pc = "issue"
         \/ /\ call[c].op = "refresh" /\ t \in 1 .. n
            /\ call[c].user = tokens[t].user
            /\ \/ call[c].pc = "issue" /\ tokens[t].replacedBy # 0
               \/ /\ call[c].pc = "rotate" /\ tokens[t].revokedAt # None
                  /\ tokens[t].ended = "rotation" /\ tokens[t].replacedBy = 0
  BY <1>1, <1>2 DEF TokensCallShape, TokensRequests
<1>5. family \in Nat
  BY <1>1, <1>4 DEF TokensRows
<1>6. /\ new \in TokensRows /\ new.from = t /\ new.user = call[c].user /\ new.family = family
      /\ new.replacedBy = 0 /\ new.revokedAt = None /\ new.ended = None
  <2> HIDE DEF family
  <2> QED
    BY <1>1, <1>4, <1>5, TokenConstants DEF Tokens!Row, TokensRows
<1>7. /\ earlier \in Seq(TokensRows) /\ Len(earlier) = n
      /\ \A i \in 1 .. n :
           /\ earlier[i].user = tokens[i].user /\ earlier[i].family = tokens[i].family
           /\ earlier[i].from = tokens[i].from
           /\ i # t \/ call[c].pc = "issue" => earlier[i] = tokens[i]
      /\ call[c].pc = "rotate" =>
           /\ earlier[t].replacedBy = n + 1 /\ earlier[t].revokedAt # None
           /\ earlier[t].ended = "rotation"
  <2>1. CASE call[c].pc = "issue"
    BY <1>1, <1>4, <2>1
  <2>2. CASE call[c].pc = "rotate"
    <3> DEFINE row == [Tokens!Revoked(tokens[t], "rotation") EXCEPT !.replacedBy = n + 1]
    <3>1. tokens[t] \in TokensRows /\ t \in 1 .. n /\ tokens[t].ended = "rotation"
      BY <1>1, <1>4, <2>2
    <3>2. Tokens!Revoked(tokens[t], "rotation") \in TokensRows
      BY <1>1, <3>1, TokenConstants DEF TokensRows, Tokens!Revoked
    <3>3. LET r == Tokens!Revoked(tokens[t], "rotation")
          IN  /\ r.revokedAt # None /\ r.ended = "rotation" /\ r.user = tokens[t].user
              /\ r.family = tokens[t].family /\ r.from = tokens[t].from
      BY <1>1, <3>1, TokenConstants DEF TokensRows, Tokens!Revoked
    <3>4. /\ row \in TokensRows /\ row.replacedBy = n + 1
          /\ row.revokedAt # None /\ row.ended = "rotation"
          /\ row.user = tokens[t].user /\ row.family = tokens[t].family
          /\ row.from = tokens[t].from
      <4>1. \A r \in TokensRows, k \in Nat :
              LET to == [r EXCEPT !.replacedBy = k]
              IN  /\ to \in TokensRows /\ to.replacedBy = k
                  /\ to.revokedAt = r.revokedAt /\ to.ended = r.ended /\ to.user = r.user
                  /\ to.family = r.family /\ to.from = r.from
        BY DEF TokensRows
      <4>2. n + 1 \in Nat
        BY <1>1
      <4> QED
        BY <3>2, <3>3, <4>1, <4>2
    <3>5. earlier = [tokens EXCEPT ![t] = row]
      BY <2>2
    <3> HIDE DEF row, earlier
    <3> QED
      BY <1>1, <2>2, <3>1, <3>4, <3>5
  <2> QED
    BY <1>2, <2>1, <2>2
<1>8. /\ tokens' \in Seq(TokensRows) /\ DOMAIN tokens' = 1 .. (n + 1)
      /\ tokens'[n + 1] = new
      /\ \A i \in 1 .. n : tokens'[i] = earlier[i]
  <2> HIDE DEF earlier, new
  <2> QED
    BY <1>1, <1>2, <1>6, <1>7, AppendProperties
<1>9. /\ \A d \in Calls : call'[d] = IF d = c THEN q ELSE call[d]
      /\ call' \in [Calls -> TokensRequests]
  BY <1>3 DEF TokensIInv, TokensTyping
<1>10. \A i \in 1 .. n : TokensRowSound(i)
  BY <1>1 DEF TokensIInv, TokensRowsSound
<1> HIDE DEF family, earlier, new
<1>11. TokensTyping'
  BY <1>1, <1>2, <1>8, <1>9 DEF TokensTyping
<1>12. \A i \in 1 .. n : i # t \/ call[c].pc = "issue" => tokens'[i] = tokens[i]
  BY <1>7, <1>8
<1>13. \A i \in 1 .. n :
         /\ tokens'[i].user = tokens[i].user /\ tokens'[i].family = tokens[i].family
         /\ tokens'[i].from = tokens[i].from
  BY <1>7, <1>8
<1>14. call[c].pc = "rotate" =>
         /\ t \in 1 .. n /\ tokens[t].replacedBy = 0
         /\ tokens'[t].replacedBy = n + 1 /\ tokens'[t].revokedAt # None
         /\ tokens'[t].ended = "rotation"
  BY <1>4, <1>7, <1>8
<1>15. TokensRowsSound'
  <2>1. TokensRowSound(n + 1)'
    <3>1. CASE t = 0
      BY <1>6, <1>8, <3>1 DEF TokensRowSound
    <3>2. CASE t # 0
      <4>1. call[c].op = "refresh" /\ t \in 1 .. n /\ call[c].user = tokens[t].user
        BY <1>4, <3>2
      <4>2. tokens'[t].replacedBy # 0 /\ tokens'[t].replacedBy <= n + 1
        <5>1. CASE call[c].pc = "rotate"
          BY <1>1, <1>14, <5>1
        <5>2. CASE call[c].pc = "issue"
          <6>1. tokens[t].replacedBy # 0 /\ tokens'[t] = tokens[t]
            BY <1>4, <1>12, <4>1, <5>2
          <6>2. tokens[t].replacedBy \in 1 .. n
            BY <1>1, <1>10, <4>1, <6>1 DEF TokensRowSound
          <6> QED
            BY <1>1, <6>1, <6>2
        <5> QED
          BY <1>2, <5>1, <5>2
      <4>3. new.family = tokens'[t].family /\ new.user = tokens'[t].user
        BY <1>6, <1>13, <4>1 DEF family
      <4>4. t \in DOMAIN tokens'
        BY <1>1, <1>8, <4>1
      <4> QED
        BY <1>6, <1>8, <4>2, <4>3, <4>4 DEF TokensRowSound
    <3> QED
      BY <3>1, <3>2
  <2>2. ASSUME NEW i \in 1 .. n PROVE TokensRowSound(i)'
    <3>1. TokensRowSound(i)
      BY <1>10
    <3>2. /\ tokens'[i].revokedAt = None => tokens'[i].ended = None
          /\ tokens'[i].replacedBy # 0 =>
               /\ tokens'[i].replacedBy \in DOMAIN tokens'
               /\ tokens'[tokens'[i].replacedBy].from = i
               /\ tokens'[i].revokedAt # None /\ tokens'[i].ended = "rotation"
      <4>1. CASE i # t \/ call[c].pc = "issue"
        <5>1. tokens'[i] = tokens[i]
          BY <1>12, <4>1
        <5>2. tokens[i].replacedBy # 0 => tokens[i].replacedBy \in 1 .. n
          BY <1>1, <3>1 DEF TokensRowSound
        <5>3. 1 .. n \subseteq DOMAIN tokens'
          BY <1>1, <1>8
        <5> QED
          BY <1>13, <3>1, <5>1, <5>2, <5>3 DEF TokensRowSound
      <4>2. CASE i = t /\ call[c].pc = "rotate"
        <5>1. n + 1 \in DOMAIN tokens' /\ tokens'[n + 1].from = t
          BY <1>1, <1>6, <1>8
        <5> QED
          BY <1>14, <4>2, <5>1
      <4> QED
        BY <1>2, <4>1, <4>2
    <3>3. tokens'[i].from # 0 =>
            LET last == tokens'[i].from
            IN  /\ last \in DOMAIN tokens'
                /\ tokens'[last].replacedBy # 0 /\ tokens'[last].replacedBy <= i
                /\ tokens'[last].family = tokens'[i].family
                /\ tokens'[last].user = tokens'[i].user
      <4> SUFFICES ASSUME tokens'[i].from # 0
                   PROVE  LET last == tokens'[i].from
                          IN  /\ last \in DOMAIN tokens'
                              /\ tokens'[last].replacedBy # 0 /\ tokens'[last].replacedBy <= i
                              /\ tokens'[last].family = tokens'[i].family
                              /\ tokens'[last].user = tokens'[i].user
        OBVIOUS
      <4> DEFINE last == tokens[i].from
      <4>1. last = tokens'[i].from /\ last # 0
        BY <1>13
      <4>2. /\ last \in 1 .. n /\ tokens[last].replacedBy # 0 /\ tokens[last].replacedBy <= i
            /\ tokens[last].family = tokens[i].family /\ tokens[last].user = tokens[i].user
        BY <1>1, <3>1, <4>1 DEF TokensRowSound
      <4>3. tokens'[last] = tokens[last]
        BY <1>2, <1>12, <1>14, <4>2
      <4>4. last \in DOMAIN tokens'
        BY <1>1, <1>8, <4>2
      <4> HIDE DEF last
      <4> QED
        BY <1>13, <4>1, <4>2, <4>3, <4>4
    <3> QED
      BY <3>2, <3>3 DEF TokensRowSound
  <2>3. DOMAIN tokens' = (1 .. n) \cup {n + 1}
    BY <1>1, <1>8
  <2> QED
    BY <2>1, <2>2, <2>3 DEF TokensRowsSound
<1>16. TokensCallShapes'
  <2> SUFFICES ASSUME NEW d \in Calls PROVE TokensCallShape(call[d])'
    BY DEF TokensCallShapes
  <2>1. CASE d = c
    BY <1>3, <1>9, <2>1 DEF TokensCallShape
  <2>2. CASE d # c
    <3>1. TokensCallShape(call[d]) /\ call'[d] = call[d]
      BY <1>9, <2>2 DEF TokensIInv, TokensCallShapes
    <3>2. DOMAIN tokens \subseteq DOMAIN tokens'
      BY <1>1, <1>8
    <3>3. \A i \in DOMAIN tokens : tokens'[i].user = tokens[i].user
      BY <1>1, <1>13
    <3>4. \A i \in DOMAIN tokens : tokens[i].replacedBy # 0 => tokens'[i].replacedBy # 0
      BY <1>1, <1>2, <1>12, <1>14
    <3>5. TokensWinner(d) => tokens'[call[d].token] = tokens[call[d].token]
      <4> SUFFICES ASSUME TokensWinner(d) PROVE tokens'[call[d].token] = tokens[call[d].token]
        OBVIOUS
      <4>1. call[d].token \in 1 .. n
        BY <1>1, <3>1 DEF TokensCallShape, TokensWinner
      <4>2. call[c].pc = "rotate" => call[d].token # t
        BY <2>2 DEF TokensIInv, TokensOneWinner, TokensWinner
      <4> QED
        BY <1>2, <1>12, <4>1, <4>2
    <3> QED
      BY <3>1, <3>2, <3>3, <3>4, <3>5 DEF TokensCallShape, TokensWinner
  <2> QED
    BY <2>1, <2>2
<1>17. TokensOneWinner'
  BY <1>3, <1>9 DEF TokensIInv, TokensOneWinner, TokensWinner
<1> QED
  BY <1>11, <1>15, <1>16, <1>17 DEF TokensIInv

\* Time is only compared with.
LEMMA TokensTickKept ==
  ASSUME TokensIInv, Tokens!Tick
  PROVE  TokensIInv'
<1>1. now' \in Int /\ UNCHANGED <<tokens, call>>
  BY DEF TokensIInv, TokensTyping, Tokens!Tick
<1> QED
  BY <1>1 DEF TokensIInv, TokensTyping, TokensRowsSound, TokensRowSound, TokensCallShapes,
     TokensCallShape, TokensOneWinner, TokensWinner

\* Before the first login there is nothing.
LEMMA TokensInitially == Tokens!InitServer => TokensIInv
<1> SUFFICES ASSUME Tokens!InitServer PROVE TokensIInv
  OBVIOUS
<1>1. tokens \in Seq(TokensRows) /\ DOMAIN tokens = {}
  BY DEF Tokens!InitServer
<1>2. \A c \in Calls : call[c] = Tokens!Quiet
  BY DEF Tokens!InitServer
<1>3. TokensTyping
  <2>1. Tokens!Quiet \in TokensRequests
    BY TokensQuietTyped
  <2> QED
    BY <1>1, <2>1 DEF Tokens!InitServer, TokensTyping
<1>4. TokensCallShapes
  BY <1>2, TokensQuietTyped, TokensSettled DEF TokensCallShapes
<1>5. TokensOneWinner
  BY <1>2, TokensQuietTyped DEF TokensOneWinner, TokensWinner
<1> QED
  BY <1>1, <1>3, <1>4, <1>5 DEF TokensIInv, TokensRowsSound

\* Every step of the service keeps the invariant.
LEMMA TokensEveryStep ==
  ASSUME TokensIInv, [Tokens!Next]_(Tokens!serverVars)
  PROVE  TokensIInv'
<1>1. CASE UNCHANGED Tokens!serverVars
  BY <1>1 DEF Tokens!serverVars, TokensIInv, TokensTyping, TokensRowsSound, TokensRowSound,
     TokensCallShapes, TokensCallShape, TokensOneWinner, TokensWinner
<1>2. CASE Tokens!Tick
  BY <1>2, TokensTickKept
<1>3. CASE \E c \in Calls, u \in Users : Tokens!Login(c, u)
  BY <1>3, TokensLoginKept
<1>4. CASE \E c \in Calls, t \in DOMAIN tokens : Tokens!Refresh(c, t) \/ Tokens!Logout(c, t)
  BY <1>4, TokensRefreshKept, TokensLogoutKept
<1>5. CASE \E c \in Calls : Tokens!Work(c)
  BY <1>5, TokensRevokePresentedKept, TokensReadTokenKept, TokensIssueKept,
     TokensRevokeFamilyKept DEF Tokens!Work
<1>6. CASE \E c \in Calls : Tokens!Fail(c) \/ Tokens!Read(c)
  BY <1>6, TokensFailKept, TokensReadKept
<1> QED
  BY <1>1, <1>2, <1>3, <1>4, <1>5, <1>6 DEF Tokens!Next, Tokens!Serve, Tokens!Unread

\* A token is rotated once, whoever presents it at the same time, and its chain keeps to
\* its family (AuthService.refresh).
THEOREM TokensChainNeverForks ==
  Tokens!Spec => []Tokens!RotationChain
<1>1. Tokens!InitServer => TokensIInv
  BY TokensInitially
<1>2. TokensIInv /\ [Tokens!Next]_(Tokens!serverVars) => TokensIInv'
  BY TokensEveryStep
<1>3. TokensIInv => Tokens!RotationChain
  BY TokensChainFollows
<1> QED
  BY <1>1, <1>2, <1>3, PTL DEF Tokens!Spec

\* Nothing ever comes of a token that a logout or a disconnection of its family revoked
\* before it was rotated (perdeuCorridaLegitima, revokeFamily).
THEOREM TokensEndedStaysEnded ==
  Tokens!Spec => []Tokens!RevokedTokensStayRevoked
<1>1. Tokens!InitServer => TokensIInv
  BY TokensInitially
<1>2. TokensIInv /\ [Tokens!Next]_(Tokens!serverVars) => TokensIInv'
  BY TokensEveryStep
<1>3. TokensIInv => Tokens!RevokedTokensStayRevoked
  BY TokensEndsFollow
<1> QED
  BY <1>1, <1>2, <1>3, PTL DEF Tokens!Spec

-----------------------------------------------------------------------------
ClubsTasks ==
  [pc : {"idle", "create", "join", "upsert", "createMember"}, by : People \cup {None},
   club : Clubs \cup {None}, user : People \cup {None}, row : Membership!MemberRows \cup {None},
   attempt : Int]

ClubsTyping ==
  /\ accounts \subseteq People
  /\ code \in [Clubs -> Codes \cup {None}]
  /\ members \in [Clubs -> [People -> Membership!MemberRows \cup {None}]]
  /\ deed \in [Reqs -> ClubsTasks]

\* What a request under way may rely on, for good: nobody is ever removed.
ClubsTaskShape(q) ==
  /\ q.pc \in {"create", "join"} => q.by \in accounts
  /\ q.pc = "join" => q.club \in Clubs /\ code[q.club] # None
  /\ q.pc \in {"upsert", "createMember"} =>
       /\ q.by \in accounts /\ q.club \in Clubs /\ code[q.club] # None
       /\ q.user \in People /\ q.row \in Membership!MemberRows
  /\ q.pc = "upsert" => q.user \in accounts /\ Membership!KeepsAccess(q.by, q.user, q.row)

ClubsTaskShapes == \A r \in Reqs : ClubsTaskShape(deed[r])

\* Only a club that exists has members, and only accounts are members.
ClubsRowsBelong ==
  \A c \in Clubs, u \in People :
    members[c][u] # None => code[c] # None /\ u \in accounts

ClubsUpserts(r, c) == deed[r].pc = "upsert" /\ deed[r].club = c

\* In a club that is not contested the one administrator whose request is under way
\* still is one.
ClubsAlone ==
  \A c \in Clubs \ contested, r \in Reqs :
    ClubsUpserts(r, c) => Membership!IsAdmin(c, deed[r].by)
      /\ \A o \in Reqs \ {r} : ~ClubsUpserts(o, c)

ClubsIInv ==
  ClubsTyping /\ ClubsTaskShapes /\ ClubsRowsBelong /\ ClubsAlone /\ Membership!AdminRemains
    /\ Membership!WalletsFollowMembers

-----------------------------------------------------------------------------

\* Requests that are not about to write a row leave the members as they are.
LEMMA ClubsOnlyRequests ==
  ASSUME ClubsIInv, NEW r \in Reqs, NEW q \in ClubsTasks,
         deed' = [deed EXCEPT ![r] = q], UNCHANGED Membership!rows,
         q.pc # "upsert", ClubsTaskShape(q)
  PROVE  ClubsIInv'
<1>1. /\ UNCHANGED <<accounts, code, members, wallets, linked, contested>>
      /\ \A o \in Reqs : deed'[o] = IF o = r THEN q ELSE deed[o]
      /\ deed' \in [Reqs -> ClubsTasks]
  BY DEF Membership!rows, ClubsIInv, ClubsTyping
<1>2. ClubsTyping'
  BY <1>1 DEF ClubsIInv, ClubsTyping
<1>3. ClubsTaskShapes'
  BY <1>1 DEF ClubsIInv, ClubsTaskShapes, ClubsTaskShape, Membership!KeepsAccess
<1>4. ClubsRowsBelong' /\ Membership!AdminRemains' /\ Membership!WalletsFollowMembers'
  BY <1>1 DEF ClubsIInv, ClubsRowsBelong, Membership!AdminRemains,
     Membership!WalletsFollowMembers, Membership!IsAdmin
<1>5. ClubsAlone'
  BY <1>1 DEF ClubsIInv, ClubsAlone, ClubsUpserts, Membership!IsAdmin
<1> QED
  BY <1>2, <1>3, <1>4, <1>5 DEF ClubsIInv

\* The blank request.
LEMMA ClubsIdleTask == Membership!NoDeed \in ClubsTasks /\ ClubsTaskShape(Membership!NoDeed)
                         /\ Membership!NoDeed.pc = "idle"
BY DEF Membership!NoDeed, ClubsTasks, ClubsTaskShape

\* A row that is written for somebody, with his wallet or as a link, when it takes
\* no administrator away.
LEMMA ClubsRowWritten ==
  ASSUME ClubsIInv, NEW r \in Reqs, NEW c \in Clubs, NEW u \in People,
           NEW row \in Membership!MemberRows,
         u \in accounts', accounts \subseteq accounts', accounts' \subseteq People,
         code' \in [Clubs -> Codes \cup {None}], code'[c] # None,
         \A d \in Clubs : code[d] # None => code'[d] = code[d],
         \A d \in Clubs \ {c} : code'[d] = code[d],
         members' = [members EXCEPT ![c][u] = row],
         deed' = [deed EXCEPT ![r] = Membership!NoDeed],
         contested' = contested,
         wallets \subseteq wallets', linked \subseteq linked',
         wallets' \subseteq wallets \cup {<<c, u>>},
         <<c, u>> \in wallets' \cup linked',
         Membership!IsAdmin(c, u) => row = Membership!Member("ADMIN", "ACTIVE")
           \/ ClubsUpserts(r, c),
         c \notin contested =>
           \E v \in People : IF v = u THEN row = Membership!Member("ADMIN", "ACTIVE")
             ELSE Membership!IsAdmin(c, v)
  PROVE  ClubsIInv'
<1> USE ClubConstants
<1>1. /\ members' \in [Clubs -> [People -> Membership!MemberRows \cup {None}]]
      /\ members'[c][u] = row
      /\ \A d \in Clubs, v \in People : d # c \/ v # u => members'[d][v] = members[d][v]
  BY DEF ClubsIInv, ClubsTyping
<1>2. /\ deed' \in [Reqs -> ClubsTasks]
      /\ deed'[r] = Membership!NoDeed
      /\ \A o \in Reqs \ {r} : deed'[o] = deed[o]
  BY ClubsIdleTask DEF ClubsIInv, ClubsTyping
<1>3. ClubsTyping'
  BY <1>1, <1>2 DEF ClubsIInv, ClubsTyping
<1>4. ClubsTaskShapes'
  <2> SUFFICES ASSUME NEW o \in Reqs PROVE ClubsTaskShape(deed[o])'
    BY DEF ClubsTaskShapes
  <2>1. CASE o = r
    BY <1>2, <2>1 DEF ClubsTaskShape, Membership!NoDeed
  <2>2. CASE o # r
    <3>1. ClubsTaskShape(deed[o]) /\ deed'[o] = deed[o] /\ deed[o] \in ClubsTasks
      BY <1>2, <2>2 DEF ClubsIInv, ClubsTaskShapes, ClubsTyping
    <3> QED
      BY <3>1 DEF ClubsTaskShape, Membership!KeepsAccess
  <2> QED
    BY <2>1, <2>2
<1>5. ClubsRowsBelong'
  BY <1>1 DEF ClubsIInv, ClubsRowsBelong
<1>6. Membership!AdminRemains'
  <2> SUFFICES ASSUME NEW d \in Clubs, d \notin contested, code'[d] # None
               PROVE  \E v \in People : Membership!IsAdmin(d, v)'
    BY DEF Membership!AdminRemains
  <2>1. CASE d = c
    BY <1>1, <2>1 DEF Membership!IsAdmin
  <2>2. CASE d # c
    <3>1. PICK v \in People : Membership!IsAdmin(d, v)
      BY <2>2 DEF ClubsIInv, Membership!AdminRemains
    <3> QED
      BY <1>1, <2>2, <3>1 DEF Membership!IsAdmin
  <2> QED
    BY <2>1, <2>2
<1>7. Membership!WalletsFollowMembers'
  <2> SUFFICES ASSUME NEW d \in Clubs, NEW v \in People
               PROVE  /\ <<d, v>> \in wallets' => members'[d][v] # None
                      /\ members'[d][v] # None => <<d, v>> \in wallets' \cup linked'
    BY DEF Membership!WalletsFollowMembers
  <2>1. CASE d = c /\ v = u
    BY <1>1, <2>1
  <2>2. CASE d # c \/ v # u
    <3>1. members'[d][v] = members[d][v] /\ <<d, v>> # <<c, u>>
      BY <1>1, <2>2
    <3> QED
      BY <3>1 DEF ClubsIInv, Membership!WalletsFollowMembers
  <2> QED
    BY <2>1, <2>2
<1>8. ClubsAlone'
  <2> SUFFICES ASSUME NEW d \in Clubs, d \notin contested, NEW o \in Reqs, ClubsUpserts(o, d)'
               PROVE  Membership!IsAdmin(d, deed[o].by)'
                        /\ \A p \in Reqs \ {o} : ~ClubsUpserts(p, d)'
    BY DEF ClubsAlone
  <2>1. o # r /\ ClubsUpserts(o, d) /\ deed'[o] = deed[o]
    BY <1>2 DEF ClubsUpserts, Membership!NoDeed
  <2>2. Membership!IsAdmin(d, deed[o].by) /\ \A p \in Reqs \ {o} : ~ClubsUpserts(p, d)
    BY <2>1 DEF ClubsIInv, ClubsAlone
  <2>3. deed[o].by \in People
    BY <2>1 DEF ClubsIInv, ClubsTaskShapes, ClubsTaskShape, ClubsTyping, ClubsUpserts
  <2>4. Membership!IsAdmin(d, deed[o].by)'
    <3>1. CASE d = c /\ deed[o].by = u
      <4>1. ~ClubsUpserts(r, c)
        BY <2>1, <2>2, <3>1
      <4> QED
        BY <1>1, <2>1, <2>2, <3>1, <4>1 DEF Membership!IsAdmin
    <3>2. CASE d # c \/ deed[o].by # u
      BY <1>1, <2>1, <2>2, <2>3, <3>2 DEF Membership!IsAdmin
    <3> QED
      BY <3>1, <3>2
  <2>5. \A p \in Reqs \ {o} : ~ClubsUpserts(p, d)'
    BY <1>2, <2>2 DEF ClubsUpserts, Membership!NoDeed
  <2> QED
    BY <2>4, <2>5
<1> QED
  BY <1>3, <1>4, <1>5, <1>6, <1>7, <1>8 DEF ClubsIInv

\* Whoever is an administrator, and whoever is known, is one of the people.
LEMMA ClubsPersonOf ==
  ASSUME ClubsIInv, NEW r \in Reqs
  PROVE  /\ deed[r] \in ClubsTasks
         /\ ClubsTaskShape(deed[r])
         /\ accounts \subseteq People
BY DEF ClubsIInv, ClubsTyping, ClubsTaskShapes

-----------------------------------------------------------------------------

\* Asking to found a club keeps the invariant.
LEMMA ClubsCreateClubeKept ==
  ASSUME ClubsIInv, NEW r \in Reqs, Membership!CreateClube(r)
  PROVE  ClubsIInv'
<1>1. PICK u \in accounts : Membership!Go(r,
        [Membership!NoDeed EXCEPT !.pc = "create", !.by = u, !.attempt = 1])
  BY DEF Membership!CreateClube
<1> DEFINE q == [Membership!NoDeed EXCEPT !.pc = "create", !.by = u, !.attempt = 1]
<1>2. q \in ClubsTasks /\ ClubsTaskShape(q) /\ q.pc # "upsert"
  <2>1. u \in People
    BY ClubsPersonOf
  <2>2. q.pc = "create" /\ q.by = u
    BY ClubsIdleTask DEF ClubsTasks
  <2>3. q \in ClubsTasks
    <3>1. [Membership!NoDeed EXCEPT !.pc = "create", !.by = u] \in ClubsTasks
      BY <2>1, ClubsIdleTask DEF ClubsTasks
    <3>2. \A d \in ClubsTasks : [d EXCEPT !.attempt = 1] \in ClubsTasks
      BY DEF ClubsTasks
    <3> QED
      BY <3>1, <3>2, ClubsIdleTask DEF ClubsTasks
  <2> HIDE DEF q
  <2> QED
    BY <2>2, <2>3 DEF ClubsTaskShape
<1>3. deed' = [deed EXCEPT ![r] = q] /\ UNCHANGED Membership!rows
  BY <1>1 DEF Membership!Go, Membership!CreateClube
<1> HIDE DEF q
<1> QED
  BY <1>2, <1>3, ClubsOnlyRequests

\* Asking to join the club of a code keeps the invariant.
LEMMA ClubsJoinByCodeKept ==
  ASSUME ClubsIInv, NEW r \in Reqs, Membership!JoinByCode(r)
  PROVE  ClubsIInv'
<1>1. PICK u \in accounts, c \in Clubs :
        code[c] # None
          /\ Membership!Go(r, [Membership!NoDeed EXCEPT !.pc = "join", !.by = u, !.club = c])
  BY DEF Membership!JoinByCode
<1> DEFINE q == [Membership!NoDeed EXCEPT !.pc = "join", !.by = u, !.club = c]
<1>2. q \in ClubsTasks /\ ClubsTaskShape(q) /\ q.pc # "upsert"
  <2>1. u \in People
    BY ClubsPersonOf
  <2>2. q \in ClubsTasks /\ q.pc = "join" /\ q.by = u /\ q.club = c
    BY <2>1, ClubsIdleTask DEF ClubsTasks
  <2> HIDE DEF q
  <2> QED
    BY <1>1, <2>2 DEF ClubsTaskShape
<1>3. deed' = [deed EXCEPT ![r] = q] /\ UNCHANGED Membership!rows
  BY <1>1 DEF Membership!Go, Membership!JoinByCode
<1> HIDE DEF q
<1> QED
  BY <1>2, <1>3, ClubsOnlyRequests

\* A request that fails is gone.
LEMMA ClubsFailKept ==
  ASSUME ClubsIInv, NEW r \in Reqs, Membership!Fail(r)
  PROVE  ClubsIInv'
BY ClubsOnlyRequests, ClubsIdleTask DEF Membership!Fail, Membership!Done, Membership!Go

\* An administrator whose request is accepted is one, and contests the club when another
\* such request is under way.
LEMMA ClubsUpsertMemberKept ==
  ASSUME ClubsIInv, NEW r \in Reqs, Membership!UpsertMember(r)
  PROVE  ClubsIInv'
<1>1. PICK by \in accounts, c \in Clubs, u \in People, row \in Membership!MemberRows :
        /\ Membership!IsAdmin(c, by)
        /\ Membership!KeepsAccess(by, u, row)
        /\ Membership!Go(r, [pc |-> IF u \in accounts THEN "upsert" ELSE "createMember",
                  by |-> by, club |-> c, user |-> u, row |-> row, attempt |-> 0])
        /\ contested' = IF \E o \in Reqs : deed[o].pc = "upsert" /\ deed[o].club = c
                        THEN contested \cup {c} ELSE contested
  BY DEF Membership!UpsertMember
<1> DEFINE q == [pc |-> IF u \in accounts THEN "upsert" ELSE "createMember",
                 by |-> by, club |-> c, user |-> u, row |-> row, attempt |-> 0]
<1>2. code[c] # None /\ by \in People
  <2>1. by \in People
    BY ClubsPersonOf
  <2>2. members[c][by] # None
    BY <1>1, ClubConstants DEF Membership!IsAdmin, Membership!Member, Membership!MemberRows
  <2> QED
    BY <2>1, <2>2 DEF ClubsIInv, ClubsRowsBelong
<1>3. q \in ClubsTasks /\ ClubsTaskShape(q)
  BY <1>1, <1>2 DEF ClubsTasks, ClubsTaskShape
<1>4. q.club = c /\ q.by = by
  OBVIOUS
<1>5. deed' = [deed EXCEPT ![r] = q]
  BY <1>1 DEF Membership!Go
<1> HIDE DEF q
<1>6. /\ UNCHANGED <<accounts, code, members, wallets, linked>>
      /\ \A o \in Reqs : deed'[o] = IF o = r THEN q ELSE deed[o]
      /\ deed' \in [Reqs -> ClubsTasks]
  BY <1>3, <1>5 DEF Membership!UpsertMember, ClubsIInv, ClubsTyping
<1>7. ClubsTyping'
  BY <1>6 DEF ClubsIInv, ClubsTyping
<1>8. ClubsTaskShapes'
  BY <1>3, <1>6 DEF ClubsIInv, ClubsTaskShapes, ClubsTaskShape, Membership!KeepsAccess
<1>9. contested \subseteq contested'
  BY <1>1
<1>10. ClubsRowsBelong' /\ Membership!AdminRemains' /\ Membership!WalletsFollowMembers'
  BY <1>6, <1>9 DEF ClubsIInv, ClubsRowsBelong, Membership!AdminRemains,
     Membership!WalletsFollowMembers, Membership!IsAdmin
<1>11. ClubsAlone'
  <2> SUFFICES ASSUME NEW d \in Clubs, d \notin contested', NEW o \in Reqs, ClubsUpserts(o, d)'
               PROVE  Membership!IsAdmin(d, deed[o].by)'
                        /\ \A p \in Reqs \ {o} : ~ClubsUpserts(p, d)'
    BY DEF ClubsAlone
  <2>1. CASE o = r
    <3>1. d = c /\ deed'[o].by = by
      BY <1>4, <1>6, <2>1 DEF ClubsUpserts
    <3>2. \A p \in Reqs \ {o} : ~ClubsUpserts(p, d)
      BY <1>1, <3>1 DEF ClubsUpserts
    <3> QED
      BY <1>1, <1>6, <2>1, <3>1, <3>2 DEF ClubsUpserts, Membership!IsAdmin
  <2>2. CASE o # r
    <3>1. ClubsUpserts(o, d) /\ d \notin contested /\ deed'[o] = deed[o]
      BY <1>6, <1>9, <2>2 DEF ClubsUpserts
    <3>2. Membership!IsAdmin(d, deed[o].by) /\ \A p \in Reqs \ {o} : ~ClubsUpserts(p, d)
      BY <3>1 DEF ClubsIInv, ClubsAlone
    <3>3. d # c
      BY <1>1, <3>1 DEF ClubsUpserts
    <3>4. \A p \in Reqs \ {o} : ~ClubsUpserts(p, d)'
      BY <1>4, <1>6, <3>2, <3>3 DEF ClubsUpserts
    <3> QED
      BY <1>6, <3>1, <3>2, <3>4 DEF Membership!IsAdmin
  <2> QED
    BY <2>1, <2>2
<1> QED
  BY <1>7, <1>8, <1>10, <1>11 DEF ClubsIInv

-----------------------------------------------------------------------------

\* A club is founded with an administrator and his wallet, or its code drawn again.
LEMMA ClubsInsertClubeKept ==
  ASSUME ClubsIInv, NEW r \in Reqs, Membership!InsertClube(r)
  PROVE  ClubsIInv'
<1> DEFINE u == deed[r].by
<1>1. u \in accounts /\ u \in People
  BY ClubsPersonOf DEF Membership!InsertClube, ClubsTaskShape
<1>2. PICK c \in Clubs, k \in Codes :
        /\ code[c] = None
        /\ IF \A o \in Clubs : code[o] # k
           THEN /\ code' = [code EXCEPT ![c] = k]
                /\ members' = [members EXCEPT ![c][u] = Membership!Member("ADMIN", "ACTIVE")]
                /\ wallets' = wallets \cup {<<c, u>>}
                /\ Membership!Done(r)
           ELSE /\ IF deed[r].attempt = MaxCodeAttempts THEN Membership!Done(r)
                   ELSE Membership!Go(r, [deed[r] EXCEPT !.attempt = @ + 1])
                /\ UNCHANGED <<code, members, wallets>>
  BY DEF Membership!InsertClube
<1>3. UNCHANGED <<accounts, linked, contested>>
  BY DEF Membership!InsertClube
<1>4. CASE \A o \in Clubs : code[o] # k
  <2> DEFINE row == Membership!Member("ADMIN", "ACTIVE")
  <2>1. row \in Membership!MemberRows
    BY DEF Membership!Member, Membership!MemberRows
  <2>2. /\ code' = [code EXCEPT ![c] = k]
        /\ members' = [members EXCEPT ![c][u] = row]
        /\ wallets' = wallets \cup {<<c, u>>}
        /\ deed' = [deed EXCEPT ![r] = Membership!NoDeed]
    BY <1>2, <1>4 DEF Membership!Done, Membership!Go
  <2> HIDE DEF row, u
  <2>3. /\ code' \in [Clubs -> Codes \cup {None}]
        /\ code'[c] # None
        /\ \A d \in Clubs \ {c} : code'[d] = code[d]
    BY <2>2, ClubConstants DEF ClubsIInv, ClubsTyping
  <2>4. \A d \in Clubs : code[d] # None => code'[d] = code[d]
    BY <1>2, <2>3
  <2>5. accounts \subseteq People
    BY ClubsPersonOf
  <2> QED
    BY <1>1, <1>3, <2>1, <2>2, <2>3, <2>4, <2>5, ClubsRowWritten DEF row
<1>5. CASE ~\A o \in Clubs : code[o] # k
  <2>1. UNCHANGED Membership!rows
    BY <1>2, <1>3, <1>5 DEF Membership!rows
  <2>2. CASE Membership!Done(r)
    BY <2>1, <2>2, ClubsOnlyRequests, ClubsIdleTask DEF Membership!Done, Membership!Go
  <2>3. CASE ~Membership!Done(r)
    <3> DEFINE q == [deed[r] EXCEPT !.attempt = @ + 1]
    <3>1. deed' = [deed EXCEPT ![r] = q]
      BY <1>2, <1>5, <2>3 DEF Membership!Go
    <3>2. deed[r] \in ClubsTasks /\ ClubsTaskShape(deed[r]) /\ deed[r].pc = "create"
      BY ClubsPersonOf DEF Membership!InsertClube
    <3>3. q \in ClubsTasks
      BY <3>2 DEF ClubsTasks
    <3>4. q.pc = "create" /\ q.by = deed[r].by
      BY <3>2 DEF ClubsTasks
    <3> HIDE DEF q
    <3>5. ClubsTaskShape(q)
      BY <1>1, <3>4 DEF ClubsTaskShape
    <3> QED
      BY <2>1, <3>1, <3>3, <3>4, <3>5, ClubsOnlyRequests
  <2> QED
    BY <2>2, <2>3
<1> QED
  BY <1>4, <1>5

\* Joining takes no role away and brings a wallet.
LEMMA ClubsJoinKept ==
  ASSUME ClubsIInv, NEW r \in Reqs, Membership!Join(r)
  PROVE  ClubsIInv'
<1> DEFINE u == deed[r].by
           c == deed[r].club
           row == IF members[c][u] = None THEN Membership!Member("PLAYER", "ACTIVE")
                  ELSE [members[c][u] EXCEPT !.status = "ACTIVE"]
<1>1. u \in accounts /\ u \in People /\ c \in Clubs /\ code[c] # None
  BY ClubsPersonOf DEF Membership!Join, ClubsTaskShape
<1>2. members[c][u] \in Membership!MemberRows \cup {None}
  BY <1>1 DEF ClubsIInv, ClubsTyping
<1>3. row \in Membership!MemberRows
  BY <1>2 DEF Membership!Member, Membership!MemberRows
<1>4. Membership!IsAdmin(c, u) => row = Membership!Member("ADMIN", "ACTIVE")
  BY <1>1, <1>2, ClubConstants DEF Membership!IsAdmin, Membership!Member, Membership!MemberRows
<1>5. /\ members' = [members EXCEPT ![c][u] = row]
      /\ wallets' = wallets \cup {<<c, u>>}
      /\ deed' = [deed EXCEPT ![r] = Membership!NoDeed]
      /\ UNCHANGED <<accounts, code, linked, contested>>
  <2>1. members' = [members EXCEPT ![c] = [members[c] EXCEPT ![u] = row]]
    BY DEF Membership!Join
  <2>2. members' = [members EXCEPT ![c][u] = row]
    BY <2>1
  <2> QED
    BY <2>2 DEF Membership!Join, Membership!Done, Membership!Go, Membership!WalletOf
<1> HIDE DEF row, u, c
<1>6. c \notin contested =>
        \E v \in People : IF v = u THEN row = Membership!Member("ADMIN", "ACTIVE")
          ELSE Membership!IsAdmin(c, v)
  BY <1>1, <1>4 DEF ClubsIInv, Membership!AdminRemains
<1>7. accounts \subseteq People /\ code \in [Clubs -> Codes \cup {None}]
  BY DEF ClubsIInv, ClubsTyping
<1> QED
  BY <1>1, <1>3, <1>4, <1>5, <1>6, <1>7, ClubsRowWritten

\* The one request under way about a club leaves it the administrator who sent it.
LEMMA ClubsUpsertKept ==
  ASSUME ClubsIInv, NEW r \in Reqs, Membership!Upsert(r)
  PROVE  ClubsIInv'
<1> DEFINE q == deed[r]
           by == q.by
           c == q.club
           u == q.user
           row == q.row
<1>1. /\ by \in People /\ c \in Clubs /\ code[c] # None
      /\ u \in accounts /\ u \in People /\ row \in Membership!MemberRows
      /\ Membership!KeepsAccess(by, u, row) /\ ClubsUpserts(r, c)
  BY ClubsPersonOf DEF Membership!Upsert, ClubsTaskShape, ClubsUpserts
<1>2. /\ members' = [members EXCEPT ![c][u] = row]
      /\ linked' = linked \cup {<<c, u>>}
      /\ deed' = [deed EXCEPT ![r] = Membership!NoDeed]
      /\ UNCHANGED <<accounts, code, wallets, contested>>
  BY DEF Membership!Upsert, Membership!Done, Membership!Go
<1>3. c \notin contested => Membership!IsAdmin(c, by)
  BY <1>1 DEF ClubsIInv, ClubsAlone
<1> HIDE DEF row, u, c, by, q
<1>4. c \notin contested =>
        \E v \in People : IF v = u THEN row = Membership!Member("ADMIN", "ACTIVE")
          ELSE Membership!IsAdmin(c, v)
  BY <1>1, <1>3 DEF Membership!KeepsAccess
<1>5. accounts \subseteq People /\ code \in [Clubs -> Codes \cup {None}]
  BY DEF ClubsIInv, ClubsTyping
<1> QED
  BY <1>1, <1>2, <1>4, <1>5, ClubsRowWritten

\* A member who is registered for the first time was nobody before.
LEMMA ClubsCreateMemberKept ==
  ASSUME ClubsIInv, NEW r \in Reqs, Membership!CreateMemberWithNewUser(r)
  PROVE  ClubsIInv'
<1> DEFINE q == deed[r]
           c == q.club
           u == q.user
           row == q.row
<1>1. c \in Clubs /\ code[c] # None /\ u \in People /\ row \in Membership!MemberRows
  BY ClubsPersonOf DEF Membership!CreateMemberWithNewUser, ClubsTaskShape
<1>2. CASE u \in accounts
  <2>1. UNCHANGED Membership!rows /\ deed' = [deed EXCEPT ![r] = Membership!NoDeed]
    BY <1>2 DEF Membership!CreateMemberWithNewUser, Membership!rows, Membership!Done,
       Membership!Go
  <2> QED
    BY <2>1, ClubsOnlyRequests, ClubsIdleTask
<1>3. CASE u \notin accounts
  <2>1. /\ accounts' = accounts \cup {u}
        /\ members' = [members EXCEPT ![c][u] = row]
        /\ wallets' = wallets \cup {<<c, u>>}
        /\ deed' = [deed EXCEPT ![r] = Membership!NoDeed]
        /\ UNCHANGED <<code, linked, contested>>
    BY <1>3 DEF Membership!CreateMemberWithNewUser, Membership!Done, Membership!Go,
       Membership!WalletOf
  <2> HIDE DEF row, u, c, q
  <2>2. ~Membership!IsAdmin(c, u)
    BY <1>1, <1>3, ClubConstants DEF ClubsIInv, ClubsRowsBelong, Membership!IsAdmin,
       Membership!Member, Membership!MemberRows
  <2>3. c \notin contested =>
          \E v \in People : IF v = u THEN row = Membership!Member("ADMIN", "ACTIVE")
            ELSE Membership!IsAdmin(c, v)
    BY <1>1, <2>2 DEF ClubsIInv, Membership!AdminRemains
  <2>4. accounts \subseteq People /\ code \in [Clubs -> Codes \cup {None}]
    BY DEF ClubsIInv, ClubsTyping
  <2> QED
    BY <1>1, <2>1, <2>2, <2>3, <2>4, ClubsRowWritten
<1> QED
  BY <1>2, <1>3

\* A new account is nobody's member.
LEMMA ClubsRegisterKept ==
  ASSUME ClubsIInv, Membership!Register
  PROVE  ClubsIInv'
<1>1. PICK u \in People \ accounts : accounts' = accounts \cup {u}
  BY DEF Membership!Register
<1>2. UNCHANGED <<code, members, wallets, deed, linked, contested>>
  BY DEF Membership!Register
<1>3. ClubsTyping' /\ ClubsRowsBelong' /\ Membership!AdminRemains'
        /\ Membership!WalletsFollowMembers'
  BY <1>1, <1>2 DEF ClubsIInv, ClubsTyping, ClubsRowsBelong, Membership!AdminRemains,
     Membership!WalletsFollowMembers, Membership!IsAdmin
<1>4. ClubsTaskShapes'
  BY <1>1, <1>2 DEF ClubsIInv, ClubsTaskShapes, ClubsTaskShape, Membership!KeepsAccess
<1>5. ClubsAlone'
  BY <1>2 DEF ClubsIInv, ClubsAlone, ClubsUpserts, Membership!IsAdmin
<1> QED
  BY <1>3, <1>4, <1>5 DEF ClubsIInv

-----------------------------------------------------------------------------

\* Before anything happens there is no club, and nobody has asked for anything.
LEMMA ClubsInitially == Membership!Init => ClubsIInv
<1> SUFFICES ASSUME Membership!Init PROVE ClubsIInv
  OBVIOUS
<1>1. ClubsTyping
  BY ClubsIdleTask DEF Membership!Init, ClubsTyping
<1>2. ClubsTaskShapes
  BY ClubsIdleTask DEF Membership!Init, ClubsTaskShapes
<1>3. ClubsRowsBelong /\ Membership!AdminRemains /\ Membership!WalletsFollowMembers
  BY DEF Membership!Init, ClubsRowsBelong, Membership!AdminRemains,
     Membership!WalletsFollowMembers
<1>4. ClubsAlone
  BY DEF Membership!Init, ClubsAlone, ClubsUpserts, Membership!NoDeed
<1> QED
  BY <1>1, <1>2, <1>3, <1>4 DEF ClubsIInv

\* Every step of the service keeps the invariant.
LEMMA ClubsEveryStep ==
  ASSUME ClubsIInv, [Membership!Next]_(Membership!vars)
  PROVE  ClubsIInv'
<1>1. CASE UNCHANGED Membership!vars
  <2>1. UNCHANGED <<accounts, code, members, wallets, deed, linked, contested>>
    BY <1>1 DEF Membership!vars
  <2> QED
    BY <2>1 DEF ClubsIInv, ClubsTyping, ClubsTaskShapes, ClubsTaskShape,
       Membership!KeepsAccess, ClubsRowsBelong, ClubsAlone, ClubsUpserts, Membership!IsAdmin,
       Membership!AdminRemains, Membership!WalletsFollowMembers
<1>2. CASE Membership!Register
  BY <1>2, ClubsRegisterKept
<1>3. CASE \E r \in Reqs : Membership!CreateClube(r) \/ Membership!InsertClube(r)
        \/ Membership!JoinByCode(r) \/ Membership!Join(r)
  BY <1>3, ClubsCreateClubeKept, ClubsInsertClubeKept, ClubsJoinByCodeKept, ClubsJoinKept
<1>4. CASE \E r \in Reqs :
             Membership!UpsertMember(r) \/ Membership!Upsert(r)
               \/ Membership!CreateMemberWithNewUser(r) \/ Membership!Fail(r)
  BY <1>4, ClubsUpsertMemberKept, ClubsUpsertKept, ClubsCreateMemberKept, ClubsFailKept
<1> QED
  BY <1>1, <1>2, <1>3, <1>4 DEF Membership!Next

\* A club never loses its last active administrator, unless two administrators asked at
\* the same time (upsertMember's check, ClubService).
THEOREM ClubsAdministratorStays ==
  Membership!Spec => []Membership!AdminRemains
<1>1. Membership!Init => ClubsIInv
  BY ClubsInitially
<1>2. ClubsIInv /\ [Membership!Next]_(Membership!vars) => ClubsIInv'
  BY ClubsEveryStep
<1>3. ClubsIInv => Membership!AdminRemains
  BY DEF ClubsIInv
<1> QED
  BY <1>1, <1>2, <1>3, PTL DEF Membership!Spec

\* Whoever entered a club has a wallet there, unless he was linked by his user id, and
\* nobody else has (joinByCode, createClube, createMemberWithNewUser).
THEOREM ClubsWalletsBelong ==
  Membership!Spec => []Membership!WalletsFollowMembers
<1>1. Membership!Init => ClubsIInv
  BY ClubsInitially
<1>2. ClubsIInv /\ [Membership!Next]_(Membership!vars) => ClubsIInv'
  BY ClubsEveryStep
<1>3. ClubsIInv => Membership!WalletsFollowMembers
  BY DEF ClubsIInv
<1> QED
  BY <1>1, <1>2, <1>3, PTL DEF Membership!Spec

-----------------------------------------------------------------------------
(* The blind structures.                                                   *)

\* The levels of one request that was accepted.
StructuresWhole(grid) == \E s \in Grids!ValidSubmissions : grid = Grids!ToSet(s)

StructuresPreset(p) ==
  DOMAIN p = {"status", "rows"} /\ (p.status = "LISTED" => StructuresWhole(p.rows))

StructuresTour(t) ==
  /\ DOMAIN t = {"status", "structure", "grid", "cut"}
  /\ t.status # "NONE" =>
       StructuresWhole(t.grid) \/ (t.structure = None /\ t.grid = {})

\* What a request carries was whole when it was read or sent.
StructuresAsked(q) ==
  /\ DOMAIN q = {"pc", "op", "preset", "tour", "rows", "stale", "cut"}
  /\ q.pc \in {"idle", "erase", "insert", "delete", "create", "patch"}
  /\ q.pc \in {"erase", "insert"} => StructuresWhole(q.rows)
  /\ q.pc = "create" => StructuresWhole(q.rows) \/ (q.preset = None /\ q.rows = {})
  /\ q.pc = "patch" /\ q.op # "patchCut" => StructuresWhole(q.rows)

StructuresIInv ==
  /\ presets = [p \in Presets |-> presets[p]] /\ \A p \in Presets : StructuresPreset(presets[p])
  /\ tours = [t \in Tournaments |-> tours[t]]
  /\ \A t \in Tournaments : StructuresTour(tours[t])
  /\ asks = [r \in Reqs |-> asks[r]] /\ \A r \in Reqs : StructuresAsked(asks[r])

\* The property is in the invariant.
LEMMA StructuresFollow == StructuresIInv => Grids!GridsAreWhole
BY DEF StructuresIInv, StructuresPreset, StructuresTour, StructuresWhole, Grids!GridsAreWhole

\* Two accepted requests have a number in common, unless one is empty: the rows of both are
\* never there together.
LEMMA StructuresNeverMix ==
  ASSUME NEW old, NEW new, StructuresWhole(old), StructuresWhole(new), Grids!UniqueLevels(old, new)
  PROVE  StructuresWhole(old \cup new)
<1>1. ASSUME NEW s \in Grids!ValidSubmissions
      PROVE  Grids!ToSet(s) = {} \/ \E x \in Grids!ToSet(s) : x.number = 1
  <2>1. s \in Seq({s[i] : i \in DOMAIN s}) /\ 1 .. Len(s) \subseteq Grids!ToSet(Grids!Numbers(s))
    BY <1>1, SubmissionConstants DEF Grids!ValidSubmissions, Grids!ValidLevelSet
  <2>2. DOMAIN s = 1 .. Len(s) /\ Len(s) \in Nat
    BY <2>1
  <2>3. CASE Len(s) = 0
    BY <2>2, <2>3 DEF Grids!ToSet
  <2>4. CASE Len(s) # 0
    <3>1. 1 \in Grids!ToSet(Grids!Numbers(s))
      BY <2>1, <2>2, <2>4
    <3>2. PICK i \in DOMAIN s : s[i].number = 1
      BY <3>1 DEF Grids!ToSet, Grids!Numbers
    <3> QED
      BY <3>2 DEF Grids!ToSet
  <2> QED
    BY <2>3, <2>4
<1>2. old = {} \/ new = {}
  BY <1>1 DEF StructuresWhole, Grids!UniqueLevels
<1>3. old \cup new \in {old, new}
  BY <1>2
<1> QED
  BY <1>3

\* What a request becomes.
LEMMA StructuresIdle == StructuresAsked(Grids!Idle)
BY DEF StructuresAsked, Grids!Idle

\* One request changes, and nothing else that the invariant is about.
LEMMA StructuresAsk ==
  ASSUME StructuresIInv, NEW r \in Reqs, NEW q, StructuresAsked(q),
         asks' = [asks EXCEPT ![r] = q]
  PROVE  asks' = [o \in Reqs |-> asks'[o]] /\ \A o \in Reqs : StructuresAsked(asks'[o])
<1>1. asks' = [o \in Reqs |-> IF o = r THEN q ELSE asks[o]]
  BY DEF StructuresIInv
<1> QED
  BY <1>1 DEF StructuresIInv

\* A request alone changes.
LEMMA StructuresAskOnly ==
  ASSUME StructuresIInv, NEW r \in Reqs, NEW q, StructuresAsked(q),
         asks' = [asks EXCEPT ![r] = q], UNCHANGED <<presets, tours>>
  PROVE  StructuresIInv'
BY StructuresAsk DEF StructuresIInv, StructuresPreset, StructuresTour, StructuresWhole

\* A request begins.
LEMMA StructuresBegin ==
  ASSUME StructuresIInv, NEW r \in Reqs,
         \/ Grids!Update(r) \/ Grids!Delete(r) \/ Grids!CreateTournament(r)
         \/ Grids!PatchStructure(r) \/ Grids!PatchCut(r)
  PROVE  StructuresIInv'
<1>1. \A q : StructuresAsked(q) /\ Grids!Begin(r, q) => StructuresIInv'
  BY StructuresAskOnly DEF Grids!Begin
<1>2. CASE Grids!Update(r)
  <2>1. PICK p \in Presets, s \in Grids!ValidSubmissions :
          Grids!Begin(r, [Grids!Idle EXCEPT !.pc = "erase", !.op = "update", !.preset = p,
                                            !.rows = Grids!ToSet(s)])
    BY <1>2 DEF Grids!Update
  <2> DEFINE q == [Grids!Idle EXCEPT !.pc = "erase", !.op = "update", !.preset = p,
                                     !.rows = Grids!ToSet(s)]
  <2>2. StructuresAsked(q)
    BY DEF StructuresAsked, StructuresWhole, Grids!Idle
  <2> HIDE DEF q
  <2> QED
    BY <1>1, <2>1, <2>2 DEF q
<1>3. CASE Grids!Delete(r)
  <2>1. PICK p \in Presets :
          Grids!Begin(r, [Grids!Idle EXCEPT !.pc = "delete", !.op = "delete", !.preset = p])
    BY <1>3 DEF Grids!Delete
  <2> DEFINE q == [Grids!Idle EXCEPT !.pc = "delete", !.op = "delete", !.preset = p]
  <2>2. StructuresAsked(q)
    BY DEF StructuresAsked, Grids!Idle
  <2> HIDE DEF q
  <2> QED
    BY <1>1, <2>1, <2>2 DEF q
<1>4. CASE Grids!CreateTournament(r)
  <2>1. PICK t \in Tournaments, p \in Presets \cup {None}, cut \in Cuts :
          /\ p # None => presets[p].status = "LISTED"
          /\ Grids!Begin(r, [Grids!Idle EXCEPT !.pc = "create", !.op = "create", !.tour = t,
               !.preset = p, !.rows = IF p = None THEN {} ELSE presets[p].rows, !.cut = cut])
    BY <1>4 DEF Grids!CreateTournament
  <2> DEFINE grid == IF p = None THEN {} ELSE presets[p].rows
             q == [Grids!Idle EXCEPT !.pc = "create", !.op = "create", !.tour = t,
                                     !.preset = p, !.rows = grid, !.cut = cut]
  <2>2. StructuresWhole(grid) \/ (p = None /\ grid = {})
    BY <2>1 DEF StructuresIInv, StructuresPreset
  <2>3. Grids!Begin(r, q)
    BY <2>1
  <2> HIDE DEF grid
  <2>4. StructuresAsked(q)
    BY <2>2 DEF StructuresAsked, Grids!Idle
  <2> HIDE DEF q
  <2> QED
    BY <1>1, <2>3, <2>4
<1>5. CASE Grids!PatchStructure(r)
  <2>1. PICK t \in Tournaments, p \in Presets :
          /\ presets[p].status = "LISTED"
          /\ Grids!Begin(r, [Grids!Idle EXCEPT !.pc = "patch", !.op = "patchStructure",
                             !.tour = t, !.preset = p, !.rows = presets[p].rows])
    BY <1>5 DEF Grids!PatchStructure
  <2> DEFINE q == [Grids!Idle EXCEPT !.pc = "patch", !.op = "patchStructure",
                             !.tour = t, !.preset = p, !.rows = presets[p].rows]
  <2>2. StructuresAsked(q)
    BY <2>1 DEF StructuresAsked, StructuresIInv, StructuresPreset, Grids!Idle
  <2> HIDE DEF q
  <2> QED
    BY <1>1, <2>1, <2>2 DEF q
<1>6. CASE Grids!PatchCut(r)
  <2>1. PICK t \in Tournaments, cut \in Cuts :
          Grids!Begin(r, [Grids!Idle EXCEPT !.pc = "patch", !.op = "patchCut", !.tour = t,
                                            !.cut = cut])
    BY <1>6 DEF Grids!PatchCut
  <2> DEFINE q == [Grids!Idle EXCEPT !.pc = "patch", !.op = "patchCut", !.tour = t, !.cut = cut]
  <2>2. StructuresAsked(q)
    BY DEF StructuresAsked, Grids!Idle
  <2> HIDE DEF q
  <2> QED
    BY <1>1, <2>1, <2>2 DEF q
<1> QED
  BY <1>2, <1>3, <1>4, <1>5, <1>6

\* The rows of a preset are replaced.
LEMMA StructuresInsertLevels ==
  ASSUME StructuresIInv, NEW r \in Reqs, Grids!InsertLevels(r)
  PROVE  StructuresIInv'
<1> DEFINE q == asks[r]
           p == q.preset
           left == IF q.stale THEN presets[p].rows ELSE {}
           new == [presets[p] EXCEPT !.rows = left \cup q.rows]
<1>1. /\ StructuresAsked(q) /\ q.pc = "insert" /\ presets[p].status = "LISTED"
      /\ Grids!UniqueLevels(left, q.rows) /\ tours' = tours
      /\ presets' = [presets EXCEPT ![p].rows = left \cup q.rows]
      /\ asks' = [o \in Reqs |->
           IF o = r THEN Grids!Idle
           ELSE IF asks[o].op = "update" /\ asks[o].preset = q.preset
           THEN [asks[o] EXCEPT !.stale = TRUE] ELSE asks[o]]
  BY DEF Grids!InsertLevels, StructuresIInv
<1>2. \A o \in Reqs : StructuresAsked(asks'[o])
  <2>1. ASSUME NEW o \in Reqs PROVE StructuresAsked([asks[o] EXCEPT !.stale = TRUE])
    BY DEF StructuresIInv, StructuresAsked
  <2> QED
    BY <1>1, <2>1, StructuresIdle DEF StructuresIInv
<1>3. asks' = [o \in Reqs |-> asks'[o]]
  BY <1>1
<1>4. ASSUME p \in Presets PROVE StructuresPreset(new)
  <2>1. StructuresWhole(q.rows) /\ StructuresPreset(presets[p])
    BY <1>1, <1>4 DEF StructuresAsked, StructuresIInv
  <2>2. StructuresWhole(left \cup q.rows)
    <3>1. CASE q.stale
      BY <1>1, <2>1, <3>1, StructuresNeverMix DEF StructuresPreset
    <3>2. CASE ~q.stale
      BY <2>1, <3>2
    <3> QED
      BY <3>1, <3>2
  <2> HIDE DEF left
  <2> QED
    BY <2>1, <2>2 DEF StructuresPreset
<1>5. presets' = [o \in Presets |-> IF o = p THEN new ELSE presets[o]]
  BY <1>1 DEF StructuresIInv
<1> HIDE DEF new
<1>6. \A o \in Presets : StructuresPreset(presets'[o])
  BY <1>4, <1>5 DEF StructuresIInv
<1>7. presets' = [o \in Presets |-> presets'[o]]
  BY <1>5
<1> QED
  BY <1>1, <1>2, <1>3, <1>6, <1>7 DEF StructuresIInv, StructuresTour, StructuresWhole

\* A tournament is written.
LEMMA StructuresTourWritten ==
  ASSUME StructuresIInv, NEW r \in Reqs, NEW t, NEW row, t \in Tournaments => StructuresTour(row),
         tours' = [tours EXCEPT ![t] = row], Grids!Finish(r), presets' = presets
  PROVE  StructuresIInv'
<1>1. tours' = [o \in Tournaments |-> IF o = t THEN row ELSE tours[o]]
  BY DEF StructuresIInv
<1>2. tours' = [o \in Tournaments |-> tours'[o]] /\ \A o \in Tournaments : StructuresTour(tours'[o])
  BY <1>1 DEF StructuresIInv
<1>3. asks' = [o \in Reqs |-> asks'[o]] /\ \A o \in Reqs : StructuresAsked(asks'[o])
  BY StructuresAsk, StructuresIdle DEF Grids!Finish
<1> QED
  BY <1>2, <1>3 DEF StructuresIInv, StructuresPreset, StructuresWhole

\* A tournament starts with the rows that were read for it.
LEMMA StructuresInsertTournament ==
  ASSUME StructuresIInv, NEW r \in Reqs, Grids!InsertTournament(r)
  PROVE  StructuresIInv'
<1> DEFINE q == asks[r]
           row == [status |-> "REGISTERING", structure |-> q.preset, grid |-> q.rows, cut |-> q.cut]
<1>1. q.pc = "create" /\ StructuresAsked(q)
  BY DEF Grids!InsertTournament, StructuresIInv
<1>2. StructuresTour(row)
  BY <1>1 DEF StructuresAsked, StructuresTour
<1>3. tours' = [tours EXCEPT ![q.tour] = row] /\ Grids!Finish(r) /\ presets' = presets
  BY DEF Grids!InsertTournament
<1> HIDE DEF row
<1> QED
  BY <1>2, <1>3, StructuresTourWritten

\* A tournament takes over what its patch carries.
LEMMA StructuresApplyPatch ==
  ASSUME StructuresIInv, NEW r \in Reqs, Grids!ApplyPatch(r)
  PROVE  StructuresIInv'
<1> DEFINE q == asks[r]
           t == q.tour
           cut == [tours[t] EXCEPT !.cut = q.cut]
           copied == [tours[t] EXCEPT !.structure = q.preset, !.grid = q.rows]
<1>1. q.pc = "patch" /\ StructuresAsked(q)
  BY DEF Grids!ApplyPatch, StructuresIInv
<1>2. /\ tours' = [tours EXCEPT ![t] = IF q.op = "patchCut" THEN cut ELSE copied]
      /\ Grids!Finish(r) /\ presets' = presets
  BY DEF Grids!ApplyPatch
<1>3. ASSUME t \in Tournaments
      PROVE  StructuresTour(cut) /\ (q.op # "patchCut" => StructuresTour(copied))
  BY <1>1, <1>3 DEF StructuresAsked, StructuresTour, StructuresIInv
<1> HIDE DEF cut, copied
<1>4. CASE q.op = "patchCut"
  BY <1>2, <1>3, <1>4, StructuresTourWritten
<1>5. CASE q.op # "patchCut"
  BY <1>2, <1>3, <1>5, StructuresTourWritten
<1> QED
  BY <1>4, <1>5

\* A preset is created or deleted.
LEMMA StructuresCreate ==
  ASSUME StructuresIInv, NEW p \in Presets, Grids!Create(p)
  PROVE  StructuresIInv'
<1>1. PICK s \in Grids!ValidSubmissions :
        presets' = [presets EXCEPT ![p] = [status |-> "LISTED", rows |-> Grids!ToSet(s)]]
  BY DEF Grids!Create
<1> DEFINE row == [status |-> "LISTED", rows |-> Grids!ToSet(s)]
<1>2. StructuresPreset(row)
  BY DEF StructuresPreset, StructuresWhole
<1> HIDE DEF row
<1>3. presets' = [o \in Presets |-> IF o = p THEN row ELSE presets[o]]
  BY <1>1 DEF StructuresIInv, row
<1>4. presets' = [o \in Presets |-> presets'[o]] /\ \A o \in Presets : StructuresPreset(presets'[o])
  BY <1>2, <1>3 DEF StructuresIInv
<1>5. UNCHANGED <<tours, asks>>
  BY DEF Grids!Create
<1> QED
  BY <1>4, <1>5 DEF StructuresIInv, StructuresTour, StructuresAsked, StructuresWhole

\* A preset that nobody uses goes, with its rows.
LEMMA StructuresDeletePreset ==
  ASSUME StructuresIInv, NEW r \in Reqs, Grids!DeletePreset(r)
  PROVE  StructuresIInv'
<1> DEFINE p == asks[r].preset
           row == [status |-> "DELETED", rows |-> {}]
<1>1. /\ presets' = [presets EXCEPT ![p] = row]
      /\ tours' = [t \in Tournaments |->
           IF tours[t].structure = p THEN [tours[t] EXCEPT !.structure = None] ELSE tours[t]]
      /\ Grids!Finish(r)
  BY DEF Grids!DeletePreset
<1>2. StructuresPreset(row)
  BY DEF StructuresPreset
<1> HIDE DEF row
<1>3. presets' = [o \in Presets |-> IF o = p THEN row ELSE presets[o]]
  BY <1>1 DEF StructuresIInv
<1>4. presets' = [o \in Presets |-> presets'[o]] /\ \A o \in Presets : StructuresPreset(presets'[o])
  BY <1>2, <1>3 DEF StructuresIInv
<1>5. ASSUME NEW t \in Tournaments
      PROVE  StructuresTour([tours[t] EXCEPT !.structure = None])
  BY DEF StructuresIInv, StructuresTour
<1>6. tours' = [t \in Tournaments |-> tours'[t]] /\ \A t \in Tournaments : StructuresTour(tours'[t])
  BY <1>1, <1>5 DEF StructuresIInv
<1>7. asks' = [o \in Reqs |-> asks'[o]] /\ \A o \in Reqs : StructuresAsked(asks'[o])
  BY <1>1, StructuresAsk, StructuresIdle DEF Grids!Finish
<1> QED
  BY <1>4, <1>6, <1>7 DEF StructuresIInv

\* The rows are being deleted, or a request fails.
LEMMA StructuresNothingWritten ==
  ASSUME StructuresIInv, NEW r \in Reqs, Grids!EraseLevels(r) \/ Grids!Fail(r)
  PROVE  StructuresIInv'
<1>1. CASE Grids!EraseLevels(r)
  <2> DEFINE q == [asks[r] EXCEPT !.pc = "insert"]
  <2>1. StructuresAsked(q)
    BY <1>1 DEF StructuresIInv, StructuresAsked, Grids!EraseLevels
  <2>2. asks' = [asks EXCEPT ![r] = q] /\ UNCHANGED <<presets, tours>>
    BY <1>1 DEF Grids!EraseLevels, Grids!Goto
  <2> HIDE DEF q
  <2> QED
    BY <2>1, <2>2, StructuresAskOnly
<1>2. CASE Grids!Fail(r)
  BY <1>2, StructuresIdle, StructuresAskOnly DEF Grids!Fail, Grids!Finish
<1> QED
  BY <1>1, <1>2

\* Every step of the catalogue and of the tournaments that copy from it.
LEMMA StructuresEveryStep ==
  ASSUME StructuresIInv, [Grids!Next]_(Grids!vars)
  PROVE  StructuresIInv'
<1>1. CASE UNCHANGED Grids!vars
  BY <1>1 DEF Grids!vars, StructuresIInv, StructuresPreset, StructuresTour, StructuresAsked,
              StructuresWhole
<1>2. ASSUME NEW p \in Presets, Grids!Create(p)
      PROVE  StructuresIInv'
  BY <1>2, StructuresCreate
<1>3. ASSUME NEW r \in Reqs,
             \/ Grids!Update(r) \/ Grids!Delete(r) \/ Grids!CreateTournament(r)
             \/ Grids!PatchStructure(r) \/ Grids!PatchCut(r)
      PROVE  StructuresIInv'
  BY <1>3, StructuresBegin
<1>4. ASSUME NEW r \in Reqs, Grids!Proceed(r) \/ Grids!Fail(r)
      PROVE  StructuresIInv'
  BY <1>4, StructuresNothingWritten, StructuresInsertLevels, StructuresDeletePreset,
     StructuresInsertTournament, StructuresApplyPatch DEF Grids!Proceed
<1> QED
  BY <1>1, <1>2, <1>3, <1>4, Zenon DEF Grids!Next

\* Nothing is there at the start.
LEMMA StructuresInitially ==
  ASSUME Grids!Init
  PROVE  StructuresIInv
<1>1. \A p \in Presets : presets[p] = Grids!NoPreset
  BY DEF Grids!Init
<1>2. \A t \in Tournaments : tours[t] = Grids!NoTour
  BY DEF Grids!Init
<1>3. \A r \in Reqs : asks[r] = Grids!Idle
  BY DEF Grids!Init
<1>4. /\ presets = [p \in Presets |-> presets[p]] /\ tours = [t \in Tournaments |-> tours[t]]
      /\ asks = [r \in Reqs |-> asks[r]]
  BY DEF Grids!Init
<1>5. StructuresPreset(Grids!NoPreset) /\ StructuresTour(Grids!NoTour)
  BY DEF StructuresPreset, StructuresTour, Grids!NoPreset, Grids!NoTour
<1> QED
  BY <1>1, <1>2, <1>3, <1>4, <1>5, StructuresIdle DEF StructuresIInv

-----------------------------------------------------------------------------
(* The calls to the gateway.                                               *)

\* A result is of an operation of the call, for exactly what it asked.
GatewayTrue(q, r, of) ==
  r.id \in of /\ Gateway!Thousandths(r.amount) = Gateway!Thousandths(q.asked)

\* A call: each further attempt but the first comes after one that was not clear.
GatewayCall(q) ==
  /\ DOMAIN q = {"pc", "op", "asked", "id", "attempt", "unclear", "outcome", "result"}
  /\ q.attempt \in 0 .. 2 /\ q.unclear \in Nat /\ q.attempt <= q.unclear + 1
  /\ q.pc = "idle" => q.attempt = 0
  /\ q.pc = "send" => q.attempt < 2 /\ q.attempt <= q.unclear
  /\ q.pc = "wait" => q.attempt >= 1
  /\ q.pc # "ended" => q.outcome = None
  /\ q.outcome = "invalidAmount" => q.attempt = 0
  /\ q.outcome = "done" => q.attempt >= 1
  /\ q.op # "get" /\ (q.pc \in {"send", "wait"} \/ q.attempt >= 1) =>
       q.asked \in Decimals /\ Gateway!ValidAmount(q.asked)

\* Its requests, as far as there are any, and what was said of them.
GatewayWire(q, w, of) ==
  /\ w = [a \in 1 .. 2 |-> w[a]]
  /\ \A a \in 1 .. 2 :
       /\ DOMAIN w[a] = {"state", "result"}
       /\ w[a].state \in {"none", "sent", "ok", "malformed", "4xx", "5xx"}
       /\ w[a].state = "none" <=> a > q.attempt
       /\ w[a].state = "ok" /\ q.op # "get" => GatewayTrue(q, w[a].result, of)
  /\ q.outcome = "done" /\ q.op # "get" => GatewayTrue(q, q.result, of)
  /\ q.outcome = "refused" => q.attempt >= 1 /\ w[q.attempt].state = "4xx"

\* A request that was not carried out, or not yet.
GatewaySpared(answer) == IF answer.state \in {"sent", "4xx"} THEN 1 ELSE 0

\* Each request is carried out once at most.
GatewayCount(q, w, of) ==
  /\ IsFiniteSet(of)
  /\ Cardinality(of) + GatewaySpared(w[1]) + GatewaySpared(w[2]) <= q.attempt

GatewaySound(q, w, of) == GatewayCall(q) /\ GatewayWire(q, w, of) /\ GatewayCount(q, w, of)

GatewayOperation == [ref : Orders, cents : Nat, raw : RawStatuses \cup {"PENDING"}]

GatewayIInv ==
  /\ operations \in Seq(GatewayOperation)
  /\ order = [o \in Orders |-> order[o]] /\ wire = [o \in Orders |-> wire[o]]
  /\ \A o \in Orders : GatewaySound(order[o], wire[o], Gateway!Of(o))

\* The amount of the gateway's answer is the one that was sent, to the thousandth.
LEMMA GatewayDivides ==
  ASSUME NEW n \in Nat
  PROVE  /\ \A r \in 0 .. 9 : (10 * n + r) \div 10 = n /\ (10 * n + r) % 10 = r
         /\ \A r \in 0 .. 99 : (100 * n + r) \div 100 = n
<1>1. ASSUME NEW r \in 0 .. 9 PROVE (10 * n + r) \div 10 = n
  OBVIOUS
<1>2. ASSUME NEW r \in 0 .. 9 PROVE (10 * n + r) % 10 = r
  OBVIOUS
<1>3. ASSUME NEW r \in 0 .. 99 PROVE (100 * n + r) \div 100 = n
  OBVIOUS
<1> QED
  BY <1>1, <1>2, <1>3

\* An amount by its digits, of which those that are missing are zero.
GatewayDigits(d, a, b) ==
  /\ d.whole \in Nat /\ a \in 0 .. 9 /\ b \in 0 .. 9 /\ Len(d.frac) \in {0, 1, 2}
  /\ Len(d.frac) > 0 => d.frac[1] = a
  /\ Len(d.frac) > 1 => d.frac[2] = b
  /\ Len(d.frac) = 0 => a = 0
  /\ Len(d.frac) < 2 => b = 0

\* What is left of a number is its last digits.
LEMMA GatewayReads ==
  ASSUME NEW d, NEW a, NEW b, GatewayDigits(d, a, b)
  PROVE  Gateway!Thousandths(d) = 1000 * d.whole + 100 * a + 10 * b
<1>1. (IF Len(d.frac) > 0 THEN 100 * d.frac[1] ELSE 0) = 100 * a
  BY DEF GatewayDigits
<1>2. (IF Len(d.frac) > 1 THEN 10 * d.frac[2] ELSE 0) = 10 * b
  BY DEF GatewayDigits
<1>3. (IF Len(d.frac) > 2 THEN d.frac[3] ELSE 0) = 0
  BY DEF GatewayDigits
<1>4. d.whole \in Nat /\ a \in Nat /\ b \in Nat
  BY DEF GatewayDigits
<1> QED
  BY <1>1, <1>2, <1>3, <1>4 DEF Gateway!Thousandths

\* A valid amount comes back as it was sent.
LEMMA GatewayAmounts ==
  ASSUME NEW d \in Decimals, Gateway!ValidAmount(d)
  PROVE  /\ Gateway!DecimalStringToCents(d) \in Nat
         /\ Gateway!Thousandths(Gateway!CentsToDecimalString(Gateway!DecimalStringToCents(d)))
              = Gateway!Thousandths(d)
<1> DEFINE f == d.frac
           w == d.whole
           c == Gateway!DecimalStringToCents(d)
           e == Gateway!CentsToDecimalString(c)
<1>1. w \in Nat /\ f \in Seq(0 .. 9) /\ Len(f) <= 2 /\ Len(f) \in Nat
  BY GatewayConstants DEF Gateway!ValidAmount
<1>2. Len(f) \in {0, 1, 2}
  <2>1. \A n \in Nat : n <= 2 => n \in {0, 1, 2}
    OBVIOUS
  <2> HIDE DEF f
  <2> QED
    BY ONLY <1>1, <2>1, Zenon
<1>3. PICK a, b : GatewayDigits(d, a, b)
  <2> DEFINE a == IF Len(f) = 0 THEN 0 ELSE f[1]
             b == IF Len(f) = 2 THEN f[2] ELSE 0
  <2>1. a \in 0 .. 9 /\ b \in 0 .. 9
    BY <1>1, <1>2
  <2>2. /\ Len(f) > 0 => f[1] = a
        /\ Len(f) > 1 => f[2] = b
        /\ Len(f) = 0 => a = 0
        /\ Len(f) < 2 => b = 0
    BY <1>2
  <2> HIDE DEF a, b
  <2>3. GatewayDigits(d, a, b)
    BY <1>1, <1>2, <2>1, <2>2 DEF GatewayDigits
  <2> QED
    BY <2>3
<1>4. c = 100 * w + (10 * a + b)
  <2>1. f = <<>> <=> Len(f) = 0
    BY <1>1, EmptySeq
  <2>2. c = 100 * w + Gateway!PadEnd(f)
    BY DEF Gateway!DecimalStringToCents
  <2> HIDE DEF w, c
  <2>3. CASE Len(f) = 0
    BY <1>3, <2>1, <2>2, <2>3 DEF Gateway!PadEnd, GatewayDigits
  <2>4. CASE Len(f) = 1
    BY <1>3, <2>1, <2>2, <2>4 DEF Gateway!PadEnd, GatewayDigits
  <2>5. CASE Len(f) = 2
    <3>1. Gateway!PadEnd(f) = 10 * f[1] + f[2]
      BY <2>1, <2>5 DEF Gateway!PadEnd
    <3>2. f[1] = a /\ f[2] = b
      BY <1>3, <2>5 DEF GatewayDigits
    <3> QED
      BY <2>2, <3>1, <3>2
  <2> HIDE DEF f
  <2> QED
    BY <1>2, <2>3, <2>4, <2>5
<1>5. Gateway!Thousandths(d) = 1000 * w + 100 * a + 10 * b
  BY <1>3, GatewayReads
<1>6. a \in 0 .. 9 /\ b \in 0 .. 9
  BY <1>3 DEF GatewayDigits
<1> HIDE DEF f, w, c
<1>7. 10 * a + b \in 0 .. 99 /\ 10 * w + a \in Nat /\ c = 10 * (10 * w + a) + b
  BY <1>6, <1>1, <1>4
<1>8. c \div 100 = w
  BY <1>1, <1>4, <1>7, GatewayDivides, ZenonT(60)
<1>9. c \div 10 = 10 * w + a /\ c % 10 = b
  BY <1>6, <1>7, GatewayDivides
<1>10. (10 * w + a) % 10 = a
  BY <1>6, <1>1, GatewayDivides
<1>11. e = [whole |-> w, frac |-> <<a, b>>]
  BY <1>8, <1>9, <1>10 DEF Gateway!CentsToDecimalString
<1>12. Gateway!Thousandths(e) = 1000 * w + 100 * a + 10 * b
  <2>1. e.whole = w /\ Len(e.frac) = 2 /\ e.frac[1] = a /\ e.frac[2] = b
    BY <1>11
  <2> HIDE DEF e
  <2>2. GatewayDigits(e, a, b)
    BY <1>6, <1>1, <2>1 DEF GatewayDigits
  <2> QED
    BY <2>1, <2>2, GatewayReads
<1>13. c \in Nat
  BY <1>6, <1>7
<1> QED
  BY ONLY <1>5, <1>12, <1>13, ZenonT(60) DEF c, e

\* The client's module counts as every other.
LEMMA GatewayCounts == \A S : Gateway!Cardinality(S) = Cardinality(S)
BY DEF Gateway!Cardinality, Cardinality

\* What the two properties say of one call.
GatewayHonest(q, of) ==
  /\ q.outcome = "invalidAmount" \/ (q.outcome = "refused" /\ q.attempt = 1) => of = {}
  /\ q.outcome = "done" /\ q.op # "get" => GatewayTrue(q, q.result, of)
  /\ Cardinality(of) <= 1 + q.unclear /\ Cardinality(of) <= 2

\* What a call ends with is true, and the second operation needs an unclear answer.
LEMMA GatewayIsHonest == GatewayIInv => Gateway!OutcomeIsHonest /\ Gateway!TwiceOnlyIfUnclear
<1>1. ASSUME \A o \in Orders : GatewayHonest(order[o], Gateway!Of(o))
      PROVE  Gateway!OutcomeIsHonest
  BY <1>1 DEF Gateway!OutcomeIsHonest, GatewayHonest, GatewayTrue
<1>2. ASSUME \A o \in Orders : GatewayHonest(order[o], Gateway!Of(o))
      PROVE  Gateway!TwiceOnlyIfUnclear
  BY <1>2, GatewayCounts DEF Gateway!TwiceOnlyIfUnclear, GatewayHonest
<1> SUFFICES ASSUME GatewayIInv, NEW o \in Orders
             PROVE  GatewayHonest(order[o], Gateway!Of(o))
  BY <1>1, <1>2
<1> DEFINE q == order[o]
           w == wire[o]
           of == Gateway!Of(o)
<1>3. GatewayCall(q) /\ GatewayWire(q, w, of) /\ GatewayCount(q, w, of)
  BY DEF GatewayIInv, GatewaySound
<1> HIDE DEF q, w, of
<1>4. Cardinality(of) \in Nat
  BY <1>3, FS_CardinalityType DEF GatewayCount
<1>5. Cardinality(of) + GatewaySpared(w[1]) + GatewaySpared(w[2]) <= q.attempt
      /\ GatewaySpared(w[1]) \in {0, 1} /\ GatewaySpared(w[2]) \in {0, 1}
  BY <1>3 DEF GatewayCount, GatewaySpared
<1>6. Cardinality(of) <= 1 + q.unclear /\ Cardinality(of) <= 2
  BY <1>3, <1>4, <1>5 DEF GatewayCall
<1>7. ASSUME q.outcome = "invalidAmount" \/ (q.outcome = "refused" /\ q.attempt = 1)
      PROVE  of = {}
  <2>1. CASE q.outcome = "invalidAmount"
    <3>1. Cardinality(of) = 0
      BY <1>3, <1>4, <1>5, <2>1 DEF GatewayCall
    <3> QED
      BY <1>3, <3>1, FS_EmptySet DEF GatewayCount
  <2>2. CASE q.outcome = "refused" /\ q.attempt = 1
    <3>1. GatewaySpared(w[1]) = 1
      BY <1>3, <2>2 DEF GatewayWire, GatewaySpared
    <3>2. Cardinality(of) = 0
      BY <1>4, <1>5, <2>2, <3>1
    <3> QED
      BY <1>3, <3>2, FS_EmptySet DEF GatewayCount
  <2> QED
    BY <1>7, <2>1, <2>2
<1>8. q.outcome = "done" /\ q.op # "get" => GatewayTrue(q, q.result, of)
  BY <1>3 DEF GatewayWire
<1> QED
  BY <1>6, <1>7, <1>8 DEF GatewayHonest, q, of

\* One call and its requests change, while the gateway does nothing.
LEMMA GatewayMoves ==
  ASSUME GatewayIInv, NEW o \in Orders, NEW q, NEW w,
         order' = [order EXCEPT ![o] = q], wire' = [wire EXCEPT ![o] = w],
         GatewaySound(q, w, Gateway!Of(o)), operations' = operations
  PROVE  GatewayIInv'
<1>1. /\ order' = [p \in Orders |-> IF p = o THEN q ELSE order[p]]
      /\ wire' = [p \in Orders |-> IF p = o THEN w ELSE wire[p]]
  BY DEF GatewayIInv
<1>2. \A p \in Orders : Gateway!Of(p)' = Gateway!Of(p)
  BY DEF Gateway!Of
<1>3. \A p \in Orders : GatewaySound(order'[p], wire'[p], Gateway!Of(p))
  BY <1>1 DEF GatewayIInv
<1>4. \A p \in Orders : GatewaySound(order[p], wire[p], Gateway!Of(p))'
  BY <1>2, <1>3
<1> QED
  BY <1>1, <1>4 DEF GatewayIInv

\* The call alone.
LEMMA GatewayOrderMoves ==
  ASSUME GatewayIInv, NEW o \in Orders, NEW q,
         order' = [order EXCEPT ![o] = q], UNCHANGED <<wire, operations>>,
         GatewaySound(q, wire[o], Gateway!Of(o))
  PROVE  GatewayIInv'
<1>1. wire' = [wire EXCEPT ![o] = wire[o]]
  BY DEF GatewayIInv
<1> QED
  BY <1>1, GatewayMoves

\* A call is asked for.
LEMMA GatewayAsked ==
  ASSUME GatewayIInv, NEW o \in Orders, NEW op \in {"charge", "withdrawal"}, NEW d \in Decimals,
         Gateway!Ask(o, op, d)
  PROVE  GatewayIInv'
<1> DEFINE q == order[o]
           named == [q EXCEPT !.op = op, !.asked = d]
           next == IF Gateway!ValidAmount(d) THEN [named EXCEPT !.pc = "send"]
                   ELSE Gateway!Ended(named, "invalidAmount")
<1>1. order' = [order EXCEPT ![o] = next] /\ UNCHANGED <<wire, operations>> /\ q.pc = "idle"
  BY DEF Gateway!Ask
<1>2. /\ GatewayCall(q) /\ GatewayWire(q, wire[o], Gateway!Of(o))
      /\ GatewayCount(q, wire[o], Gateway!Of(o))
  BY DEF GatewayIInv, GatewaySound
<1>3. q.attempt = 0 /\ q.outcome = None
  BY <1>1, <1>2 DEF GatewayCall
<1>4. /\ DOMAIN next = DOMAIN q /\ next.op = op /\ next.asked = d
      /\ next.attempt = 0 /\ next.unclear = q.unclear
      /\ \/ Gateway!ValidAmount(d) /\ next.pc = "send" /\ next.outcome = None
         \/ next.pc = "ended" /\ next.outcome = "invalidAmount"
  BY <1>2, <1>3 DEF Gateway!Ended, GatewayCall
<1> HIDE DEF next, q
<1>5. GatewayCall(next)
  BY <1>2, <1>4, GatewayConstants DEF GatewayCall
<1>6. GatewayWire(next, wire[o], Gateway!Of(o))
  BY <1>2, <1>3, <1>4, GatewayConstants DEF GatewayWire
<1>7. GatewayCount(next, wire[o], Gateway!Of(o))
  BY <1>2, <1>3, <1>4 DEF GatewayCount
<1> QED
  BY <1>1, <1>5, <1>6, <1>7, GatewayOrderMoves DEF GatewaySound

\* A status is asked for.
LEMMA GatewayGet ==
  ASSUME GatewayIInv, NEW o \in Orders, Gateway!GetPixCharge(o)
  PROVE  GatewayIInv'
<1>1. PICK p \in Orders : order' =
        [order EXCEPT ![o].pc = "send", ![o].op = "get", ![o].id = order[p].result.id]
  BY DEF Gateway!GetPixCharge
<1> DEFINE q == order[o]
           next == [q EXCEPT !.pc = "send", !.op = "get", !.id = order[p].result.id]
<1>2. order' = [order EXCEPT ![o] = next]
  BY <1>1 DEF GatewayIInv
<1>3. UNCHANGED <<wire, operations>> /\ q.pc = "idle"
  BY DEF Gateway!GetPixCharge
<1>4. /\ GatewayCall(q) /\ GatewayWire(q, wire[o], Gateway!Of(o))
      /\ GatewayCount(q, wire[o], Gateway!Of(o))
  BY DEF GatewayIInv, GatewaySound
<1>5. /\ DOMAIN next = DOMAIN q /\ next.op = "get" /\ next.pc = "send"
      /\ next.attempt = 0 /\ next.unclear = q.unclear /\ next.outcome = None /\ q.attempt = 0
  BY <1>3, <1>4 DEF GatewayCall
<1> HIDE DEF next, q
<1>6. GatewayCall(next)
  BY <1>4, <1>5, GatewayConstants DEF GatewayCall
<1>7. GatewayWire(next, wire[o], Gateway!Of(o))
  BY <1>4, <1>5, GatewayConstants DEF GatewayWire
<1>8. GatewayCount(next, wire[o], Gateway!Of(o))
  BY <1>4, <1>5 DEF GatewayCount
<1> QED
  BY <1>2, <1>3, <1>6, <1>7, <1>8, GatewayOrderMoves DEF GatewaySound

\* An attempt leaves.
LEMMA GatewaySends ==
  ASSUME GatewayIInv, NEW o \in Orders, Gateway!Send(o)
  PROVE  GatewayIInv'
<1> DEFINE q == order[o]
           a == q.attempt + 1
           next == [q EXCEPT !.pc = "wait", !.attempt = a]
           w == wire[o]
           answer == [state |-> "sent", result |-> None]
           sentAs == [w EXCEPT ![a] = answer]
<1>1. q.pc = "send" /\ operations' = operations
  BY DEF Gateway!Send
<1>2. order' = [order EXCEPT ![o] = next] /\ wire' = [wire EXCEPT ![o] = sentAs]
  BY DEF Gateway!Send, Gateway!NoAnswerYet, GatewayIInv
<1>3. GatewayCall(q) /\ GatewayWire(q, w, Gateway!Of(o)) /\ GatewayCount(q, w, Gateway!Of(o))
  BY DEF GatewayIInv, GatewaySound
<1>4. a \in 1 .. 2 /\ q.attempt \in {0, 1} /\ q.attempt <= q.unclear /\ q.outcome = None
  BY <1>1, <1>3 DEF GatewayCall
<1>5. /\ DOMAIN next = DOMAIN q /\ next.op = q.op /\ next.pc = "wait" /\ next.asked = q.asked
      /\ next.attempt = a /\ next.unclear = q.unclear /\ next.outcome = None
  BY <1>3, <1>4 DEF GatewayCall
<1>6. sentAs = [b \in 1 .. 2 |-> IF b = a THEN answer ELSE w[b]]
  BY <1>3 DEF GatewayWire
<1>7. w[a].state = "none" /\ GatewaySpared(w[a]) = 0 /\ GatewaySpared(sentAs[a]) = 1
  BY <1>3, <1>4, <1>6 DEF GatewayWire, GatewaySpared
<1> HIDE DEF next, q, a, w, sentAs
<1>8. GatewayCall(next)
  BY <1>1, <1>3, <1>4, <1>5, GatewayConstants DEF GatewayCall, a
<1>9. GatewayWire(next, sentAs, Gateway!Of(o))
  BY <1>3, <1>4, <1>5, <1>6, GatewayConstants DEF GatewayWire, GatewayTrue, a
<1>10. GatewayCount(next, sentAs, Gateway!Of(o))
  <2>1. IsFiniteSet(Gateway!Of(o)) /\ Cardinality(Gateway!Of(o)) \in Nat
    BY <1>3, FS_CardinalityType DEF GatewayCount
  <2>2. \A b \in 1 .. 2 : b # a => sentAs[b] = w[b]
    BY <1>6
  <2>3. /\ GatewaySpared(w[1]) \in {0, 1} /\ GatewaySpared(w[2]) \in {0, 1}
        /\ GatewaySpared(sentAs[1]) \in {0, 1} /\ GatewaySpared(sentAs[2]) \in {0, 1}
    BY DEF GatewaySpared
  <2>4. GatewaySpared(sentAs[1]) + GatewaySpared(sentAs[2])
          = GatewaySpared(w[1]) + GatewaySpared(w[2]) + 1
    BY <1>4, <1>7, <2>2, <2>3
  <2>5. Cardinality(Gateway!Of(o)) + GatewaySpared(w[1]) + GatewaySpared(w[2]) <= q.attempt
    BY <1>3 DEF GatewayCount
  <2> QED
    BY <1>4, <1>5, <2>1, <2>3, <2>4, <2>5 DEF GatewayCount, a
<1> QED
  BY <1>1, <1>2, <1>8, <1>9, <1>10, GatewayMoves DEF GatewaySound, q, w

\* The answer of a request whose fate is known by now.
LEMMA GatewayAnswerSound ==
  ASSUME NEW q, NEW w, NEW of, GatewayCall(q), GatewayWire(q, w, of),
         NEW a \in 1 .. 2, w[a].state = "sent",
         NEW answer, DOMAIN answer = {"state", "result"},
         answer.state \in {"ok", "malformed", "4xx", "5xx"},
         answer.state = "ok" /\ q.op # "get" => GatewayTrue(q, answer.result, of)
  PROVE  /\ GatewayWire(q, [w EXCEPT ![a] = answer], of)
         /\ GatewaySpared([w EXCEPT ![a] = answer][1]) + GatewaySpared([w EXCEPT ![a] = answer][2])
              <= GatewaySpared(w[1]) + GatewaySpared(w[2])
         /\ answer.state # "4xx" =>
              GatewaySpared([w EXCEPT ![a] = answer][1])
                + GatewaySpared([w EXCEPT ![a] = answer][2])
                = GatewaySpared(w[1]) + GatewaySpared(w[2]) - 1
<1> DEFINE v == [w EXCEPT ![a] = answer]
<1>1. GatewayCall(q) /\ GatewayWire(q, w, of)
  OBVIOUS
<1>2. v = [b \in 1 .. 2 |-> IF b = a THEN answer ELSE w[b]]
  BY <1>1 DEF GatewayWire
<1> HIDE DEF v
<1>3. GatewayWire(q, v, of)
  BY <1>1, <1>2 DEF GatewayWire, GatewayCall
<1>4. /\ GatewaySpared(w[a]) = 1
      /\ GatewaySpared(v[a]) = IF answer.state = "4xx" THEN 1 ELSE 0
      /\ \A b \in 1 .. 2 : b # a => v[b] = w[b]
  BY <1>2 DEF GatewaySpared
<1>5. \A x : GatewaySpared(x) \in {0, 1}
  BY DEF GatewaySpared
<1> QED
  BY <1>3, <1>4, <1>5 DEF v

\* Fewer requests spared, and as many operations; or one less, and one operation more.
LEMMA GatewayFewer ==
  ASSUME NEW q, NEW w, NEW v, NEW of, GatewayCall(q), GatewayCount(q, w, of),
         GatewaySpared(v[1]) + GatewaySpared(v[2]) <= GatewaySpared(w[1]) + GatewaySpared(w[2])
  PROVE  GatewayCount(q, v, of)
<1>1. IsFiniteSet(of) /\ Cardinality(of) \in Nat /\ q.attempt \in Nat
      /\ Cardinality(of) + GatewaySpared(w[1]) + GatewaySpared(w[2]) <= q.attempt
  BY FS_CardinalityType DEF GatewayCount, GatewayCall
<1>2. \A x : GatewaySpared(x) \in {0, 1}
  BY DEF GatewaySpared
<1> QED
  BY <1>1, <1>2 DEF GatewayCount

\* The request that was spared is not any longer, and is the operation that is new.
LEMMA GatewayOneMore ==
  ASSUME NEW q, NEW w, NEW v, NEW of, NEW n, GatewayCall(q), GatewayCount(q, w, of), n \notin of,
         GatewaySpared(v[1]) + GatewaySpared(v[2]) = GatewaySpared(w[1]) + GatewaySpared(w[2]) - 1
  PROVE  GatewayCount(q, v, of \cup {n})
<1>1. IsFiniteSet(of) /\ Cardinality(of) \in Nat /\ q.attempt \in Nat
      /\ Cardinality(of) + GatewaySpared(w[1]) + GatewaySpared(w[2]) <= q.attempt
  BY FS_CardinalityType DEF GatewayCount, GatewayCall
<1>2. \A x : GatewaySpared(x) \in {0, 1}
  BY DEF GatewaySpared
<1>3. IsFiniteSet(of \cup {n}) /\ Cardinality(of \cup {n}) = Cardinality(of) + 1
  BY <1>1, FS_AddElement
<1> QED
  BY <1>1, <1>2, <1>3 DEF GatewayCount

\* A request is turned down.
LEMMA GatewayTurnsDown ==
  ASSUME GatewayIInv, NEW o \in Orders, NEW a \in 1 .. 2, Gateway!TurnsDown(o, a)
  PROVE  GatewayIInv'
<1>1. PICK state \in {"4xx", "5xx"} : wire' =
        [wire EXCEPT ![o][a] = [state |-> state, result |-> None]]
  BY DEF Gateway!TurnsDown, Gateway!Answers
<1> DEFINE answer == [state |-> state, result |-> None]
           w == wire[o]
           v == [w EXCEPT ![a] = answer]
           of == Gateway!Of(o)
<1>2. GatewaySound(order[o], w, of) /\ w[a].state = "sent"
  BY DEF GatewayIInv, Gateway!TurnsDown
<1>3. DOMAIN answer = {"state", "result"} /\ answer.state = state
  OBVIOUS
<1> HIDE DEF answer
<1>4. wire' = [wire EXCEPT ![o] = v] /\ UNCHANGED <<order, operations>>
  BY <1>1 DEF GatewayIInv, Gateway!TurnsDown, answer
<1> HIDE DEF w, of
<1>5. /\ GatewayWire(order[o], v, of)
      /\ GatewaySpared(v[1]) + GatewaySpared(v[2]) <= GatewaySpared(w[1]) + GatewaySpared(w[2])
  BY <1>2, <1>3, GatewayAnswerSound DEF GatewaySound
<1> HIDE DEF v
<1>6. GatewayCount(order[o], v, of)
  BY <1>2, <1>5, GatewayFewer DEF GatewaySound
<1>7. GatewaySound(order[o], v, of)
  BY <1>2, <1>5, <1>6 DEF GatewaySound
<1>8. order' = [order EXCEPT ![o] = order[o]]
  BY <1>4 DEF GatewayIInv
<1> QED
  BY <1>4, <1>7, <1>8, GatewayMoves DEF of

\* What comes back, or not.
LEMMA GatewayFailed ==
  ASSUME NEW q, NEW w, NEW of, GatewaySound(q, w, of), q.pc = "wait",
         NEW kind \in {"client", "server", "network", "unknown"},
         kind = "client" => w[q.attempt].state = "4xx"
  PROVE  GatewaySound(Gateway!Failed(q, kind), w, of)
<1> DEFINE seen == IF kind = "unknown" THEN q ELSE [q EXCEPT !.unclear = @ + 1]
           next == Gateway!Failed(q, kind)
<1>1. GatewayCall(q) /\ GatewayWire(q, w, of) /\ GatewayCount(q, w, of)
  BY DEF GatewaySound
<1>2. /\ DOMAIN seen = DOMAIN q /\ seen.op = q.op /\ seen.pc = "wait" /\ seen.asked = q.asked
      /\ seen.attempt = q.attempt /\ seen.outcome = None /\ seen.unclear \in Nat
      /\ seen.unclear >= q.unclear /\ (kind # "unknown" => seen.unclear = q.unclear + 1)
  BY <1>1 DEF GatewayCall
<1>3. next = CASE kind = "client" -> Gateway!Ended(q, "refused")
               [] kind # "client" /\ Gateway!Retryable(kind) /\ q.attempt < Gateway!MAX_ATTEMPTS ->
                    [seen EXCEPT !.pc = "send"]
               [] OTHER -> Gateway!Ended(seen, "unavailable")
  BY DEF Gateway!Failed
<1> HIDE DEF seen
<1>4. /\ DOMAIN next = DOMAIN q /\ next.op = q.op /\ next.asked = q.asked
      /\ next.attempt = q.attempt /\ next.unclear \in Nat /\ next.unclear >= q.unclear
      /\ \/ kind = "client" /\ next.pc = "ended" /\ next.outcome = "refused"
         \/ /\ next.pc = "send" /\ next.outcome = None
            /\ q.attempt < 2 /\ next.unclear = q.unclear + 1
         \/ next.pc = "ended" /\ next.outcome = "unavailable"
  <2>1. CASE kind = "client"
    <3>1. next = Gateway!Ended(q, "refused")
      BY <1>3, <2>1
    <3> HIDE DEF next
    <3> QED
      BY <1>1, <2>1, <3>1 DEF Gateway!Ended, GatewayCall
  <2>2. CASE kind # "client" /\ Gateway!Retryable(kind) /\ q.attempt < Gateway!MAX_ATTEMPTS
    <3>1. next = [seen EXCEPT !.pc = "send"] /\ kind # "unknown" /\ q.attempt < 2
      BY <1>3, <2>2 DEF Gateway!Retryable, Gateway!MAX_ATTEMPTS
    <3> QED
      BY <1>1, <1>2, <3>1 DEF GatewayCall
  <2>3. CASE kind # "client" /\ ~(Gateway!Retryable(kind) /\ q.attempt < Gateway!MAX_ATTEMPTS)
    <3>1. next = Gateway!Ended(seen, "unavailable")
      BY <1>3, <2>3
    <3> QED
      BY <1>1, <1>2, <3>1 DEF Gateway!Ended, GatewayCall
  <2> QED
    BY <2>1, <2>2, <2>3
<1> HIDE DEF next
<1>5. GatewayCall(next)
  BY <1>1, <1>4, GatewayConstants DEF GatewayCall
<1>6. GatewayWire(next, w, of)
  BY <1>1, <1>4, GatewayConstants DEF GatewayWire, GatewayTrue, GatewayCall
<1>7. GatewayCount(next, w, of)
  BY <1>1, <1>4 DEF GatewayCount
<1> QED
  BY <1>5, <1>6, <1>7 DEF GatewaySound, next

\* The client hears what became of its request.
LEMMA GatewayReceives ==
  ASSUME GatewayIInv, NEW o \in Orders,
         Gateway!Receive(o) \/ Gateway!NoAnswer(o) \/ Gateway!Defect(o)
  PROVE  GatewayIInv'
<1> DEFINE q == order[o]
           w == wire[o]
           of == Gateway!Of(o)
           answer == w[q.attempt]
<1>1. q.pc = "wait" /\ UNCHANGED <<wire, operations>> /\ GatewaySound(q, w, of)
  BY DEF GatewayIInv, Gateway!Receive, Gateway!NoAnswer, Gateway!Defect
<1>2. CASE Gateway!NoAnswer(o)
  <2>1. order' = [order EXCEPT ![o] = Gateway!Failed(q, "network")]
    BY <1>2 DEF Gateway!NoAnswer
  <2> QED
    BY <1>1, <2>1, GatewayFailed, GatewayOrderMoves
<1>3. CASE Gateway!Defect(o)
  <2>1. order' = [order EXCEPT ![o] = Gateway!Failed(q, "unknown")]
    BY <1>3 DEF Gateway!Defect
  <2> QED
    BY <1>1, <2>1, GatewayFailed, GatewayOrderMoves
<1>4. CASE Gateway!Receive(o)
  <2>1. answer.state \in {"ok", "malformed", "4xx", "5xx"}
    <3>1. q.attempt \in 1 .. 2 /\ answer.state # "sent"
      BY <1>1, <1>4 DEF GatewaySound, GatewayCall, Gateway!Receive
    <3> QED
      BY <1>1, <3>1 DEF GatewaySound, GatewayWire
  <2> DEFINE done == [Gateway!Ended(q, "done") EXCEPT !.result = answer.result]
             odd == Gateway!Ended(q, "unexpected")
  <2>2. order' = [order EXCEPT ![o] =
           CASE answer.state = "ok" -> done
             [] answer.state = "malformed" -> odd
             [] OTHER -> Gateway!Failed(q, Gateway!Classify(answer.state))]
    BY <1>4 DEF Gateway!Receive
  <2>3. CASE answer.state = "ok"
    <3>1. order' = [order EXCEPT ![o] = done]
      BY <2>2, <2>3
    <3>2. GatewayCall(q) /\ GatewayWire(q, w, of) /\ GatewayCount(q, w, of) /\ q.attempt \in 1 .. 2
      BY <1>1 DEF GatewaySound, GatewayCall
    <3>3. /\ DOMAIN done = DOMAIN q /\ done.op = q.op /\ done.asked = q.asked
          /\ done.attempt = q.attempt /\ done.unclear = q.unclear /\ done.pc = "ended"
          /\ done.outcome = "done" /\ done.result = answer.result
      BY <3>2 DEF Gateway!Ended, GatewayCall
    <3>4. q.op # "get" => GatewayTrue(q, answer.result, of)
      BY <2>3, <3>2 DEF GatewayWire
    <3> HIDE DEF done
    <3>5. GatewayCall(done)
      BY <1>1, <3>2, <3>3 DEF GatewayCall
    <3>6. GatewayWire(done, w, of)
      BY <3>2, <3>3, <3>4 DEF GatewayWire, GatewayTrue
    <3>7. GatewayCount(done, w, of)
      BY <3>2, <3>3 DEF GatewayCount
    <3> QED
      BY <1>1, <3>1, <3>5, <3>6, <3>7, GatewayOrderMoves DEF GatewaySound
  <2>4. CASE answer.state = "malformed"
    <3>1. order' = [order EXCEPT ![o] = odd]
      BY <2>2, <2>4
    <3>2. GatewayCall(q) /\ GatewayWire(q, w, of) /\ GatewayCount(q, w, of) /\ q.attempt \in 1 .. 2
      BY <1>1 DEF GatewaySound, GatewayCall
    <3>3. /\ DOMAIN odd = DOMAIN q /\ odd.op = q.op /\ odd.asked = q.asked
          /\ odd.attempt = q.attempt /\ odd.unclear = q.unclear /\ odd.pc = "ended"
          /\ odd.outcome = "unexpected"
      BY <3>2 DEF Gateway!Ended, GatewayCall
    <3> HIDE DEF odd
    <3>4. GatewayCall(odd)
      BY <1>1, <3>2, <3>3 DEF GatewayCall
    <3>5. GatewayWire(odd, w, of)
      BY <3>2, <3>3 DEF GatewayWire, GatewayTrue
    <3>6. GatewayCount(odd, w, of)
      BY <3>2, <3>3 DEF GatewayCount
    <3> QED
      BY <1>1, <3>1, <3>4, <3>5, <3>6, GatewayOrderMoves DEF GatewaySound
  <2>5. CASE answer.state \in {"4xx", "5xx"}
    <3> DEFINE kind == Gateway!Classify(answer.state)
    <3>1. kind \in {"client", "server"} /\ (kind = "client" => answer.state = "4xx")
      BY <2>5 DEF Gateway!Classify
    <3>2. order' = [order EXCEPT ![o] = Gateway!Failed(q, kind)]
      BY <2>2, <2>5
    <3> HIDE DEF kind
    <3> QED
      BY <1>1, <3>1, <3>2, GatewayFailed, GatewayOrderMoves
  <2> QED
    BY <2>1, <2>3, <2>4, <2>5
<1> QED
  BY <1>2, <1>3, <1>4

\* A request is carried out: one operation more, of this call.
LEMMA GatewayCarriesOut ==
  ASSUME GatewayIInv, NEW o \in Orders, NEW a \in 1 .. 2, Gateway!CarriesOut(o, a)
  PROVE  GatewayIInv'
<1> DEFINE q == order[o]
           w == wire[o]
           of == Gateway!Of(o)
           cents == Gateway!DecimalStringToCents(q.asked)
           new == [ref |-> o, cents |-> cents, raw |-> "PENDING"]
           n == Len(operations) + 1
<1>1. GatewaySound(q, w, of) /\ w[a].state = "sent" /\ order' = order
  BY DEF GatewayIInv, Gateway!CarriesOut
<1>2. GatewayCall(q) /\ GatewayWire(q, w, of) /\ GatewayCount(q, w, of)
  BY <1>1 DEF GatewaySound
<1>3. q.attempt >= 1
  BY <1>1, <1>2 DEF GatewayWire, GatewayCall
<1>4. PICK answer : /\ wire' = [wire EXCEPT ![o][a] = answer]
                    /\ DOMAIN answer = {"state", "result"}
                    /\ answer.state \in {"ok", "malformed", "5xx"}
                    /\ answer.state = "ok" /\ q.op # "get" =>
                         answer.result = Gateway!Result(q.op, n, new)
  <2> DEFINE Fits(x) == /\ wire' = [wire EXCEPT ![o][a] = x]
                        /\ DOMAIN x = {"state", "result"}
                        /\ x.state \in {"ok", "malformed", "5xx"}
                        /\ x.state = "ok" /\ q.op # "get" => x.result = Gateway!Result(q.op, n, new)
  <2>1. ASSUME q.op = "get",
               Gateway!Answers(o, a, "ok", Gateway!Result(q.op, q.id, operations[q.id]))
        PROVE  \E x : Fits(x)
    <3> DEFINE x == [state |-> "ok", result |-> Gateway!Result(q.op, q.id, operations[q.id])]
    <3>1. wire' = [wire EXCEPT ![o][a] = x]
      BY <2>1, Zenon DEF Gateway!Answers
    <3>2. DOMAIN x = {"state", "result"} /\ x.state = "ok"
      OBVIOUS
    <3> HIDE DEF x
    <3>3. Fits(x)
      BY <2>1, <3>1, <3>2
    <3> QED
      BY <3>3
  <2>2. ASSUME Gateway!Answers(o, a, "ok", Gateway!Result(q.op, n, new))
        PROVE  \E x : Fits(x)
    <3> DEFINE x == [state |-> "ok", result |-> Gateway!Result(q.op, n, new)]
    <3>1. wire' = [wire EXCEPT ![o][a] = x]
      BY <2>2, Zenon DEF Gateway!Answers
    <3>2. /\ DOMAIN x = {"state", "result"} /\ x.state = "ok"
          /\ x.result = Gateway!Result(q.op, n, new)
      OBVIOUS
    <3> HIDE DEF x
    <3>3. Fits(x)
      BY <3>1, <3>2
    <3> QED
      BY <3>3
  <2>3. ASSUME NEW state \in {"malformed", "5xx"}, Gateway!Answers(o, a, state, None)
        PROVE  \E x : Fits(x)
    <3> DEFINE x == [state |-> state, result |-> None]
    <3>1. wire' = [wire EXCEPT ![o][a] = x]
      BY <2>3, Zenon DEF Gateway!Answers
    <3>2. DOMAIN x = {"state", "result"} /\ x.state = state
      OBVIOUS
    <3> HIDE DEF x
    <3>3. Fits(x)
      BY <3>1, <3>2
    <3> QED
      BY <3>3
  <2> HIDE DEF Fits
  <2>4. \E x : Fits(x)
    BY <2>1, <2>2, <2>3 DEF Gateway!CarriesOut
  <2> QED
    BY <2>4 DEF Fits
<1> DEFINE v == [w EXCEPT ![a] = answer]
<1>5. wire' = [wire EXCEPT ![o] = v]
  BY <1>4 DEF GatewayIInv
<1>6. CASE q.op = "get"
  <2>1. operations' = operations
    BY <1>6 DEF Gateway!CarriesOut
  <2>2. order' = [order EXCEPT ![o] = q]
    BY <1>1 DEF GatewayIInv
  <2> HIDE DEF q, w, of, v
  <2>3. /\ GatewayWire(q, v, of)
        /\ GatewaySpared(v[1]) + GatewaySpared(v[2]) <= GatewaySpared(w[1]) + GatewaySpared(w[2])
    BY <1>1, <1>2, <1>4, <1>6, GatewayAnswerSound DEF v
  <2>4. GatewayCount(q, v, of)
    BY <1>2, <2>3, GatewayFewer
  <2> QED
    BY <1>2, <1>5, <2>1, <2>2, <2>3, <2>4, GatewayMoves DEF GatewaySound, of
<1>7. CASE q.op # "get"
  <2>1. operations' = Append(operations, new)
    BY <1>7 DEF Gateway!CarriesOut
  <2>2. q.asked \in Decimals /\ Gateway!ValidAmount(q.asked)
    BY <1>2, <1>3, <1>7 DEF GatewayCall
  <2>3. cents \in Nat
    BY <2>2, GatewayAmounts
  <2>4. new \in GatewayOperation /\ new.ref = o /\ new.cents = cents
    BY <2>3 DEF GatewayOperation
  <2> HIDE DEF new
  <2>5. operations' \in Seq(GatewayOperation)
    BY <2>1, <2>4 DEF GatewayIInv
  <2>6. /\ n \in Nat /\ n \notin of /\ Gateway!Of(o)' = of \cup {n}
        /\ \A p \in Orders : p # o => Gateway!Of(p)' = Gateway!Of(p)
    BY <2>1, <2>4 DEF GatewayIInv, Gateway!Of
  <2>7. GatewaySound(q, w, of) /\ GatewayWire(q, w, of \cup {n})
    BY <1>1, <1>2 DEF GatewayWire, GatewayTrue
  <2>8. answer.state = "ok" => GatewayTrue(q, answer.result, of \cup {n})
    <3> SUFFICES ASSUME answer.state = "ok" PROVE GatewayTrue(q, answer.result, of \cup {n})
      OBVIOUS
    <3>1. answer.result.id = n /\ answer.result.amount = Gateway!CentsToDecimalString(cents)
      BY <1>4, <1>7, <2>4 DEF Gateway!Result
    <3> HIDE DEF cents
    <3> QED
      BY <2>2, <3>1, GatewayAmounts DEF GatewayTrue, cents
  <2>9. wire' = [p \in Orders |-> IF p = o THEN v ELSE wire[p]]
    BY <1>5 DEF GatewayIInv
  <2> HIDE DEF q, w, of, v, n, cents
  <2>10. /\ GatewayWire(q, v, of \cup {n})
         /\ GatewaySpared(v[1]) + GatewaySpared(v[2])
              = GatewaySpared(w[1]) + GatewaySpared(w[2]) - 1
    BY <1>1, <1>2, <1>4, <2>7, <2>8, GatewayAnswerSound DEF v
  <2>11. GatewayCount(q, v, of \cup {n})
    BY <1>2, <2>6, <2>10, GatewayOneMore
  <2>12. GatewaySound(order[o], wire[o], Gateway!Of(o))'
    BY <1>1, <1>2, <2>6, <2>9, <2>10, <2>11 DEF GatewaySound, q
  <2>13. ASSUME NEW p \in Orders, p # o
         PROVE  GatewaySound(order[p], wire[p], Gateway!Of(p))'
    BY <1>1, <2>6, <2>9, <2>13 DEF GatewayIInv
  <2> QED
    BY <1>1, <2>5, <2>9, <2>12, <2>13 DEF GatewayIInv
<1> QED
  BY <1>6, <1>7

\* The gateway settles an operation.
LEMMA GatewaySettles ==
  ASSUME GatewayIInv, NEW i \in DOMAIN operations, Gateway!Settles(i)
  PROVE  GatewayIInv'
<1>1. PICK raw \in RawStatuses : operations' = [operations EXCEPT ![i].raw = raw]
  BY DEF Gateway!Settles
<1> DEFINE row == [operations[i] EXCEPT !.raw = raw]
<1>2. operations[i] \in GatewayOperation /\ operations \in Seq(GatewayOperation)
  BY DEF GatewayIInv
<1>3. row \in GatewayOperation /\ row.ref = operations[i].ref
  BY <1>2 DEF GatewayOperation
<1>4. operations' = [operations EXCEPT ![i] = row]
  BY <1>1
<1> HIDE DEF row
<1>5. operations' \in Seq(GatewayOperation) /\ DOMAIN operations' = DOMAIN operations
      /\ \A j \in DOMAIN operations : operations'[j].ref = operations[j].ref
  BY <1>2, <1>3, <1>4
<1>6. \A o \in Orders : Gateway!Of(o)' = Gateway!Of(o)
  BY <1>5 DEF Gateway!Of
<1> QED
  BY <1>5, <1>6 DEF GatewayIInv, Gateway!Settles

\* Every step of the client and of the gateway.
LEMMA GatewayEveryStep ==
  ASSUME GatewayIInv, [Gateway!Next]_(Gateway!vars)
  PROVE  GatewayIInv'
<1>1. CASE UNCHANGED Gateway!vars
  <2>1. \A o \in Orders : Gateway!Of(o)' = Gateway!Of(o)
    BY <1>1 DEF Gateway!vars, Gateway!Of
  <2> QED
    BY <1>1, <2>1 DEF Gateway!vars, GatewayIInv
<1>2. ASSUME NEW o \in Orders,
             \/ Gateway!CreatePixCharge(o) \/ Gateway!RequestPixWithdrawal(o)
             \/ Gateway!GetPixCharge(o)
      PROVE  GatewayIInv'
  BY <1>2, GatewayAsked, GatewayGet DEF Gateway!CreatePixCharge, Gateway!RequestPixWithdrawal
<1>3. ASSUME NEW o \in Orders,
             \/ Gateway!Send(o) \/ Gateway!Receive(o) \/ Gateway!NoAnswer(o) \/ Gateway!Defect(o)
      PROVE  GatewayIInv'
  BY <1>3, GatewaySends, GatewayReceives
<1>4. ASSUME NEW o \in Orders, NEW a \in 1 .. 2, Gateway!CarriesOut(o, a) \/ Gateway!TurnsDown(o, a)
      PROVE  GatewayIInv'
  BY <1>4, GatewayCarriesOut, GatewayTurnsDown
<1>5. ASSUME NEW i \in DOMAIN operations, Gateway!Settles(i)
      PROVE  GatewayIInv'
  BY <1>5, GatewaySettles
<1> QED
  BY <1>1, <1>2, <1>3, <1>4, <1>5, Zenon DEF Gateway!Next, Gateway!MAX_ATTEMPTS

\* Nothing was asked at the start.
LEMMA GatewayInitially ==
  ASSUME Gateway!Init
  PROVE  GatewayIInv
<1> DEFINE q == [pc |-> "idle", op |-> None, asked |-> None, id |-> 0,
                 attempt |-> 0, unclear |-> 0, outcome |-> None, result |-> None]
           w == [a \in 1 .. 2 |-> [state |-> "none", result |-> None]]
<1>1. order = [o \in Orders |-> q] /\ wire = [o \in Orders |-> w] /\ operations = <<>>
  BY DEF Gateway!Init, Gateway!MAX_ATTEMPTS, Gateway!NoAnswerYet
<1>2. GatewayCall(q)
  BY GatewayConstants DEF GatewayCall
<1>3. GatewayWire(q, w, {})
  BY GatewayConstants DEF GatewayWire
<1>4. GatewayCount(q, w, {})
  BY FS_EmptySet DEF GatewayCount, GatewaySpared
<1>5. \A o \in Orders : Gateway!Of(o) = {}
  BY <1>1 DEF Gateway!Of
<1>6. operations \in Seq(GatewayOperation)
  BY <1>1
<1> HIDE DEF q, w
<1> QED
  BY <1>1, <1>2, <1>3, <1>4, <1>5, <1>6 DEF GatewayIInv, GatewaySound

-----------------------------------------------------------------------------
(* The list of entries.                                                    *)

\* Any of the rows, which no two share an id of.
HistoryRows(S) ==
  /\ IsFiniteSet(S) /\ S \subseteq [source : Sources, id : Ids, at : Times]
  /\ \A r, o \in S : r.id = o.id => r = o

\* What a source was asked for: what is left of it, or more than fits on a page, and then
\* only rows that come before those that it leaves out.
HistoryFetched(s) ==
  /\ got[s] \subseteq {r \in written : r.source = s /\ History!Beyond(r, cursor)}
  /\ \A r \in first : r.source = s /\ History!Beyond(r, cursor) =>
       \/ r \in got[s]
       \/ Cardinality(got[s]) > PageSize /\ \A o \in got[s] : History!Newer(o, r)

\* The cursor is of the last row that is shown.
HistoryCursor ==
  cursor # None =>
    pages # <<>> /\ cursor = [at |-> pages[Len(pages)].at, id |-> pages[Len(pages)].id]

HistoryIInv ==
  /\ HistoryRows(written)
  /\ first # None => first \subseteq written
  /\ first = None => pages = <<>> /\ cursor = None
  /\ pages \in Seq(written)
  /\ \A i, j \in DOMAIN pages : i < j => History!Newer(pages[i], pages[j])
  /\ HistoryCursor
  /\ got = [s \in Sources |-> got[s]]
  /\ \A s \in Sources : got[s] # None => History!More /\ HistoryFetched(s)
  /\ first # None =>
       \A r \in first :
         \/ \E i \in DOMAIN pages : pages[i] = r
         \/ History!More /\ History!Beyond(r, cursor)

\* The page's module counts as every other.
LEMMA HistoryCounts == \A S : History!Cardinality(S) = Cardinality(S)
BY DEF History!Cardinality, Cardinality

\* The property is in the invariant.
LEMMA HistoryFollows == HistoryIInv => History!PagesAreComplete
BY DEF HistoryIInv, History!PagesAreComplete

\* The order of the list is total.
LEMMA HistoryOrder ==
  ASSUME NEW S, HistoryRows(S)
  PROVE  /\ \A a \in S : ~ History!Newer(a, a)
         /\ \A a, b \in S : a = b \/ History!Newer(a, b) \/ History!Newer(b, a)
         /\ \A a, b, c \in S :
              History!Newer(a, b) /\ History!Newer(b, c) => History!Newer(a, c)
<1>1. \A a \in S : a.at \in Int /\ a.id \in Int
  BY HistoryConstants DEF HistoryRows
<1>2. \A a, b \in S : a.id = b.id => a = b
  BY DEF HistoryRows
<1> QED
  BY <1>1, <1>2 DEF History!Newer

\* Some of the rows are rows.
LEMMA HistorySome ==
  ASSUME NEW S, HistoryRows(S), NEW T \in SUBSET S
  PROVE  HistoryRows(T) /\ Cardinality(T) \in Nat /\ Cardinality(T) <= Cardinality(S)
BY FS_Subset, FS_CardinalityType DEF HistoryRows

\* Some row comes first, and some row last.
LEMMA HistoryEnds ==
  ASSUME NEW S, HistoryRows(S), S # {}
  PROVE  /\ \E x \in S : \A o \in S \ {x} : History!Newer(x, o)
         /\ \E x \in S : \A o \in S \ {x} : History!Newer(o, x)
<1> DEFINE F == {T \in SUBSET S : T = {} \/
                   /\ \E x \in T : \A o \in T \ {x} : History!Newer(x, o)
                   /\ \E x \in T : \A o \in T \ {x} : History!Newer(o, x)}
<1>1. {} \in F
  OBVIOUS
<1>2. ASSUME NEW T \in SUBSET S, NEW y \in S \ T, T \in F PROVE T \cup {y} \in F
  <2>1. CASE T = {}
    BY <2>1
  <2>2. CASE T # {}
    <3>1. PICK x \in T : \A o \in T \ {x} : History!Newer(x, o)
      BY <1>2, <2>2
    <3>2. PICK z \in T : \A o \in T \ {z} : History!Newer(o, z)
      BY <1>2, <2>2
    <3>3. \E w \in T \cup {y} : \A o \in (T \cup {y}) \ {w} : History!Newer(w, o)
      <4>1. CASE History!Newer(x, y)
        BY <3>1, <4>1
      <4>2. CASE ~ History!Newer(x, y)
        <5>1. History!Newer(y, x)
          BY <4>2, HistoryOrder
        <5> QED
          BY <3>1, <5>1, HistoryOrder
      <4> QED
        BY <4>1, <4>2
    <3>4. \E w \in T \cup {y} : \A o \in (T \cup {y}) \ {w} : History!Newer(o, w)
      <4>1. CASE History!Newer(y, z)
        BY <3>2, <4>1
      <4>2. CASE ~ History!Newer(y, z)
        <5>1. History!Newer(z, y)
          BY <4>2, HistoryOrder
        <5> QED
          BY <3>2, <5>1, HistoryOrder
      <4> QED
        BY <4>1, <4>2
    <3> QED
      BY <3>3, <3>4
  <2> QED
    BY <2>1, <2>2
<1> HIDE DEF F
<1>3. SUBSET S \subseteq F
  <2>1. IsFiniteSet(S)
    BY DEF HistoryRows
  <2> QED
    BY <1>1, <1>2, <2>1, SubsetInduction
<1>4. S \in F
  BY <1>3
<1> QED
  BY <1>4 DEF F

\* The rows before another.
HistoryAbove(S, r) == {o \in S : History!Newer(o, r)}

\* The first n rows come before the others, and are n or all of them.
LEMMA HistoryTop ==
  ASSUME NEW S, HistoryRows(S), NEW n \in Nat
  PROVE  /\ History!Top(S, n) \subseteq S
         /\ \A o \in History!Top(S, n) : \A r \in S \ History!Top(S, n) : History!Newer(o, r)
         /\ Cardinality(History!Top(S, n)) \in Nat
         /\ Cardinality(History!Top(S, n)) <= n
         /\ History!Top(S, n) = S \/ Cardinality(History!Top(S, n)) = n
<1> DEFINE T == History!Top(S, n)
<1>1. \A r \in S : r \in T <=> Cardinality(HistoryAbove(S, r)) < n
  BY HistoryCounts DEF History!Top, HistoryAbove
<1>2. T \in SUBSET S
  BY DEF History!Top
<1> HIDE DEF T
<1>3. \A r \in S : HistoryAbove(S, r) \in SUBSET S /\ Cardinality(HistoryAbove(S, r)) \in Nat
  BY HistorySome DEF HistoryAbove
<1>4. ASSUME NEW o \in T, NEW r \in S \ T PROVE History!Newer(o, r)
  <2> SUFFICES ASSUME ~ History!Newer(o, r) PROVE FALSE
    OBVIOUS
  <2>1. History!Newer(r, o)
    BY <1>2, HistoryOrder
  <2>2. HistoryAbove(S, r) \subseteq HistoryAbove(S, o)
    BY <1>2, <2>1, HistoryOrder DEF HistoryAbove
  <2>3. HistoryRows(HistoryAbove(S, o))
    BY <1>2, <1>3, HistorySome
  <2>4. Cardinality(HistoryAbove(S, r)) <= Cardinality(HistoryAbove(S, o))
    BY <2>2, <2>3, HistorySome
  <2> QED
    BY <1>1, <1>2, <1>3, <2>4
<1>5. HistoryRows(T) /\ Cardinality(T) \in Nat
  BY <1>2, HistorySome
<1>6. Cardinality(T) <= n
  <2>1. CASE T = {}
    BY <2>1, FS_EmptySet
  <2>2. CASE T # {}
    <3>1. PICK x \in T : \A o \in T \ {x} : History!Newer(o, x)
      BY <1>5, <2>2, HistoryEnds
    <3>2. T \ {x} \subseteq HistoryAbove(S, x)
      BY <1>2, <3>1 DEF HistoryAbove
    <3>3. Cardinality(T \ {x}) <= Cardinality(HistoryAbove(S, x))
      BY <1>2, <1>3, <3>2, HistorySome
    <3>4. Cardinality(T \ {x}) = Cardinality(T) - 1
      BY <1>5, FS_RemoveElement DEF HistoryRows
    <3>5. Cardinality(HistoryAbove(S, x)) < n /\ Cardinality(HistoryAbove(S, x)) \in Nat
      BY <1>1, <1>2, <1>3
    <3> QED
      BY <1>5, <3>3, <3>4, <3>5
  <2> QED
    BY <2>1, <2>2
<1>7. CASE T # S
  <2>1. HistoryRows(S \ T) /\ S \ T # {}
    BY <1>2, <1>7, HistorySome
  <2>2. PICK x \in S \ T : \A o \in (S \ T) \ {x} : History!Newer(x, o)
    BY <2>1, HistoryEnds
  <2>3. HistoryAbove(S, x) \subseteq T
    BY <2>2, HistoryOrder DEF HistoryAbove
  <2>4. Cardinality(HistoryAbove(S, x)) <= Cardinality(T)
    BY <1>5, <2>3, HistorySome
  <2>5. Cardinality(HistoryAbove(S, x)) >= n
    BY <1>1, <1>3
  <2> QED
    BY <1>2, <1>3, <1>4, <1>5, <1>6, <2>4, <2>5 DEF T
<1> QED
  BY <1>2, <1>4, <1>5, <1>6, <1>7 DEF T

\* The rows in their order: each of them once.
LEMMA HistorySorted ==
  ASSUME NEW S, HistoryRows(S)
  PROVE  /\ History!Sorted(S) \in Seq(S) /\ Len(History!Sorted(S)) = Cardinality(S)
         /\ \A i, j \in DOMAIN History!Sorted(S) :
              i < j => History!Newer(History!Sorted(S)[i], History!Sorted(S)[j])
         /\ \A r \in S : \E i \in DOMAIN History!Sorted(S) : History!Sorted(S)[i] = r
<1> DEFINE N == Cardinality(S)
           f == History!Sorted(S)
           Rank(r) == Cardinality(HistoryAbove(S, r))
<1>1. N \in Nat
  BY HistorySome
<1>2. /\ f = [n \in 1 .. N |-> f[n]]
      /\ \A n \in 1 .. N : (\E r \in S : Rank(r) = n - 1) => f[n] \in S /\ Rank(f[n]) = n - 1
  <2> DEFINE Nth(n) == CHOOSE r \in S : History!Cardinality(HistoryAbove(S, r)) = n - 1
  <2>1. f = [n \in 1 .. History!Cardinality(S) |-> Nth(n)]
    BY DEF History!Sorted, HistoryAbove
  <2>2. History!Cardinality(S) = N
        /\ \A r : History!Cardinality(HistoryAbove(S, r)) = Rank(r)
    BY HistoryCounts
  <2>3. \A n : (\E r \in S : Rank(r) = n - 1) => Nth(n) \in S /\ Rank(Nth(n)) = n - 1
    BY <2>2
  <2> HIDE DEF f, Nth, N, Rank
  <2> QED
    BY <2>1, <2>2, <2>3
<1>3. \A r \in S : HistoryAbove(S, r) \in SUBSET S /\ Rank(r) \in Nat
  BY HistorySome DEF HistoryAbove
<1>4. ASSUME NEW a \in S, NEW b \in S, History!Newer(a, b) PROVE Rank(a) < Rank(b)
  <2>1. HistoryAbove(S, a) \cup {a} \subseteq HistoryAbove(S, b)
    BY <1>4, HistoryOrder DEF HistoryAbove
  <2>2. a \notin HistoryAbove(S, a)
    BY HistoryOrder DEF HistoryAbove
  <2>3. IsFiniteSet(HistoryAbove(S, a)) /\ HistoryRows(HistoryAbove(S, b))
    BY <1>3, HistorySome DEF HistoryRows
  <2>4. Cardinality(HistoryAbove(S, a) \cup {a}) = Rank(a) + 1
    BY <2>2, <2>3, FS_AddElement
  <2>5. Cardinality(HistoryAbove(S, a) \cup {a}) <= Rank(b)
    BY <2>1, <2>3, HistorySome
  <2> QED
    BY <1>3, <2>4, <2>5
<1>5. ASSUME NEW n \in 1 .. N PROVE \E r \in S : Rank(r) = n - 1
  <2> DEFINE T == History!Top(S, n)
             U == History!Top(S, n - 1)
  <2>1. n \in Nat /\ n - 1 \in Nat
    BY <1>1
  <2>2. T \subseteq S /\ (T = S \/ Cardinality(T) = n)
    BY <2>1, HistoryTop
  <2>3. U \subseteq S /\ Cardinality(U) \in Nat /\ Cardinality(U) <= n - 1
    BY <2>1, HistoryTop
  <2>4. \A r \in S : /\ r \in T <=> Rank(r) < n
                     /\ r \in U <=> Rank(r) < n - 1
    BY HistoryCounts DEF History!Top, HistoryAbove
  <2> HIDE DEF T, U
  <2>5. ~ (T \subseteq U)
    <3> SUFFICES ASSUME T \subseteq U PROVE FALSE
      OBVIOUS
    <3>1. HistoryRows(U)
      BY <2>3, HistorySome
    <3>2. Cardinality(T) <= Cardinality(U)
      BY <3>1, HistorySome
    <3> QED
      BY <1>1, <2>1, <2>2, <2>3, <3>2
  <2>6. PICK r \in T : r \notin U
    BY <2>5
  <2>7. r \in S /\ Rank(r) \in Nat /\ Rank(r) < n /\ ~ (Rank(r) < n - 1)
    BY <1>3, <2>2, <2>4, <2>6
  <2>8. Rank(r) = n - 1
    BY <2>1, <2>7
  <2> QED
    BY <2>7, <2>8
<1>6. \A r \in S : Rank(r) + 1 \in 1 .. N
  <2> SUFFICES ASSUME NEW r \in S PROVE Rank(r) < N
    BY <1>1, <1>3
  <2>1. r \notin HistoryAbove(S, r)
    BY HistoryOrder DEF HistoryAbove
  <2>2. HistoryAbove(S, r) \subseteq S \ {r}
    BY <1>3, <2>1
  <2>3. HistoryRows(S \ {r}) /\ Cardinality(S \ {r}) = N - 1
    BY HistorySome, FS_RemoveElement DEF HistoryRows
  <2>4. Rank(r) <= N - 1
    BY <2>2, <2>3, HistorySome
  <2> QED
    BY <1>1, <1>3, <2>4
<1> HIDE DEF N, f, Rank
<1>7. \A n \in 1 .. N : f[n] \in S /\ Rank(f[n]) = n - 1
  BY <1>2, <1>5
<1>8. f \in Seq(S) /\ Len(f) = N /\ DOMAIN f = 1 .. N
  <2>1. f \in [1 .. N -> S]
    BY <1>2, <1>7
  <2> QED
    BY <1>1, <2>1
<1>9. ASSUME NEW i \in 1 .. N, NEW j \in 1 .. N, i < j PROVE History!Newer(f[i], f[j])
  <2>1. f[i] \in S /\ f[j] \in S /\ Rank(f[i]) < Rank(f[j])
    BY <1>1, <1>7, <1>9
  <2>2. f[i] # f[j]
    BY <1>3, <2>1
  <2>3. ~ History!Newer(f[j], f[i])
    BY <1>3, <1>4, <2>1
  <2> QED
    BY <2>1, <2>2, <2>3, HistoryOrder
<1>10. ASSUME NEW r \in S PROVE f[Rank(r) + 1] = r
  <2>1. f[Rank(r) + 1] \in S /\ Rank(f[Rank(r) + 1]) = Rank(r)
    BY <1>3, <1>6, <1>7
  <2>2. ~ History!Newer(f[Rank(r) + 1], r) /\ ~ History!Newer(r, f[Rank(r) + 1])
    BY <1>3, <1>4, <2>1
  <2> QED
    BY <2>1, <2>2, HistoryOrder
<1> QED
  BY <1>6, <1>8, <1>9, <1>10 DEF f, N

\* Nothing is there at the start.
LEMMA HistoryInitially == History!Init => HistoryIInv
<1> SUFFICES ASSUME History!Init PROVE HistoryIInv
  OBVIOUS
<1>1. HistoryRows(written) /\ pages = <<>> /\ cursor = None
  BY FS_EmptySet DEF History!Init, HistoryRows
<1>2. pages \in Seq(written) /\ DOMAIN pages = {}
  BY <1>1
<1> QED
  BY <1>1, <1>2 DEF History!Init, HistoryIInv, HistoryCursor

\* A row is written.
LEMMA HistoryWrite ==
  ASSUME HistoryIInv, History!Write
  PROVE  HistoryIInv'
<1>1. PICK s \in Sources, i \in Ids, t \in Times :
        /\ \A r \in written : r.id # i
        /\ written' = written \cup {[source |-> s, id |-> i, at |-> t]}
  BY DEF History!Write
<1>2. first' = first /\ got' = got /\ cursor' = cursor /\ pages' = pages
  BY DEF History!Write
<1>3. HistoryRows(written)'
  <2>1. IsFiniteSet(written')
    BY <1>1, FS_AddElement DEF HistoryIInv, HistoryRows
  <2> QED
    BY <1>1, <2>1 DEF HistoryIInv, HistoryRows
<1>4. written \subseteq written'
  BY <1>1
<1>5. pages' \in Seq(written')
  BY <1>2, <1>4 DEF HistoryIInv
<1>6. /\ History!More' = History!More
      /\ \A z \in Sources : HistoryFetched(z) => HistoryFetched(z)'
  BY <1>2, <1>4 DEF History!More, HistoryFetched
<1> QED
  BY <1>2, <1>3, <1>4, <1>5, <1>6 DEF HistoryIInv, HistoryCursor

\* The list is opened.
LEMMA HistoryOpen ==
  ASSUME HistoryIInv, History!Open
  PROVE  HistoryIInv'
<1>1. first = None /\ first' = written /\ UNCHANGED <<written, got, cursor, pages>>
  BY DEF History!Open
<1>2. pages = <<>> /\ cursor = None /\ \A s \in Sources : got[s] = None
  BY <1>1 DEF HistoryIInv, History!More
<1>3. written # None
  BY HistoryConstants DEF HistoryIInv, HistoryRows
<1>4. History!More' /\ \A r \in first' : History!Beyond(r, cursor)
  BY <1>1, <1>2, <1>3 DEF History!More, History!Beyond
<1> QED
  BY <1>1, <1>2, <1>3, <1>4 DEF HistoryIInv, HistoryCursor, HistoryRows

\* A source is asked.
LEMMA HistoryFetch ==
  ASSUME HistoryIInv, NEW s \in Sources, History!Fetch(s)
  PROVE  HistoryIInv'
<1> DEFINE S == {r \in written : r.source = s /\ History!Beyond(r, cursor)}
           T == History!Top(S, SourceFetchCap)
<1>1. History!More /\ got' = [got EXCEPT ![s] = T] /\ UNCHANGED <<written, first, cursor, pages>>
  BY DEF History!Fetch
<1>2. HistoryRows(S)
  BY HistorySome DEF HistoryIInv
<1>3. /\ T \subseteq S /\ \A o \in T : \A r \in S \ T : History!Newer(o, r)
      /\ T = S \/ Cardinality(T) = SourceFetchCap
  BY <1>2, HistoryTop, HistoryConstants
<1> HIDE DEF T
<1>4. first \subseteq written
  BY <1>1 DEF HistoryIInv, History!More
<1>5. got'[s] = T /\ \A z \in Sources \ {s} : got'[z] = got[z]
  BY <1>1 DEF HistoryIInv
<1>6. HistoryFetched(s)'
  BY <1>1, <1>3, <1>4, <1>5, HistoryConstants DEF HistoryFetched
<1>7. \A z \in Sources \ {s} : HistoryFetched(z) => HistoryFetched(z)'
  BY <1>1, <1>5 DEF HistoryFetched
<1>8. got' = [z \in Sources |-> got'[z]]
  BY <1>1 DEF HistoryIInv
<1>9. History!More'
  BY <1>1 DEF History!More
<1> QED
  BY <1>1, <1>5, <1>6, <1>7, <1>8, <1>9 DEF HistoryIInv, HistoryCursor, HistoryRows

\* An answer is lost.
LEMMA HistoryLose ==
  ASSUME HistoryIInv, History!Lose
  PROVE  HistoryIInv'
<1>1. got' = [s \in Sources |-> None] /\ UNCHANGED <<written, first, cursor, pages>>
  BY DEF History!Lose
<1>2. History!More' = History!More
  BY <1>1 DEF History!More
<1> QED
  BY <1>1, <1>2 DEF HistoryIInv, HistoryCursor, HistoryRows

\* Rows that come after all that is shown are appended in their order.
LEMMA HistoryAppended ==
  ASSUME NEW S, HistoryRows(S), NEW p \in Seq(S), NEW q \in Seq(S),
         \A i, j \in DOMAIN p : i < j => History!Newer(p[i], p[j]),
         \A i, j \in DOMAIN q : i < j => History!Newer(q[i], q[j]),
         p # <<>> => \A j \in DOMAIN q : History!Newer(p[Len(p)], q[j])
  PROVE  /\ p \o q \in Seq(S)
         /\ \A i, j \in DOMAIN (p \o q) : i < j => History!Newer((p \o q)[i], (p \o q)[j])
         /\ \A i \in DOMAIN p : \E k \in DOMAIN (p \o q) : (p \o q)[k] = p[i]
         /\ \A i \in DOMAIN q : \E k \in DOMAIN (p \o q) : (p \o q)[k] = q[i]
         /\ q # <<>> => p \o q # <<>> /\ (p \o q)[Len(p \o q)] = q[Len(q)]
<1> DEFINE r == p \o q
           m == Len(p)
           n == Len(q)
<1>1. /\ m \in Nat /\ n \in Nat /\ DOMAIN p = 1 .. m /\ DOMAIN q = 1 .. n
      /\ r \in Seq(S) /\ Len(r) = m + n /\ DOMAIN r = 1 .. m + n
  OBVIOUS
<1>2. /\ \A i \in 1 .. m : r[i] = p[i] /\ p[i] \in S
      /\ \A i \in m + 1 .. m + n : r[i] = q[i - m] /\ q[i - m] \in S /\ i - m \in 1 .. n
  OBVIOUS
<1>3. p # <<>> <=> m > 0
  BY <1>1, EmptySeq
<1>4. q # <<>> <=> n > 0
  BY <1>1, EmptySeq
<1>5. p # <<>> => \A j \in 1 .. n : History!Newer(p[m], q[j])
  OBVIOUS
<1> HIDE DEF r, m, n
<1>6. ASSUME NEW i \in 1 .. m + n, NEW j \in 1 .. m + n, i < j PROVE History!Newer(r[i], r[j])
  <2>1. CASE j <= m
    <3>1. i \in 1 .. m /\ j \in 1 .. m
      BY <1>1, <1>6, <2>1
    <3> QED
      BY <1>1, <1>2, <1>6, <3>1
  <2>2. CASE i > m
    <3>1. i \in m + 1 .. m + n /\ j \in m + 1 .. m + n /\ i - m < j - m
      BY <1>1, <1>6, <2>2
    <3> QED
      BY <1>1, <1>2, <3>1
  <2>3. CASE i <= m /\ j > m
    <3>1. i \in 1 .. m /\ j \in m + 1 .. m + n /\ m > 0
      BY <1>1, <1>6, <2>3
    <3>2. m \in 1 .. m /\ p[m] \in S /\ History!Newer(p[m], q[j - m])
      BY <1>1, <1>2, <1>3, <1>5, <3>1
    <3>3. i = m \/ History!Newer(p[i], p[m])
      BY <1>1, <3>1, <3>2, SMTT(40)
    <3> QED
      BY <1>2, <3>1, <3>2, <3>3, HistoryOrder
  <2> QED
    BY <1>1, <2>1, <2>2, <2>3
<1>7. /\ \A i \in 1 .. m : i \in 1 .. m + n
      /\ \A i \in 1 .. n : i + m \in m + 1 .. m + n /\ i + m \in 1 .. m + n /\ (i + m) - m = i
  <2>1. m \in Nat /\ n \in Nat
    BY <1>1
  <2> QED
    BY ONLY <2>1
<1>8. \A i \in 1 .. n : r[i + m] = q[i]
  BY <1>2, <1>7
<1>9. q # <<>> => r # <<>> /\ r[Len(r)] = q[n]
  <2> SUFFICES ASSUME q # <<>> PROVE r # <<>> /\ r[Len(r)] = q[n]
    OBVIOUS
  <2>1. n \in 1 .. n /\ m + n = n + m /\ m + n > 0
    BY <1>1, <1>4
  <2>2. r # <<>>
    BY <1>1, <2>1, EmptySeq
  <2> QED
    BY <1>1, <1>8, <2>1, <2>2
<1> QED
  BY <1>1, <1>2, <1>6, <1>7, <1>8, <1>9 DEF r, n

\* A page is put together and cut.
LEMMA HistoryServe ==
  ASSUME HistoryIInv, History!Serve
  PROVE  HistoryIInv'
<1> DEFINE C == UNION {got[s] : s \in Sources}
           T == History!Top(C, PageSize)
           cut == History!Sorted(T)
           last == cut[Len(cut)]
<1>1. /\ \A s \in Sources : got[s] # None
      /\ pages' = pages \o cut /\ got' = [s \in Sources |-> None]
      /\ cursor' = IF History!HasMore(C)
                   THEN [at |-> History!Last(cut).at, id |-> History!Last(cut).id] ELSE None
      /\ UNCHANGED <<written, first>>
  BY DEF History!Serve
<1>2. History!HasMore(C) <=> Cardinality(C) > PageSize
  BY HistoryCounts DEF History!HasMore
<1>3. History!Last(cut) = last
  BY DEF History!Last
<1>4. History!More /\ first # None /\ first \subseteq written
  BY <1>1, HistoryConstants DEF HistoryIInv, History!More
<1>5. C \subseteq {r \in written : History!Beyond(r, cursor)}
  BY <1>1 DEF HistoryIInv, HistoryFetched
<1>6. ASSUME NEW r \in first, History!Beyond(r, cursor), r \notin C
      PROVE  \E s \in Sources : /\ got[s] \subseteq C /\ Cardinality(got[s]) > PageSize
                                /\ \A o \in got[s] : History!Newer(o, r)
  <2>1. PICK s \in Sources : r.source = s
    BY <1>4 DEF HistoryIInv, HistoryRows
  <2>2. got[s] \subseteq C /\ HistoryFetched(s)
    BY <1>1 DEF HistoryIInv
  <2> QED
    BY <1>6, <2>1, <2>2 DEF HistoryFetched
<1> HIDE DEF C
<1>7. HistoryRows(written) /\ HistoryRows(C) /\ PageSize \in Nat /\ PageSize > 0
  BY <1>5, HistorySome, HistoryConstants DEF HistoryIInv
<1>8. /\ T \subseteq C /\ \A o \in T : \A r \in C \ T : History!Newer(o, r)
      /\ Cardinality(T) \in Nat /\ Cardinality(T) <= PageSize
      /\ T = C \/ Cardinality(T) = PageSize
  BY <1>7, HistoryTop
<1> HIDE DEF T
<1>9. HistoryRows(T)
  BY <1>7, <1>8, HistorySome
<1>10. /\ cut \in Seq(T) /\ Len(cut) = Cardinality(T)
       /\ \A i, j \in DOMAIN cut : i < j => History!Newer(cut[i], cut[j])
       /\ \A r \in T : \E i \in DOMAIN cut : cut[i] = r
  BY <1>9, HistorySorted
<1> HIDE DEF cut
<1>11. /\ cut \in Seq(written) /\ pages \in Seq(written)
       /\ \A i, j \in DOMAIN pages : i < j => History!Newer(pages[i], pages[j])
  BY <1>5, <1>8, <1>10 DEF HistoryIInv
<1>12. pages # <<>> => \A j \in DOMAIN cut : History!Newer(pages[Len(pages)], cut[j])
  <2> SUFFICES ASSUME pages # <<>>, NEW j \in DOMAIN cut
               PROVE  History!Newer(pages[Len(pages)], cut[j])
    OBVIOUS
  <2>1. cut[j] \in T
    BY <1>10
  <2>2. cursor # None /\ cursor = [at |-> pages[Len(pages)].at, id |-> pages[Len(pages)].id]
    BY <1>4 DEF HistoryIInv, HistoryCursor, History!More
  <2>3. cut[j] \in written /\ History!Beyond(cut[j], cursor)
    BY <1>5, <1>8, <2>1
  <2>4. pages[Len(pages)] \in written
    BY <1>11, EmptySeq
  <2>5. \A r \in written : r.at \in Int /\ r.id \in Int
    BY <1>7, HistoryConstants DEF HistoryRows
  <2> QED
    BY <2>2, <2>3, <2>4, <2>5 DEF History!Beyond, History!Newer
<1>13. /\ pages' \in Seq(written)
       /\ \A i, j \in DOMAIN pages' : i < j => History!Newer(pages'[i], pages'[j])
       /\ \A i \in DOMAIN pages : \E k \in DOMAIN pages' : pages'[k] = pages[i]
       /\ \A i \in DOMAIN cut : \E k \in DOMAIN pages' : pages'[k] = cut[i]
       /\ cut # <<>> => pages' # <<>> /\ pages'[Len(pages')] = last
  <2> DEFINE all == pages \o cut
  <2>1. /\ all \in Seq(written)
        /\ \A i, j \in DOMAIN all : i < j => History!Newer(all[i], all[j])
        /\ \A i \in DOMAIN pages : \E k \in DOMAIN all : all[k] = pages[i]
        /\ \A i \in DOMAIN cut : \E k \in DOMAIN all : all[k] = cut[i]
        /\ cut # <<>> => all # <<>> /\ all[Len(all)] = last
    BY <1>7, <1>10, <1>11, <1>12, HistoryAppended, ZenonT(60)
  <2> HIDE DEF last
  <2>2. pages' = all
    BY <1>1
  <2> HIDE DEF all
  <2> QED
    BY <2>1, <2>2
<1>14. \A r \in T : \E k \in DOMAIN pages' : pages'[k] = r
  BY <1>10, <1>13
<1>15. \A r \in first : (\E k \in DOMAIN pages' : pages'[k] = r) \/ History!Beyond(r, cursor)
  BY <1>4, <1>13 DEF HistoryIInv
<1>16. HistoryCursor' /\ \A r \in first :
         (\E k \in DOMAIN pages' : pages'[k] = r) \/ (History!More' /\ History!Beyond(r, cursor'))
  <2>1. CASE Cardinality(C) <= PageSize
    <3>1. cursor' = None
      <4>1. Cardinality(C) \in Nat
        BY <1>7, HistorySome
      <4> QED
        BY <1>1, <1>2, <1>7, <2>1, <4>1
    <3>2. T = C
      <4>1. /\ Cardinality(C) \in Nat /\ Cardinality(T) <= Cardinality(C)
            /\ Cardinality(C) = Cardinality(T) => C = T
        BY <1>7, <1>8, FS_Subset, FS_CardinalityType DEF HistoryRows
      <4> QED
        BY <1>7, <1>8, <2>1, <4>1
    <3>3. ASSUME NEW r \in first, History!Beyond(r, cursor) PROVE r \in C
      <4> SUFFICES ASSUME r \notin C PROVE FALSE
        OBVIOUS
      <4>1. PICK s \in Sources : got[s] \subseteq C /\ Cardinality(got[s]) > PageSize
        BY <1>6, <3>3
      <4>2. Cardinality(got[s]) <= Cardinality(C) /\ Cardinality(got[s]) \in Nat
            /\ Cardinality(C) \in Nat
        BY <1>7, <4>1, HistorySome
      <4> QED
        BY <1>7, <2>1, <4>1, <4>2
    <3> QED
      BY <1>14, <1>15, <3>1, <3>2, <3>3 DEF HistoryCursor
  <2>2. CASE Cardinality(C) > PageSize
    <3>1. cursor' = [at |-> last.at, id |-> last.id]
      BY <1>1, <1>2, <1>3, <2>2
    <3>2. Cardinality(T) = PageSize
      BY <1>7, <1>8, <2>2
    <3>3. cut # <<>> /\ last \in T
      BY <1>7, <1>10, <3>2, EmptySeq
    <3>4. pages' # <<>> /\ pages'[Len(pages')] = last
      BY <1>13, <3>3
    <3>5. last \in written /\ \A r \in written : r.at \in Int /\ r.id \in Int
      BY <1>5, <1>7, <1>8, <3>3, HistoryConstants DEF HistoryRows
    <3> HIDE DEF last
    <3>6. cursor' # None
      <4>1. last.at \in Times /\ last.id \in Ids
        BY <1>7, <3>5 DEF HistoryRows
      <4> QED
        BY <3>1, <4>1, HistoryConstants
    <3>7. ASSUME NEW r \in first, History!Beyond(r, cursor), r \notin T
          PROVE  History!Beyond(r, cursor')
      <4>1. History!Newer(last, r)
        <5>1. CASE r \in C
          BY <1>8, <3>3, <3>7, <5>1
        <5>2. CASE r \notin C
          <6>1. PICK s \in Sources :
                  /\ got[s] \subseteq C /\ Cardinality(got[s]) > PageSize
                  /\ \A o \in got[s] : History!Newer(o, r)
            BY <1>6, <3>7, <5>2
          <6>2. ~ (got[s] \subseteq T)
            <7> SUFFICES ASSUME got[s] \subseteq T PROVE FALSE
              OBVIOUS
            <7>1. Cardinality(got[s]) <= Cardinality(T) /\ Cardinality(got[s]) \in Nat
              BY <1>9, HistorySome
            <7> QED
              BY <1>7, <3>2, <6>1, <7>1
          <6>3. PICK o \in got[s] : o \in C \ T
            BY <6>1, <6>2
          <6>4. History!Newer(last, o) /\ History!Newer(o, r) /\ o \in written /\ r \in written
            BY <1>4, <1>5, <1>8, <3>3, <6>1, <6>3
          <6> QED
            BY <1>7, <3>5, <6>4, HistoryOrder
        <5> QED
          BY <5>1, <5>2
      <4>2. r \in written
        BY <1>4
      <4> QED
        BY <3>1, <3>5, <4>1, <4>2 DEF History!Newer, History!Beyond
    <3>8. History!More'
      BY <1>1, <1>4, <3>6 DEF History!More
    <3>9. HistoryCursor'
      BY <3>1, <3>4 DEF HistoryCursor
    <3> QED
      BY <1>14, <1>15, <3>7, <3>8, <3>9
  <2> QED
    <3>1. Cardinality(C) \in Nat
      BY <1>7, HistorySome
    <3> QED
      BY <1>7, <2>1, <2>2, <3>1
<1>17. HistoryRows(written)' /\ first' # None /\ first' \subseteq written'
       /\ \A s \in Sources : got'[s] = None
  BY <1>1, <1>4, <1>7 DEF HistoryRows
<1> QED
  BY <1>1, <1>13, <1>16, <1>17 DEF HistoryIInv

\* Every step of the list and of those who write rows.
LEMMA HistoryEveryStep ==
  ASSUME HistoryIInv, [History!Next]_(History!vars)
  PROVE  HistoryIInv'
<1>1. CASE UNCHANGED History!vars
  BY <1>1 DEF History!vars, HistoryIInv, HistoryRows, HistoryCursor, HistoryFetched, History!More
<1> QED
  BY <1>1, HistoryWrite, HistoryOpen, HistoryFetch, HistoryServe, HistoryLose DEF History!Next

-----------------------------------------------------------------------------
(* In the house.                                                           *)

\* A behaviour of the house is about one part, whose steps are those of its module.
LEMMA PartBegins ==
  Init =>
    /\ part = "structures" => Grids!Init
    /\ part = "tokens" => Tokens!InitServer
    /\ part = "clubs" => Membership!Init
    /\ part = "gateway" => Gateway!Init
    /\ part = "history" => History!Init
    /\ part = "seating" => Room!Init
BY DEF Init

\* And no step changes which part that is.
LEMMA PartMoves ==
  [Next]_vars =>
    /\ part' = part
    /\ part = "structures" => [Grids!Next]_(Grids!vars)
    /\ part = "tokens" => [Tokens!Next]_(Tokens!serverVars)
    /\ part = "clubs" => [Membership!Next]_(Membership!vars)
    /\ part = "gateway" => [Gateway!Next]_(Gateway!vars)
    /\ part = "history" => [History!Next]_(History!vars)
    /\ part = "seating" => [Room!Next]_(Room!vars)
<1>1. CASE SeatingStep
  BY <1>1 DEF SeatingStep
<1>2. CASE StructuresStep
  BY <1>2 DEF StructuresStep
<1>3. CASE TokensStep
  BY <1>3 DEF TokensStep
<1>4. CASE BrowserStep
  BY <1>4 DEF BrowserStep
<1>5. CASE ClubsStep
  BY <1>5 DEF ClubsStep
<1>6. CASE GridStep
  BY <1>6 DEF GridStep
<1>7. CASE DetailStep
  BY <1>7 DEF DetailStep
<1>8. CASE GatewayStep
  BY <1>8 DEF GatewayStep
<1>9. CASE HistoryStep
  BY <1>9 DEF HistoryStep
<1>10. CASE ControlStep
  BY <1>10 DEF ControlStep
<1>11. CASE SetupStep
  BY <1>11 DEF SetupStep
<1>12. CASE UNCHANGED vars
  BY <1>12 DEF vars, Tokens!serverVars, Membership!vars, serverVars, clubVars, Grids!vars,
               gridVars, Gateway!vars, gatewayVars, History!vars, historyVars, Room!vars,
               roomVars
<1> QED
  BY <1>1, <1>2, <1>3, <1>4, <1>5, <1>6, <1>7, <1>8, <1>9, <1>10, <1>11, <1>12 DEF Next

\* The invariants of the parts, for behaviours that are about them.
StructuresPart == part = "structures" => StructuresIInv
TokensPart == part = "tokens" => TokensIInv
ClubsPart == part = "clubs" => ClubsIInv
GatewayPart == part = "gateway" => GatewayIInv
HistoryPart == part = "history" => HistoryIInv

\* The chain of rotations of a token never forks, for any number of requests that present
\* it at once (AuthService.refresh).
THEOREM RotationNeverForks == Spec => []RotationChain
<1>1. Init => TokensPart
  BY PartBegins, TokensInitially DEF TokensPart
<1>2. TokensPart /\ [Next]_vars => TokensPart'
  BY PartMoves, TokensEveryStep DEF TokensPart
<1>3. TokensPart => RotationChain
  BY TokensChainFollows DEF TokensPart, RotationChain
<1> QED
  BY <1>1, <1>2, <1>3, PTL DEF Spec

\* Nothing comes of a token that logout or revokeFamily revoked before it was rotated; of
\* one that was being rotated by then, a successor still may (AuthService.refresh).
THEOREM NothingRevives == Spec => []RevokedTokensStayRevoked
<1>1. Init => TokensPart
  BY PartBegins, TokensInitially DEF TokensPart
<1>2. TokensPart /\ [Next]_vars => TokensPart'
  BY PartMoves, TokensEveryStep DEF TokensPart
<1>3. TokensPart => RevokedTokensStayRevoked
  BY TokensEndsFollow DEF TokensPart, RevokedTokensStayRevoked
<1> QED
  BY <1>1, <1>2, <1>3, PTL DEF Spec

\* A club whose administrators' requests about it never overlapped keeps an active one
\* (upsertMember).
THEOREM AdministratorRemains == Spec => []AdminRemains
<1>1. Init => ClubsPart
  BY PartBegins, ClubsInitially DEF ClubsPart
<1>2. ClubsPart /\ [Next]_vars => ClubsPart'
  BY PartMoves, ClubsEveryStep DEF ClubsPart
<1>3. ClubsPart => AdminRemains
  BY DEF ClubsPart, AdminRemains, ClubsIInv
<1> QED
  BY <1>1, <1>2, <1>3, PTL DEF Spec

\* Whoever entered a club has a wallet there, and nobody else has (createClube,
\* joinByCode, createMemberWithNewUser).
THEOREM WalletsStayWithMembers == Spec => []WalletsFollowMembers
<1>1. Init => ClubsPart
  BY PartBegins, ClubsInitially DEF ClubsPart
<1>2. ClubsPart /\ [Next]_vars => ClubsPart'
  BY PartMoves, ClubsEveryStep DEF ClubsPart
<1>3. ClubsPart => WalletsFollowMembers
  BY DEF ClubsPart, WalletsFollowMembers, ClubsIInv
<1> QED
  BY <1>1, <1>2, <1>3, PTL DEF Spec

\* Every grid of a preset or a tournament is one that an admin sent, whole, whatever other
\* admins replace or delete meanwhile (BlindStructureService.update).
THEOREM GridsCopiedWhole == Spec => []GridsAreWhole
<1>1. Init => StructuresPart
  BY PartBegins, StructuresInitially DEF StructuresPart
<1>2. StructuresPart /\ [Next]_vars => StructuresPart'
  BY PartMoves, StructuresEveryStep DEF StructuresPart
<1>3. StructuresPart => GridsAreWhole
  BY StructuresFollow DEF StructuresPart, GridsAreWhole
<1> QED
  BY <1>1, <1>2, <1>3, PTL DEF Spec

\* What a call to the gateway ends with is true of it, and it was carried out twice only
\* after an unclear answer (AbacatePayClient.request).
THEOREM CallsStayHonest == Spec => []CallsAreHonest
<1>1. Init => GatewayPart
  BY PartBegins, GatewayInitially DEF GatewayPart
<1>2. GatewayPart /\ [Next]_vars => GatewayPart'
  BY PartMoves, GatewayEveryStep DEF GatewayPart
<1>3. GatewayPart => CallsAreHonest
  BY GatewayIsHonest DEF GatewayPart, CallsAreHonest
<1> QED
  BY <1>1, <1>2, <1>3, PTL DEF Spec

\* Whatever is written meanwhile, no row of a list is shown twice, and a list that was read
\* to its end has every row that was there when it was opened, in order (listEntries,
\* getTransactions).
THEOREM PagesLoseNothing == Spec => []PagesAreComplete
<1>1. Init => HistoryPart
  BY PartBegins, HistoryInitially DEF HistoryPart
<1>2. HistoryPart /\ [Next]_vars => HistoryPart'
  BY PartMoves, HistoryEveryStep DEF HistoryPart
<1>3. HistoryPart => PagesAreComplete
  BY HistoryFollows DEF HistoryPart, PagesAreComplete
<1> QED
  BY <1>1, <1>2, <1>3, PTL DEF Spec

-----------------------------------------------------------------------------
(* The seating room: its operators are those of Seating, one by one.       *)

INSTANCE SeatingProofs

\* The pieces of a room.
LEMMA RoomPieces ==
  /\ \A S : Room!Cardinality(S) = Cardinality(S)
  /\ \A S : Room!Max(S) = Max(S)
  /\ \A S : Room!Min(S) = Min(S)
  /\ \A r, t : Room!Occupants(r, t) = Occupants(r, t)
  /\ \A r, t : Room!Occupancy(r, t) = Occupancy(r, t)
  /\ \A r, t : Room!HasFreeSeat(r, t) <=> HasFreeSeat(r, t)
  /\ \A r : Room!OpenTables(r) = OpenTables(r)
  /\ \A t, s : Room!Place(t, s) = Place(t, s)
  /\ Room!NoSeat = NoSeat
  /\ \A c : Room!OpenTable(c) = OpenTable(c)
BY Zenon
   DEF Room!Cardinality, Cardinality, Room!Max, Max, Room!Min, Min,
       Room!Occupants, Occupants, Room!Occupancy, Occupancy, Room!HasFreeSeat, HasFreeSeat,
       Room!OpenTables, OpenTables, Room!Place, Place, Room!NoSeat, NoSeat, Room!OpenTable,
       OpenTable

\* The choices of a table and of a seat.
LEMMA RoomChoices ==
  /\ \A r, S : Room!Fullest(r, S) = Fullest(r, S)
  /\ \A r, S : Room!Emptiest(r, S) = Emptiest(r, S)
  /\ \A r, t : Room!FirstFreeSeat(r, t) = FirstFreeSeat(r, t)
  /\ \A r, c : Room!PlanInitialSeat(r, c) = PlanInitialSeat(r, c)
  /\ \A S : Room!Ascending(S) = Ascending(S)
<1>1. \A r, S : Room!Fullest(r, S) = Fullest(r, S)
  BY Zenon
     DEF Room!Fullest, Fullest, Room!Occupancy, Occupancy, Room!Occupants, Occupants,
         Room!Cardinality, Cardinality
<1>2. \A r, S : Room!Emptiest(r, S) = Emptiest(r, S)
  BY Zenon
     DEF Room!Emptiest, Emptiest, Room!Occupancy, Occupancy, Room!Occupants, Occupants,
         Room!Cardinality, Cardinality
<1>3. \A r, t : Room!FirstFreeSeat(r, t) = FirstFreeSeat(r, t)
  BY Zenon
     DEF Room!FirstFreeSeat, FirstFreeSeat, Room!Occupants, Occupants, Room!Cardinality,
         Cardinality, Room!Min, Min
<1>4. \A r, c : Room!PlanInitialSeat(r, c) = PlanInitialSeat(r, c)
  <2> SUFFICES ASSUME NEW r, NEW c
               PROVE  Room!PlanInitialSeat(r, c) = PlanInitialSeat(r, c)
    OBVIOUS
  <2> DEFINE candidates == {t \in OpenTables(r) : HasFreeSeat(r, t)}
             target == Emptiest(r, candidates)
             plan == IF candidates = {} THEN [place |-> Place(Len(r.tables) + 1, 1), opens |-> TRUE]
                     ELSE [place |-> Place(target, FirstFreeSeat(r, target)), opens |-> FALSE]
  <2>1. PlanInitialSeat(r, c) = plan
    BY DEF PlanInitialSeat
  <2>2. Room!PlanInitialSeat(r, c) = plan
    BY <1>2, <1>3, RoomPieces DEF Room!PlanInitialSeat
  <2> QED
    BY <2>1, <2>2
<1>5. \A S : Room!Ascending(S) = Ascending(S)
  BY Zenon DEF Room!Ascending, Ascending, Room!Cardinality, Cardinality
<1> QED
  BY <1>1, <1>2, <1>3, <1>4, <1>5, Zenon

\* A player who is moved in the working copy.
LEMMA RoomMoved == \A r, e, p : Room!Moved(r, e, p) = Moved(r, e, p)
BY DEF Room!Moved, Moved

\* One move of a plan.
LEMMA RoomRelocate ==
  ASSUME NEW plan, NEW from, NEW to
  PROVE  Room!Relocate(plan, from, to) = Relocate(plan, from, to)
<1> DEFINE sitting == Occupants(plan.room, from)
           player == CHOOSE e \in sitting :
                       \A o \in sitting : plan.room.at[o].seat <= plan.room.at[e].seat
           place == Place(to, FirstFreeSeat(plan.room, to))
<1>1. Relocate(plan, from, to) = [room |-> Moved(plan.room, player, place),
                                  moves |-> Append(plan.moves, [entry |-> player, place |-> place])]
  BY DEF Relocate
<1>2. Room!Relocate(plan, from, to) = [room |-> Moved(plan.room, player, place),
                                  moves |-> Append(plan.moves, [entry |-> player, place |-> place])]
  BY RoomPieces, RoomChoices, RoomMoved DEF Room!Relocate
<1> QED
  BY <1>1, <1>2

\* One turn of balancing.
LEMMA RoomBalanceOnce ==
  ASSUME NEW plan, NEW open
  PROVE  Room!BalanceOnce(plan, open) = BalanceOnce(plan, open)
<1> DEFINE source == Fullest(plan.room, open)
           targets == {t \in open \ {source} : HasFreeSeat(plan.room, t)}
           target == Emptiest(plan.room, targets)
           level == \/ targets = {}
                    \/ Occupancy(plan.room, source) - Occupancy(plan.room, target) <= 1
<1>1. BalanceOnce(plan, open) = IF level THEN plan ELSE Relocate(plan, source, target)
  BY DEF BalanceOnce, MaxOccupancyGap
<1>2. Room!BalanceOnce(plan, open) = IF level THEN plan ELSE Relocate(plan, source, target)
  BY RoomPieces, RoomChoices, RoomRelocate DEF Room!BalanceOnce, Room!MaxOccupancyGap
<1> QED
  BY <1>1, <1>2

\* The statements that carry a plan out.
LEMMA RoomStatements ==
  /\ \A r, S : Room!Release(r, S) = Release(r, S)
  /\ \A r, e, p : Room!TakePlace(r, e, p) = TakePlace(r, e, p)
  /\ \A r : Room!CloseEmptyTables(r) = CloseEmptyTables(r)
  /\ \A r : Room!StandUp(r) = StandUp(r)
  /\ \A n, c : Room!TablesNeeded(n, c) = TablesNeeded(n, c)
<1>1. \A r, S : Room!Release(r, S) = Release(r, S)
  BY RoomPieces DEF Room!Release, Release
<1>2. \A r, e, p : Room!TakePlace(r, e, p) = TakePlace(r, e, p)
  BY RoomPieces DEF Room!TakePlace, TakePlace
<1>3. \A r : Room!CloseEmptyTables(r) = CloseEmptyTables(r)
  BY RoomPieces DEF Room!CloseEmptyTables, CloseEmptyTables
<1>4. \A r : Room!StandUp(r) = StandUp(r)
  BY <1>1 DEF Room!StandUp, StandUp
<1>5. \A n, c : Room!TablesNeeded(n, c) = TablesNeeded(n, c)
  BY DEF Room!TablesNeeded, TablesNeeded
<1> QED
  BY <1>1, <1>2, <1>3, <1>4, <1>5

\* Whether a table is broken.
LEMMA RoomBreaks ==
  ASSUME NEW r, NEW S
  PROVE  Room!Breaks(r, S) <=> Breaks(r, S)
<1>1. Room!Capacity(r, S) = Capacity(r, S)
  BY Zenon DEF Room!Capacity, Capacity, Room!MapThenSumSet, MapThenSumSet,
               Room!MapThenFoldSet, MapThenFoldSet
<1> QED
  BY <1>1, RoomPieces DEF Room!Breaks, Breaks

\* The draw.
LEMMA RoomPlanRedraw ==
  ASSUME NEW drawn, NEW c
  PROVE  Room!PlanRedraw(drawn, c) = PlanRedraw(drawn, c)
BY RoomPieces, RoomStatements DEF Room!PlanRedraw, PlanRedraw

\* The other order of the draw.
LEMMA RoomReverse ==
  ASSUME NEW s
  PROVE  Room!Reverse(s) = Reverse(s)
BY DEF Room!Reverse, Reverse

\* The moves of a plan, one after the other.
LEMMA RoomApplyMoves ==
  ASSUME NEW start, NEW items
  PROVE  Room!ApplyMoves(start, items) = ApplyMoves(start, items)
<1> DEFINE D == DOMAIN items
           take(r, m) == TakePlace(Release(r, {m.entry}), m.entry, m.place)
           ours(r, m) == Room!TakePlace(Room!Release(r, {m.entry}), m.entry, m.place)
           Fold(g) == [T \in SUBSET D |-> IF T = {} THEN start
                                          ELSE take(g[T \ {Max(T)}], items[Max(T)])]
           Ours(g) == [T \in SUBSET D |-> IF T = {} THEN start
                                          ELSE ours(g[T \ {Room!Max(T)}], items[Room!Max(T)])]
<1>1. \A r, m : ours(r, m) = take(r, m)
  BY RoomStatements
<1>2. \A g : Ours(g) = Fold(g)
  <2> HIDE DEF take, ours
  <2> QED
    BY <1>1, RoomPieces
<1>3. ApplyMoves(start, items) = (CHOOSE g : g = Fold(g))[D]
  BY Zenon DEF ApplyMoves, FoldLeft, MapThenFoldSet
<1>4. Room!ApplyMoves(start, items) = (CHOOSE g : g = Ours(g))[D]
  BY Zenon DEF Room!ApplyMoves, Room!FoldLeft, Room!MapThenFoldSet
<1>5. (CHOOSE g : g = Ours(g)) = (CHOOSE g : g = Fold(g))
  <2> HIDE DEF Ours, Fold
  <2> QED
    BY <1>2, Zenon
<1> QED
  BY ONLY <1>3, <1>4, <1>5

\* The moves that break a table.
LEMMA RoomBreakTable ==
  ASSUME NEW plan, NEW doomed, NEW survivors
  PROVE  Room!BreakTable(plan, doomed, survivors) = BreakTable(plan, doomed, survivors)
<1> DEFINE n == Occupancy(plan.room, doomed)
           items == [i \in 1 .. n |-> i]
           m == Room!Occupancy(plan.room, doomed)
           mine == [i \in 1 .. m |-> i]
           turn(p) == Relocate(p, doomed,
                        Emptiest(p.room, {t \in survivors : HasFreeSeat(p.room, t)}))
           ours(p) == Room!Relocate(p, doomed,
                        Room!Emptiest(p.room, {t \in survivors : Room!HasFreeSeat(p.room, t)}))
           Fold(g) == [T \in SUBSET DOMAIN items |-> IF T = {} THEN plan
                                                     ELSE turn(g[T \ {Max(T)}])]
           Ours(g) == [T \in SUBSET DOMAIN mine |-> IF T = {} THEN plan
                                                    ELSE ours(g[T \ {Room!Max(T)}])]
<1>1. \A p : ours(p) = turn(p)
  <2> SUFFICES ASSUME NEW p PROVE ours(p) = turn(p)
    OBVIOUS
  <2>1. {t \in survivors : Room!HasFreeSeat(p.room, t)} = {t \in survivors : HasFreeSeat(p.room, t)}
    BY RoomPieces
  <2> QED
    BY <2>1, RoomChoices, RoomRelocate
<1>2. mine = items
  BY RoomPieces
<1>3. \A g : Ours(g) = Fold(g)
  <2> HIDE DEF turn, ours, mine, items
  <2> QED
    BY <1>1, <1>2, RoomPieces
<1>4. BreakTable(plan, doomed, survivors) = (CHOOSE g : g = Fold(g))[DOMAIN items]
  BY Zenon DEF BreakTable, Repeat, FoldLeft, MapThenFoldSet
<1>5. Room!BreakTable(plan, doomed, survivors) = (CHOOSE g : g = Ours(g))[DOMAIN mine]
  BY Zenon DEF Room!BreakTable, Room!Repeat, Room!FoldLeft, Room!MapThenFoldSet
<1>6. (CHOOSE g : g = Ours(g)) = (CHOOSE g : g = Fold(g))
  <2> HIDE DEF Ours, Fold
  <2> QED
    BY <1>3, Zenon
<1> HIDE DEF Ours, Fold, items, mine
<1> QED
  BY ONLY <1>2, <1>4, <1>5, <1>6

\* The turns of balancing.
LEMMA RoomBalance ==
  ASSUME NEW plan, NEW open
  PROVE  Room!Balance(plan, open) = Balance(plan, open)
<1> DEFINE n == Cardinality(DOMAIN plan.room.at)
           items == [i \in 1 .. n |-> i]
           m == Room!Cardinality(DOMAIN plan.room.at)
           mine == [i \in 1 .. m |-> i]
           turn(p) == BalanceOnce(p, open)
           ours(p) == Room!BalanceOnce(p, open)
           Fold(g) == [T \in SUBSET DOMAIN items |-> IF T = {} THEN plan
                                                     ELSE turn(g[T \ {Max(T)}])]
           Ours(g) == [T \in SUBSET DOMAIN mine |-> IF T = {} THEN plan
                                                    ELSE ours(g[T \ {Room!Max(T)}])]
<1>1. \A p : ours(p) = turn(p)
  BY RoomBalanceOnce
<1>2. mine = items
  BY RoomPieces
<1>3. \A g : Ours(g) = Fold(g)
  <2> HIDE DEF turn, ours, mine, items
  <2> QED
    BY <1>1, <1>2, RoomPieces
<1>4. Balance(plan, open) = (CHOOSE g : g = Fold(g))[DOMAIN items]
  BY Zenon DEF Balance, Repeat, FoldLeft, MapThenFoldSet
<1>5. Room!Balance(plan, open) = (CHOOSE g : g = Ours(g))[DOMAIN mine]
  BY Zenon DEF Room!Balance, Room!Repeat, Room!FoldLeft, Room!MapThenFoldSet
<1>6. (CHOOSE g : g = Ours(g)) = (CHOOSE g : g = Fold(g))
  <2> HIDE DEF Ours, Fold
  <2> QED
    BY <1>3, Zenon
<1> HIDE DEF Ours, Fold, items, mine
<1> QED
  BY ONLY <1>2, <1>4, <1>5, <1>6

\* The plan after a change.
LEMMA RoomPlanRebalance ==
  ASSUME NEW r
  PROVE  Room!PlanRebalance(r) = PlanRebalance(r)
<1> DEFINE open == OpenTables(r)
           doomed == Emptiest(r, open)
           survivors == open \ {doomed}
           start == [room |-> r, moves |-> <<>>]
           broken == BreakTable(start, doomed, survivors)
<1>1. PlanRebalance(r) =
        IF Cardinality(open) < 2 THEN <<>>
        ELSE IF Breaks(r, survivors) THEN Balance(broken, survivors).moves
        ELSE Balance(start, open).moves
  BY DEF PlanRebalance
<1>2. Room!PlanRebalance(r) =
        IF Cardinality(open) < 2 THEN <<>>
        ELSE IF Breaks(r, survivors) THEN Balance(broken, survivors).moves
        ELSE Balance(start, open).moves
  BY RoomPieces, RoomChoices, RoomBreakTable, RoomBalance, RoomBreaks DEF Room!PlanRebalance
<1> QED
  BY <1>1, <1>2

\* An entry that goes.
LEMMA RoomVacate ==
  ASSUME NEW r, NEW e
  PROVE  Room!Vacate(r, e) = Vacate(r, e)
BY RoomStatements, RoomApplyMoves, RoomPlanRebalance DEF Room!Vacate, Vacate

\* A new table that is filled.
LEMMA RoomFillNewTable ==
  ASSUME NEW before, NEW after
  PROVE  Room!FillNewTable(before, after) = FillNewTable(before, after)
BY RoomPieces, RoomApplyMoves, RoomPlanRebalance DEF Room!FillNewTable, FillNewTable

\* An entry that comes.
LEMMA RoomSeatEntry ==
  ASSUME NEW r, NEW e, NEW c
  PROVE  Room!SeatEntry(r, e, c) = SeatEntry(r, e, c)
<1> DEFINE plan == PlanInitialSeat(r, c)
           opened == IF plan.opens THEN [r EXCEPT !.tables = Append(@, OpenTable(c))] ELSE r
<1>1. SeatEntry(r, e, c) = FillNewTable(r, TakePlace(opened, e, plan.place))
  BY DEF SeatEntry
<1>2. Room!SeatEntry(r, e, c) = FillNewTable(r, TakePlace(opened, e, plan.place))
  BY RoomPieces, RoomChoices, RoomStatements, RoomFillNewTable DEF Room!SeatEntry
<1> QED
  BY <1>1, <1>2

\* Everyone drawn again.
LEMMA RoomRedraw ==
  ASSUME NEW r, NEW drawn, NEW c
  PROVE  Room!Redraw(r, drawn, c) = Redraw(r, drawn, c)
<1> DEFINE assignments == PlanRedraw(drawn, c)
           open == Ascending(OpenTables(r))
           missing == TablesNeeded(Len(drawn), c) - Len(open)
           added == [i \in 1 .. missing |-> OpenTable(c)]
           destination(i) == IF i <= Len(open) THEN open[i] ELSE Len(r.tables) + i - Len(open)
           moves == [i \in DOMAIN assignments |->
                      [assignments[i] EXCEPT !.place.table = destination(@)]]
           wide == [r EXCEPT !.tables = @ \o added]
<1>1. Redraw(r, drawn, c) = CloseEmptyTables(ApplyMoves(StandUp(wide), moves))
  BY DEF Redraw
<1>2. Room!Redraw(r, drawn, c) = CloseEmptyTables(ApplyMoves(StandUp(wide), moves))
  BY RoomPieces, RoomChoices, RoomStatements, RoomPlanRedraw, RoomApplyMoves DEF Room!Redraw
<1> QED
  BY <1>1, <1>2

-----------------------------------------------------------------------------
(* The room.                                                               *)

\* Everyone seated has an own seat, the tables are balanced, and whoever has not come yet
\* has no seat.
SeatingIInv ==
  /\ came \in 0 .. MaxEntries
  /\ RoomOk(room, 1 .. MaxEntries, TableCapacity)
  /\ Balanced(room, TableCapacity)
  /\ \A e \in 1 .. MaxEntries : e > came => room.at[e] = NoSeat

\* The room is empty at first.
LEMMA SeatingInitially == Room!Init => SeatingIInv
<1> SUFFICES ASSUME Room!Init PROVE SeatingIInv
  OBVIOUS
<1>1. /\ room = [tables |-> <<>>, at |-> [e \in 1 .. MaxEntries |-> NoSeat], clash |-> FALSE]
      /\ came = 0
  BY RoomPieces DEF Room!Init
<1>2. room.tables = <<>> /\ room.clash = FALSE /\ \A e \in 1 .. MaxEntries : room.at[e] = NoSeat
  BY <1>1
<1>3. room \in Rooms(1 .. MaxEntries)
  BY <1>1 DEF Rooms, NoSeat, Place
<1>4. OpenTables(room) = {}
  BY <1>2 DEF OpenTables
<1>5. RoomOk(room, 1 .. MaxEntries, TableCapacity)
  BY <1>2, <1>3, <1>4 DEF RoomOk, Sound, Tidy, Alike
<1>6. Balanced(room, TableCapacity)
  <2>1. Cardinality({}) = 0
    BY FS_EmptySet
  <2> QED
    BY <1>4, <2>1 DEF Balanced, Level, Snug
<1> QED
  BY <1>1, <1>2, <1>5, <1>6, SeatingConstants DEF SeatingIInv

\* Who has a seat in the room.
LEMMA RoomSeated == Room!Seated = SeatedIn(room)
BY RoomPieces DEF Room!Seated, SeatedIn

\* The properties of the room follow.
LEMMA SeatingFollows == SeatingIInv => Room!SeatsAreSound /\ Room!PlansNeverClash
<1> SUFFICES ASSUME SeatingIInv PROVE Room!SeatsAreSound /\ Room!PlansNeverClash
  OBVIOUS
<1> DEFINE D == 1 .. MaxEntries
<1>1. Sound(room, D) /\ Tidy(room) /\ room \in Rooms(D) /\ room.clash = FALSE
  BY DEF SeatingIInv, RoomOk, Sound
<1>2. room.at \in [D -> [table : Nat, seat : Nat]] /\ DOMAIN room.at = D
  BY <1>1 DEF Rooms
<1>3. Len(room.tables) \in Nat /\ DOMAIN room.tables = 1 .. Len(room.tables)
  BY <1>1 DEF Rooms
<1>4. \A e \in D : room.at[e] # NoSeat => SeatIsSound(room, D, e)
  BY <1>1 DEF Sound
<1>5. \A e \in D : room.at[e] \in [table : 0 .. Len(room.tables), seat : Nat]
  <2> SUFFICES ASSUME NEW e \in D
               PROVE  room.at[e] \in [table : 0 .. Len(room.tables), seat : Nat]
    OBVIOUS
  <2>1. CASE room.at[e] = NoSeat
    BY <1>3, <2>1 DEF NoSeat, Place
  <2>2. CASE room.at[e] # NoSeat
    <3>1. room.at[e].table \in 1 .. Len(room.tables)
      BY <1>3, <1>4, <2>2 DEF SeatIsSound, OpenTables
    <3>2. room.at[e] \in [table : Nat, seat : Nat]
      BY <1>2
    <3> QED
      BY <3>1, <3>2
  <2> QED
    BY <2>1, <2>2
<1>6. room.at \in [D -> [table : 0 .. Len(room.tables), seat : Nat]]
  BY <1>2, <1>5
<1>7. Room!Seated = {e \in D : room.at[e] # NoSeat}
  BY <1>2, RoomSeated DEF SeatedIn
<1>8. \A e \in Room!Seated :
        /\ room.at[e].table \in OpenTables(room)
        /\ room.at[e].seat \in 1 .. room.tables[room.at[e].table].capacity
        /\ \A o \in Room!Seated \ {e} : room.at[o] # room.at[e]
  BY <1>4, <1>7 DEF SeatIsSound
<1>9. \A n \in OpenTables(room) : Occupants(room, n) # {}
  BY <1>1 DEF Tidy
<1> QED
  BY <1>1, <1>6, <1>8, <1>9, RoomPieces DEF Room!SeatsAreSound, Room!PlansNeverClash

\* The open tables differ by one player at most, and the players need all of them.
LEMMA SeatingIsBalanced == SeatingIInv => Room!TablesBalanced
<1> SUFFICES ASSUME SeatingIInv PROVE Room!TablesBalanced
  OBVIOUS
<1> DEFINE D == 1 .. MaxEntries
           open == OpenTables(room)
<1>1. /\ RoomOk(room, D, TableCapacity) /\ Balanced(room, TableCapacity)
      /\ room \in Rooms(D) /\ IsFiniteSet(D)
  <2>1. IsFiniteSet(D)
    BY FS_Interval, SeatingConstants
  <2> QED
    BY <2>1 DEF SeatingIInv, RoomOk, Sound
<1>2. \A t : Occupancy(room, t) \in Nat
  BY <1>1, RoomTypes
<1>3. \A m, n \in open : Occupancy(room, m) - Occupancy(room, n) <= 1
  BY <1>1, <1>2 DEF Balanced, Level
<1>4. Cardinality(open) > 1 =>
        TablesNeeded(Cardinality(SeatedIn(room)), TableCapacity) = Cardinality(open)
  BY <1>1, BalancedCounts, SeatingConstants
<1> HIDE DEF D
<1> QED
  BY <1>3, <1>4, RoomPieces, RoomStatements, RoomSeated DEF Room!TablesBalanced

\* Whoever leaves, the plan that follows moves nobody twice.
LEMMA SeatingMovesOnce == SeatingIInv => Room!NobodyMovesTwice
<1> SUFFICES ASSUME SeatingIInv PROVE Room!NobodyMovesTwice
  OBVIOUS
<1> DEFINE D == 1 .. MaxEntries
<1>1. /\ RoomOk(room, D, TableCapacity) /\ Balanced(room, TableCapacity)
      /\ IsFiniteSet(D) /\ Cardinality(D) = MaxEntries
  BY FS_Interval, SeatingConstants DEF SeatingIInv
<1>2. ASSUME NEW e \in SeatedIn(room)
      PROVE  LET vacated == Release(room, {e})
                 open == OpenTables(vacated)
                 moves == PlanRebalance(vacated)
                 fewest == Min({Occupancy(vacated, t) : t \in open} \cup {MaxEntries})
             IN  /\ \A i, j \in DOMAIN moves : moves[i].entry = moves[j].entry => i = j
                 /\ Len(moves) <= Max({1, fewest})
  <2> DEFINE vacated == Release(room, {e})
             open == OpenTables(vacated)
             moves == PlanRebalance(vacated)
             doomed == Emptiest(vacated, open)
             counts == {Occupancy(vacated, t) : t \in open} \cup {MaxEntries}
             fewest == Min(counts)
             either == {1, fewest}
  <2>1. /\ NoneTwice(moves) /\ Len(moves) \in Nat
        /\ Len(moves) <= 1 \/ Len(moves) <= Occupancy(vacated, doomed)
        /\ doomed \in open
        /\ \A t \in open : /\ Occupancy(vacated, doomed) <= Occupancy(vacated, t)
                           /\ Occupancy(vacated, t) \in Nat
                           /\ Occupancy(vacated, t) <= MaxEntries
    BY <1>1, VacatePlanIsShort, SeatingConstants
  <2> HIDE DEF vacated, open, moves, doomed
  <2>2. /\ counts \in SUBSET Nat /\ counts # {}
        /\ \A k \in counts : Occupancy(vacated, doomed) <= k
    BY <2>1, SeatingConstants
  <2> HIDE DEF counts
  <2>3. fewest \in Nat /\ Occupancy(vacated, doomed) <= fewest
    BY <2>2, SmallestOf
  <2> HIDE DEF fewest
  <2>4. Max(either) \in Nat /\ 1 <= Max(either) /\ fewest <= Max(either)
    <3> DEFINE n == fewest + 1
    <3>1. /\ either \in SUBSET Nat /\ either # {} /\ n \in Nat /\ \A k \in either : k <= n
          /\ 1 \in either /\ fewest \in either
      BY <2>3
    <3> HIDE DEF either, n
    <3>2. Max(either) \in either /\ \A k \in either : k <= Max(either)
      BY <3>1, LargestOf
    <3> QED
      BY <3>1, <3>2
  <2>5. Len(moves) <= Max(either)
    <3>1. Occupancy(vacated, doomed) \in Nat
      BY <2>1
    <3> HIDE DEF either
    <3> QED
      BY <2>1, <2>3, <2>4, <3>1
  <2>6. \A i, j \in DOMAIN moves : moves[i].entry = moves[j].entry => i = j
    BY <2>1 DEF NoneTwice
  <2> QED
    BY <2>5, <2>6 DEF moves, fewest, counts, open, vacated
<1>3. ASSUME NEW e \in Room!Seated
      PROVE  LET vacated == Room!Release(room, {e})
                 open == Room!OpenTables(vacated)
                 moves == Room!PlanRebalance(vacated)
                 fewest == Room!Min({Room!Occupancy(vacated, t) : t \in open} \cup {MaxEntries})
             IN  /\ \A i, j \in DOMAIN moves : moves[i].entry = moves[j].entry => i = j
                 /\ Len(moves) <= Room!Max({1, fewest})
  <2> DEFINE v == Room!Release(room, {e})
             moves == Room!PlanRebalance(v)
             ours == {Room!Occupancy(v, t) : t \in Room!OpenTables(v)} \cup {MaxEntries}
             counts == {Occupancy(v, t) : t \in OpenTables(v)} \cup {MaxEntries}
  <2>1. e \in SeatedIn(room) /\ v = Release(room, {e})
    BY RoomSeated, RoomStatements
  <2> HIDE DEF v
  <2>2. moves = PlanRebalance(v) /\ ours = counts
    BY RoomPieces, RoomPlanRebalance
  <2>3. /\ \A i, j \in DOMAIN moves : moves[i].entry = moves[j].entry => i = j
        /\ Len(moves) <= Max({1, Min(counts)})
    <3> HIDE DEF moves
    <3> QED BY <1>2, <2>1, <2>2
  <2>4. Room!Max({1, Room!Min(ours)}) = Max({1, Min(counts)})
    <3> HIDE DEF ours, counts
    <3> QED BY <2>2, RoomPieces
  <2> HIDE DEF moves, ours, counts
  <2>5. /\ \A i, j \in DOMAIN moves : moves[i].entry = moves[j].entry => i = j
        /\ Len(moves) <= Room!Max({1, Room!Min(ours)})
    BY <2>3, <2>4
  <2> QED
    BY ONLY <2>5 DEF moves, ours, v
<1> QED
  BY <1>3, Zenon DEF Room!NobodyMovesTwice

\* An entry that comes gets a seat.
LEMMA SeatingEnter == SeatingIInv /\ Room!Enter => SeatingIInv'
<1> SUFFICES ASSUME SeatingIInv, Room!Enter PROVE SeatingIInv'
  OBVIOUS
<1> DEFINE D == 1 .. MaxEntries
           e == came + 1
           after == SeatEntry(room, e, TableCapacity)
<1>1. came' = e /\ room' = after /\ e \in D /\ came \in Nat
  BY RoomSeatEntry, SeatingConstants DEF Room!Enter, SeatingIInv
<1>2. IsFiniteSet(D)
  BY FS_Interval, SeatingConstants
<1>3. RoomOk(room, D, TableCapacity) /\ room.at[e] = NoSeat
  BY <1>1 DEF SeatingIInv
<1>4. /\ RoomOk(after, D, TableCapacity) /\ SeatedIn(after) = SeatedIn(room) \cup {e}
      /\ Balanced(after, TableCapacity)
  <2>1. Balanced(room, TableCapacity)
    BY DEF SeatingIInv
  <2> QED
    BY <1>1, <1>2, <1>3, <2>1, SeatEntryOk, SeatingConstants
<1>5. DOMAIN after.at = D /\ DOMAIN room.at = D
  BY <1>3, <1>4 DEF RoomOk, Sound, Rooms
<1>6. \A d \in D : d > e => after.at[d] = NoSeat
  <2> SUFFICES ASSUME NEW d \in D, d > e PROVE after.at[d] = NoSeat
    OBVIOUS
  <2>1. d # e /\ d > came
    BY <1>1
  <2>2. room.at[d] = NoSeat
    BY <2>1 DEF SeatingIInv
  <2>3. d \notin SeatedIn(after)
    BY <1>4, <2>1, <2>2 DEF SeatedIn
  <2> QED
    BY <1>5, <2>3 DEF SeatedIn
<1> HIDE DEF after, e
<1>7. came' \in 0 .. MaxEntries
  BY <1>1 DEF e
<1> QED
  BY <1>1, <1>4, <1>6, <1>7 DEF SeatingIInv

\* Nobody new is seated by the other routes.
LEMMA SeatingStays ==
  ASSUME SeatingIInv, UNCHANGED came, RoomOk(room', 1 .. MaxEntries, TableCapacity),
         Balanced(room', TableCapacity), SeatedIn(room') \subseteq SeatedIn(room)
  PROVE  SeatingIInv'
<1>1. DOMAIN room'.at = 1 .. MaxEntries /\ DOMAIN room.at = 1 .. MaxEntries
  BY DEF SeatingIInv, RoomOk, Sound, Rooms
<1>2. \A e \in 1 .. MaxEntries : e > came => room'.at[e] = NoSeat
  BY <1>1 DEF SeatingIInv, SeatedIn
<1> QED
  BY <1>2 DEF SeatingIInv

\* An entry that goes leaves everyone else a seat.
LEMMA SeatingLeave == SeatingIInv /\ Room!Leave => SeatingIInv'
<1> SUFFICES ASSUME SeatingIInv, Room!Leave PROVE SeatingIInv'
  OBVIOUS
<1>1. PICK e \in SeatedIn(room) : room' = Vacate(room, e)
  BY RoomVacate, RoomSeated DEF Room!Leave
<1>2. IsFiniteSet(1 .. MaxEntries)
  BY FS_Interval, SeatingConstants
<1>3. RoomOk(room, 1 .. MaxEntries, TableCapacity) /\ Balanced(room, TableCapacity)
  BY DEF SeatingIInv
<1>4. /\ RoomOk(room', 1 .. MaxEntries, TableCapacity)
      /\ SeatedIn(room') = SeatedIn(room) \ {e}
  BY <1>1, <1>2, <1>3, VacateOk
<1>6. Balanced(room', TableCapacity)
  BY <1>1, <1>2, <1>3, VacateBalanced, SeatingConstants
<1>5. UNCHANGED came
  BY DEF Room!Leave
<1> QED
  BY <1>4, <1>5, <1>6, SeatingStays

\* A sequence that has each of its members once, the other way round.
LEMMA ReverseDraws ==
  ASSUME NEW D, NEW s, Draws(s, D)
  PROVE  /\ Draws(Reverse(s), D)
         /\ {Reverse(s)[i] : i \in DOMAIN Reverse(s)} = {s[i] : i \in DOMAIN s}
<1> DEFINE n == Len(s)
           r == [i \in 1 .. n |-> s[(n - i) + 1]]
<1>1. s \in Seq(D) /\ n \in Nat /\ DOMAIN s = 1 .. n /\ s # <<>>
  BY DEF Draws
<1>2. n # 0
  BY <1>1
<1>3. Reverse(s) = r
  BY DEF Reverse
<1>4. \A i \in 1 .. n : (n - i) + 1 \in 1 .. n /\ r[i] = s[(n - i) + 1]
  BY <1>1
<1>5. \A i \in 1 .. n : s[i] \in D
  BY <1>1
<1>6. \A i, j \in 1 .. n : s[i] = s[j] => i = j
  BY <1>1 DEF Draws
<1>7. DOMAIN r = 1 .. n
  OBVIOUS
<1>8. r \in Seq(D)
  BY <1>1, <1>4, <1>5
<1> HIDE DEF r, n
<1>9. r # <<>>
  BY <1>1, <1>2, <1>7
<1>10. \A i, j \in 1 .. n : r[i] = r[j] => i = j
  <2> SUFFICES ASSUME NEW i \in 1 .. n, NEW j \in 1 .. n, r[i] = r[j] PROVE i = j
    OBVIOUS
  <2>1. (n - i) + 1 = (n - j) + 1
    BY <1>4, <1>6
  <2> QED
    BY <1>1, <2>1
<1>11. Draws(r, D)
  BY <1>7, <1>8, <1>9, <1>10 DEF Draws
<1>12. \A i \in 1 .. n : \E j \in 1 .. n : r[j] = s[i]
  <2> SUFFICES ASSUME NEW i \in 1 .. n PROVE \E j \in 1 .. n : r[j] = s[i]
    OBVIOUS
  <2>1. (n - i) + 1 \in 1 .. n /\ (n - ((n - i) + 1)) + 1 = i
    BY <1>1
  <2>2. r[(n - i) + 1] = s[i]
    BY <1>4, <2>1
  <2> QED
    BY <2>1, <2>2
<1>13. {r[i] : i \in 1 .. n} = {s[i] : i \in 1 .. n}
  <2>1. \A i \in 1 .. n : \E j \in 1 .. n : s[j] = r[i]
    BY <1>4
  <2>2. {r[i] : i \in 1 .. n} \subseteq {s[i] : i \in 1 .. n}
    BY <2>1, Zenon
  <2>3. {s[i] : i \in 1 .. n} \subseteq {r[i] : i \in 1 .. n}
    BY <1>12, Zenon
  <2> QED
    BY <2>2, <2>3
<1> QED
  BY <1>1, <1>3, <1>7, <1>11, <1>13

\* Whoever sits draws, in either order.
LEMMA SeatedDraw ==
  ASSUME NEW n \in Nat, NEW S \in SUBSET (1 .. n), S # {}
  PROVE  /\ Draws(Ascending(S), 1 .. n)
         /\ {Ascending(S)[i] : i \in DOMAIN Ascending(S)} = S
<1>1. S \in SUBSET Nat /\ IsFiniteSet(S)
  <2>1. IsFiniteSet(1 .. n)
    BY FS_Interval
  <2>2. IsFiniteSet(S)
    BY <2>1, FS_Subset
  <2>3. \A x \in 1 .. n : x \in Nat
    OBVIOUS
  <2> QED
    BY <2>2, <2>3
<1> DEFINE s == Ascending(S)
<1>2. /\ s \in Seq(S)
      /\ \A i, j \in DOMAIN s : s[i] = s[j] => i = j
      /\ \A x \in S : \E i \in DOMAIN s : s[i] = x
  <2>1. s \in Seq(S)
    BY <1>1, AscendingMembers
  <2>2. /\ \A i, j \in DOMAIN s : s[i] = s[j] => i = j
        /\ \A x \in S : \E i \in DOMAIN s : s[i] = x
    BY <1>1, AscendingOnce
  <2> QED
    BY <2>1, <2>2
<1> HIDE DEF s
<1>3. \A i \in DOMAIN s : s[i] \in S
  BY <1>2
<1>4. s \in Seq(1 .. n)
  <2> DEFINE T == 1 .. n
  <2>1. Len(s) \in Nat /\ DOMAIN s = 1 .. Len(s) /\ s = [i \in 1 .. Len(s) |-> s[i]]
    BY <1>2
  <2>2. \A i \in 1 .. Len(s) : s[i] \in T
    BY <1>3, <2>1
  <2> HIDE DEF T
  <2>3. s \in [1 .. Len(s) -> T]
    BY <2>1, <2>2
  <2>4. s \in Seq(T)
    BY <2>1, <2>3
  <2> QED
    BY <2>4 DEF T
<1>5. s # <<>>
  <2>1. PICK x \in S : TRUE
    OBVIOUS
  <2>2. PICK i \in DOMAIN s : s[i] = x
    BY <1>2
  <2> QED
    BY <2>2
<1>6. {s[i] : i \in DOMAIN s} = S
  <2>1. {s[i] : i \in DOMAIN s} \subseteq S
    BY <1>3, Zenon
  <2>2. S \subseteq {s[i] : i \in DOMAIN s}
    BY <1>2, Zenon
  <2> QED
    BY <2>1, <2>2
<1> QED
  BY <1>2, <1>4, <1>5, <1>6 DEF Draws, s

\* Whoever sits draws a new seat.
LEMMA SeatingRedraw == SeatingIInv /\ Room!RedrawTables => SeatingIInv'
<1> SUFFICES ASSUME SeatingIInv, Room!RedrawTables PROVE SeatingIInv'
  OBVIOUS
<1> DEFINE D == 1 .. MaxEntries
           S == SeatedIn(room)
<1>1. RoomOk(room, D, TableCapacity) /\ DOMAIN room.at = D
  BY DEF SeatingIInv, RoomOk, Sound, Rooms
<1>2. S # {} /\ S \in SUBSET D /\ UNCHANGED came
  BY <1>1, RoomSeated DEF Room!RedrawTables, SeatedIn
<1>3. PICK drawn \in {Ascending(S), Reverse(Ascending(S))} :
        room' = Redraw(room, drawn, TableCapacity)
  BY RoomSeated, RoomChoices, RoomReverse, RoomRedraw DEF Room!RedrawTables
<1> HIDE DEF S
<1>4. Draws(drawn, D) /\ {drawn[i] : i \in DOMAIN drawn} = S
  <2>1. Draws(Ascending(S), D) /\ {Ascending(S)[i] : i \in DOMAIN Ascending(S)} = S
    BY <1>2, SeatedDraw, SeatingConstants
  <2>2. CASE drawn = Ascending(S)
    BY <2>1, <2>2
  <2>3. CASE drawn = Reverse(Ascending(S))
    <3> DEFINE s == Ascending(S)
    <3> HIDE DEF s, D
    <3>1. Draws(s, D) /\ {s[i] : i \in DOMAIN s} = S
      BY <2>1 DEF s
    <3>2. Draws(Reverse(s), D) /\ {Reverse(s)[i] : i \in DOMAIN Reverse(s)} = S
      BY <3>1, ReverseDraws
    <3> QED
      BY <2>3, <3>2 DEF s
  <2> QED
    BY <1>3, <2>2, <2>3
<1>5. IsFiniteSet(D)
  BY FS_Interval, SeatingConstants
<1>6. /\ RoomOk(room', D, TableCapacity)
      /\ SeatedIn(room') = {drawn[i] : i \in DOMAIN drawn}
      /\ Balanced(room', TableCapacity)
  BY <1>1, <1>3, <1>4, <1>5, RedrawOk, SeatingConstants
<1> QED
  BY <1>2, <1>4, <1>6, SeatingStays DEF S

\* No step of the room loses a seat or gives it twice.
LEMMA SeatingEveryStep == SeatingIInv /\ [Room!Next]_(Room!vars) => SeatingIInv'
<1>1. SeatingIInv /\ UNCHANGED Room!vars => SeatingIInv'
  BY DEF Room!vars, SeatingIInv
<1> QED
  BY <1>1, SeatingEnter, SeatingLeave, SeatingRedraw DEF Room!Next

SeatingPart == part = "seating" => SeatingIInv

\* After every route that moves seats, each player seated has an own seat of an open table
\* and nobody sits at none, for any number of entries and tables of any size; and no
\* statement of a plan meets the unique index on active seats (planInitialSeat,
\* planRebalance, planRedraw).
THEOREM SeatsStaySound == Spec => []SeatsAreSound
<1>1. Init => SeatingPart
  BY PartBegins, SeatingInitially DEF SeatingPart
<1>2. SeatingPart /\ [Next]_vars => SeatingPart'
  BY PartMoves, SeatingEveryStep DEF SeatingPart
<1>3. SeatingPart => SeatsAreSound
  BY SeatingFollows DEF SeatingPart, SeatsAreSound
<1> QED
  BY <1>1, <1>2, <1>3, PTL DEF Spec

\* Open tables differ by one player at most and are never more than the players need,
\* whoever comes, goes or draws, for any number of entries and tables of any size
\* (planRebalance, CloseEmptyTables; MT-001).
THEOREM TablesStayBalanced == Spec => []TablesBalanced
<1>1. Init => SeatingPart
  BY PartBegins, SeatingInitially DEF SeatingPart
<1>2. SeatingPart /\ [Next]_vars => SeatingPart'
  BY PartMoves, SeatingEveryStep DEF SeatingPart
<1>3. SeatingPart => TablesBalanced
  BY SeatingIsBalanced DEF SeatingPart, TablesBalanced
<1> QED
  BY <1>1, <1>2, <1>3, PTL DEF Spec

\* Whoever leaves next, the plan that follows moves nobody twice, and no more players than
\* sit at the emptiest table, or a single one (planRebalance, decision d).
THEOREM PlansMoveNobodyTwice == Spec => []NobodyMovesTwice
<1>1. Init => SeatingPart
  BY PartBegins, SeatingInitially DEF SeatingPart
<1>2. SeatingPart /\ [Next]_vars => SeatingPart'
  BY PartMoves, SeatingEveryStep DEF SeatingPart
<1>3. SeatingPart => NobodyMovesTwice
  BY SeatingMovesOnce DEF SeatingPart, NobodyMovesTwice
<1> QED
  BY <1>1, <1>2, <1>3, PTL DEF Spec
=============================================================================
