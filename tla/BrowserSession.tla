---------------------------- MODULE BrowserSession ----------------------------
(***************************************************************************)
(* The session of a browser (http-client.ts, session-provider.tsx) in front *)
(* of RefreshTokens.  Tabs share one cookie and the club of localStorage;   *)
(* each has an access token and a club in module variables, a copy of them  *)
(* in React state, and a counter of attempts against answers that are late. *)
(* A flow is one asynchronous function: it awaits one request at a time,    *)
(* and goes on when the answer is there, whatever happened meanwhile.       *)
(***************************************************************************)
EXTENDS RefreshTokens

CONSTANTS Tabs,
          Slots,            \* flows of a tab that may run at the same time
          ClubsOf,          \* the clubs of each user, in the order of listMyClubes
          Workload,         \* what the users of this instance do
          MaxAttempts,      \* bound: sign-ins of a tab
          MaxLoads          \* bound: page loads of a tab

VARIABLES cookie,           \* the refresh token of the cookie jar, 0 for none
          stored,           \* CURRENT_CLUBE_STORAGE_KEY
          tab,
          flow

browserVars == <<cookie, stored, tab, flow>>
vars == <<serverVars, browserVars>>

NoFlow == [pc |-> "idle", kind |-> None, stage |-> None, attempt |-> 0, who |-> None,
           bearer |-> None, retried |-> FALSE, call |-> None]

\* status, user, clubs, shown (currentClubeId) are React state; access, sent (the
\* club that requests name) and renewal (refreshInFlight) are of the module.  Two
\* fields are only of the model: signed, whom the last sign-in that ended is for, and
\* overlap, whether a renewal began before that sign-in was over.
Opened == [loads |-> 1, status |-> "loading", user |-> None, access |-> None,
           attempt |-> 1, clubs |-> <<>>, shown |-> None, sent |-> None, renewal |-> None,
           signed |-> None, overlap |-> FALSE]

\* The effect of the provider's first render: me() without an access token.
Hydrating == [f \in Slots |->
  IF f = CHOOSE s \in Slots : TRUE
  THEN [NoFlow EXCEPT !.pc = "sent", !.kind = "hydrate", !.stage = "me", !.attempt = 1]
  ELSE NoFlow]

\* One page load per tab, in a browser where somebody was signed in.
Init ==
  /\ now = 0
  /\ tokens \in {<<Row(u, 1, 0)>> : u \in Users}
  /\ call = [c \in Calls |-> Quiet]
  /\ cookie \in {0, 1}
  /\ stored = None
  /\ tab = [t \in Tabs |-> Opened]
  /\ flow = [t \in Tabs |-> Hydrating]

-----------------------------------------------------------------------------

\* Mutant: answers are applied however late they are.
AnyAttempt(b, attempt) == TRUE

IsCurrentAttempt(b, attempt) == b.attempt = attempt

\* request(): the headers take the access token there is at that moment.
Send(b, q, stage) == [q EXCEPT !.pc = "sent", !.stage = stage, !.bearer = b.access,
                               !.retried = FALSE, !.call = None]

SigningIn(t) == \E f \in Slots : flow[t][f].kind = "login"

Cleared(b) == [b EXCEPT !.access = None, !.sent = None, !.user = None, !.clubs = <<>>,
                        !.shown = None, !.status = "unauthenticated"]

\* A flow that throws ends; only the hydration leaves a mark, when it is current.
Thrown(b, flows) ==
  IF b.status = "loading" /\ \E q \in flows : q.kind = "hydrate" /\ IsCurrentAttempt(b, q.attempt)
  THEN [b EXCEPT !.status = "unauthenticated"] ELSE b

End(t, f, b) ==
  /\ tab' = [tab EXCEPT ![t] = b]
  /\ flow' = [flow EXCEPT ![t][f] = NoFlow]

-----------------------------------------------------------------------------
(* Requests of the API, each tried again at most once after a 401.         *)

\* A page asks for something, a dialog for the clubs again (refreshClubes).
Begin(t, f, kind, stage) ==
  /\ kind \in Workload
  /\ tab[t].status = "authenticated" /\ flow[t][f].pc = "idle"
  /\ flow' = [flow EXCEPT ![t][f] = Send(tab[t], [NoFlow EXCEPT !.kind = kind], stage)]
  /\ UNCHANGED <<serverVars, cookie, stored, tab>>

Query(t, f) == Begin(t, f, "query", "query")
RefreshClubes(t, f) == Begin(t, f, "refreshClubes", "clubs")

AtApi(q) == q.pc = "sent" /\ q.stage \in {"me", "clubs", "query"}

\* Network error, time-out or 5xx: nothing is tried again.
Unanswered(t, f) ==
  /\ AtApi(flow[t][f])
  /\ End(t, f, Thrown(tab[t], {flow[t][f]}))
  /\ UNCHANGED <<serverVars, cookie, stored>>

\* An access token may have expired when the request arrives, but for the one that a
\* sign-in has just been given.  The first 401 starts a renewal, the others join it.
Unauthorized(t, f) ==
  LET q == flow[t][f]
  IN  /\ AtApi(q)
      /\ q.kind = "login" => q.bearer = None
      /\ IF ~q.retried
         THEN /\ flow' = [flow EXCEPT ![t][f].pc = "renewing"]
              /\ IF tab[t].renewal = None
                 THEN \E c \in Calls :
                        /\ Refresh(c, cookie)
                        /\ tab' = [tab EXCEPT ![t] =
                             [tab[t] EXCEPT !.renewal = [call |-> c, attempt |-> tab[t].attempt],
                                            !.overlap = tab[t].overlap \/ SigningIn(t)]]
                 ELSE UNCHANGED <<serverVars, tab>>
         ELSE /\ End(t, f, Thrown(tab[t], {q}))
              /\ UNCHANGED serverVars
      /\ UNCHANGED <<cookie, stored>>

\* The handler of the 401s ends, and whoever waits for it goes on in the same task:
\* renewal is the access token it returns, or null.
Settle(t, b, renewed) ==
  LET waiting == {f \in Slots : flow[t][f].pc = "renewing"}
      done == [b EXCEPT !.renewal = None]
  IN  IF renewed
      THEN /\ tab' = [tab EXCEPT ![t] = done]
           /\ flow' = [flow EXCEPT ![t] = [f \in Slots |->
                IF f \in waiting
                THEN [Send(done, @[f], @[f].stage) EXCEPT !.retried = TRUE] ELSE @[f]]]
      ELSE /\ tab' = [tab EXCEPT ![t] = Thrown(done, {flow[t][f] : f \in waiting})]
           /\ flow' = [flow EXCEPT ![t] = [f \in Slots |-> IF f \in waiting THEN NoFlow ELSE @[f]]]

\* Only a 401 ends the session, and only that of the attempt it was asked in.
Renewed(t) ==
  LET b == tab[t]
      answer == call[b.renewal.call]
      current == IsCurrentAttempt(b, b.renewal.attempt)
      own == b.renewal.attempt = b.attempt /\ ~b.overlap
  IN  /\ b.renewal # None /\ answer.pc = "answered"
      /\ IF answer.status = 200
         THEN /\ cookie' = answer.issued
              /\ Settle(t, IF current THEN [b EXCEPT !.access = tokens[answer.issued].user] ELSE b, TRUE)
         ELSE /\ Settle(t, IF current /\ answer.status = 401
                           THEN [Cleared(b) EXCEPT !.signed = IF own THEN None ELSE @]
                           ELSE b, FALSE)
              /\ UNCHANGED cookie
      /\ Read(b.renewal.call)
      /\ UNCHANGED stored

\* The answer never comes: the server may have rotated the cookie all the same.
RenewalLost(t) ==
  /\ tab[t].renewal # None
  /\ Settle(t, tab[t], FALSE)
  /\ UNCHANGED <<serverVars, cookie, stored>>

\* resolveClubes: the club of localStorage when it is of the list, or the first.
Current(clubs) ==
  IF \E i \in DOMAIN clubs : clubs[i] = stored THEN stored
  ELSE IF clubs = <<>> THEN None ELSE clubs[1]

ApplyClubes(b, clubs) == [b EXCEPT !.clubs = clubs, !.shown = Current(clubs)]

\* 200: the user of the bearer, or the bearer's clubs.  resolveClubes writes the club
\* that requests name before anybody asks whether the attempt is current.
Succeed(t, f) ==
  LET q == flow[t][f]
      clubs == ClubsOf[q.bearer]
      b == [tab[t] EXCEPT !.sent = Current(clubs)]
      signedIn == [ApplyClubes(b, clubs) EXCEPT
                     !.user = q.who, !.status = "authenticated",
                     !.signed = IF q.kind = "login" THEN q.who ELSE @]
  IN  /\ AtApi(q) /\ q.bearer # None
      /\ \/ q.stage = "query" /\ End(t, f, tab[t])
         \/ /\ q.stage = "me"
            /\ flow' = [flow EXCEPT ![t][f] = Send(tab[t], [q EXCEPT !.who = q.bearer], "clubs")]
            /\ UNCHANGED tab
         \/ /\ q.stage = "clubs"
            /\ End(t, f, IF q.kind = "refreshClubes" THEN ApplyClubes(b, clubs)
                         ELSE IF IsCurrentAttempt(b, q.attempt) THEN signedIn ELSE b)
      /\ UNCHANGED <<serverVars, cookie, stored>>

-----------------------------------------------------------------------------
(* Signing in and out.                                                     *)

\* The button is off while a sign-in runs; a password may be wrong.
LoginClick(t, f, u) ==
  /\ "login" \in Workload
  /\ flow[t][f].pc = "idle" /\ ~SigningIn(t) /\ tab[t].attempt < MaxAttempts
  /\ tab' = [tab EXCEPT ![t].attempt = @ + 1, ![t].signed = None, ![t].overlap = FALSE]
  /\ \E c \in Calls :
       /\ \/ Login(c, u)
          \/ call[c].pc = "idle" /\ Answer(c, 401, 0) /\ UNCHANGED <<tokens, now>>
       /\ flow' = [flow EXCEPT ![t][f] =
            [NoFlow EXCEPT !.pc = "sent", !.kind = "login", !.stage = "login", !.who = u,
                           !.attempt = tab[t].attempt + 1, !.call = c]]
  /\ UNCHANGED <<cookie, stored>>

LoginAnswered(t, f) ==
  LET q == flow[t][f]
      answer == call[q.call]
      b == [tab[t] EXCEPT !.access = q.who]
  IN  /\ q.stage = "login" /\ answer.pc = "answered"
      /\ cookie' = IF answer.status = 200 THEN answer.issued ELSE cookie
      /\ IF answer.status = 200 /\ IsCurrentAttempt(b, q.attempt)
         THEN /\ tab' = [tab EXCEPT ![t] = b]
              /\ flow' = [flow EXCEPT ![t][f] = Send(b, q, "me")]
         ELSE End(t, f, tab[t])
      /\ Read(q.call)
      /\ UNCHANGED stored

LoginLost(t, f) ==
  /\ flow[t][f].stage = "login"
  /\ End(t, f, tab[t])
  /\ UNCHANGED <<serverVars, cookie, stored>>

LogoutClick(t, f) ==
  /\ "logout" \in Workload
  /\ tab[t].status = "authenticated" /\ flow[t][f].pc = "idle"
  /\ \E c \in Calls :
       /\ Logout(c, cookie)
       /\ flow' = [flow EXCEPT ![t][f] = [NoFlow EXCEPT !.pc = "sent", !.kind = "logout",
                                                        !.stage = "logout", !.call = c]]
  /\ UNCHANGED <<cookie, stored, tab>>

\* The session is cleared whether or not the answer came, with the cookie when it did.
LogoutEnds(t, f) ==
  LET q == flow[t][f]
  IN  /\ q.stage = "logout"
      /\ End(t, f, [Cleared(tab[t]) EXCEPT !.signed = None])
      /\ \/ call[q.call].pc = "answered" /\ Read(q.call) /\ cookie' = 0
         \/ UNCHANGED <<serverVars, cookie>>
      /\ UNCHANGED stored

SwitchClube(t) ==
  /\ "switchClube" \in Workload /\ tab[t].status = "authenticated"
  /\ \E i \in DOMAIN tab[t].clubs :
       LET club == tab[t].clubs[i]
       IN  /\ tab' = [tab EXCEPT ![t].sent = club, ![t].shown = club]
           /\ stored' = club
  /\ UNCHANGED <<serverVars, cookie, flow>>

\* The page is loaded again: the memory of the tab is gone, its requests are not.
Reload(t) ==
  /\ "reload" \in Workload /\ tab[t].loads < MaxLoads
  /\ tab' = [tab EXCEPT ![t] = [Opened EXCEPT !.loads = tab[t].loads + 1]]
  /\ flow' = [flow EXCEPT ![t] = Hydrating]
  /\ UNCHANGED <<serverVars, cookie, stored>>

-----------------------------------------------------------------------------

Awaited(c) ==
  \E t \in Tabs : \/ tab[t].renewal # None /\ tab[t].renewal.call = c
                  \/ \E f \in Slots : flow[t][f].call = c

\* The server, which goes on with requests that nobody waits for any more.
Server ==
  /\ \/ \E c \in Calls : Work(c) \/ Fail(c) \/ (~Awaited(c) /\ Read(c))
     \/ Tick
  /\ UNCHANGED browserVars

\* What the browser does by itself: every request ends, by time-out if not before.
Proceed(t, f) ==
  \/ Unanswered(t, f) \/ Unauthorized(t, f) \/ Succeed(t, f)
  \/ LoginAnswered(t, f) \/ LoginLost(t, f) \/ LogoutEnds(t, f)

Renewal(t) == Renewed(t) \/ RenewalLost(t)

BrowserNext ==
  \/ Server
  \/ \E t \in Tabs :
       \/ Renewal(t) \/ SwitchClube(t) \/ Reload(t)
       \/ \E f \in Slots :
            \/ Proceed(t, f) \/ Query(t, f) \/ RefreshClubes(t, f) \/ LogoutClick(t, f)
            \/ \E u \in Users : LoginClick(t, f, u)

BrowserSpec == Init /\ [][BrowserNext]_vars

-----------------------------------------------------------------------------

\* Once a sign-in is over the tab stays signed in, as whom it was for, until its user
\* signs out or in again, or the server refuses a renewal: no answer to anything that
\* was under way before it does that, provided that none of it renewed the session
\* while the sign-in was running (comments of session-provider.tsx, 141-148, 193-207).
LoginStands ==
  \A t \in Tabs : tab[t].signed # None /\ ~tab[t].overlap =>
    tab[t].status = "authenticated" /\ tab[t].user = tab[t].signed

\* The same, whatever renewed the session: from the click on, only the result of this
\* sign-in writes the state of the session (comment in login).
OnlyThisLoginWrites ==
  \A t \in Tabs : tab[t].signed # None =>
    tab[t].status = "authenticated" /\ tab[t].user = tab[t].signed
=============================================================================
