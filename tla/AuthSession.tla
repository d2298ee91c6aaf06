---- MODULE AuthSession ----
(***************************************************************************)
(* The signed-in state of one browser: several tabs, each with its access  *)
(* token in memory, its React user and its pending API calls; what they    *)
(* share, the stored copy of the access token, the cached user and the     *)
(* refresh cookie; the Next.js route handlers and the backend that         *)
(* rotates refresh tokens.  A token pair is a number, the access token     *)
(* and the refresh token minted together; 0 is no token.                   *)
(***************************************************************************)
EXTENDS Naturals, FiniteSets

CONSTANTS Tab,       \* the tabs of the browser
          Attempts,  \* fetches of an idempotent GET before a network error is reported
          Events     \* bound: events of the environment (visits, expiries, forms, faults)

ASSUME AuthAssumption == IsFiniteSet(Tab) /\ Attempts \in Nat \ {0} /\ Events \in Nat

VARIABLES tab,      \* each tab's page, tokens, user, calls and auth requests
          stored,   \* localStorage tv_access_token
          cached,   \* localStorage holds tv_user
          cookie,   \* the httpOnly refresh cookie
          live,     \* refresh tokens the backend accepts
          good,     \* access tokens the backend accepts
          minted,   \* token pairs minted so far
          promise,  \* what the browser's history promises of its session
          events    \* events of the environment so far

vars == <<tab, stored, cached, cookie, live, good, minted, promise, events>>
server == <<live, good, minted>>

(* AuthTokenResponse: what one minting gave, by its number.                *)
None == 0
Tokens == 0..minted
Page == {"closed", "home", "signin", "callback", "onboarding", "app"}
Protected == {"onboarding", "app"}
Who == {"client", "mount", "form"}
Why == {"me", "mount", "callback", "land", "route", "app"}
Credentials == {"login", "register"}
Loads == {"me", "mount", "callback"}
User == {"unset", "none", "me"}

NoCall == [step |-> "none", token |-> None, left |-> 0]
NoRequest == [kind |-> "none", at |-> "none", jar |-> None, got |-> None]
Closed == [page |-> "closed", mem |-> None, shown |-> None, user |-> "unset", mount |-> "none",
           calls |-> [y \in Why |-> NoCall], req |-> [w \in Who |-> NoRequest]]

isAuthenticated(r) == r.shown # None /\ r.user # "none"
isLoading(r) == r.user = "unset"

(* What a tab finds in its browser: the cookie and the stored token.  A    *)
(* step that changes them passes on what they are after it.                *)
Browser(jar, kept) == [jar |-> jar, kept |-> kept]
AsItIs == Browser(cookie, stored)

(* getAccessToken(): the copy in memory, or else the stored one.           *)
getAccessToken(r, b) == IF r.mem # None THEN r.mem ELSE b.kept

(* An auth request leaves the browser with the cookie of that moment.      *)
Request(r, w, kind, jar, got) ==
  [r EXCEPT !.req[w] = [kind |-> kind, at |-> "sent", jar |-> jar, got |-> got]]

(* The forms' own requests; the one that signs out carries the token.      *)
authLogin(r, mode, jar) == Request(r, "form", mode, jar, None)
authLogout(r, jar, token) == Request(r, "form", "logout", jar, token)

(* refreshAccessToken(): one flight per tab, joined by later callers.      *)
refreshAccessToken(r, jar) ==
  IF r.req["client"].at # "none" THEN r ELSE Request(r, "client", "refresh", jar, None)

(* apiFetch() up to its first fetch.  Bound: of the calls for one purpose  *)
(* a tab has one under way at a time; a further one is left out.           *)
apiFetch(r, why, b) ==
  IF r.calls[why].step # "none" THEN r
  ELSE LET token == getAccessToken(r, b)
           call == [step |-> IF token = None THEN "need" ELSE "sent", token |-> token,
                    left |-> IF why = "app" THEN 1 ELSE Attempts]
           q == [r EXCEPT !.mem = token, !.calls[why] = call]
       IN  IF token = None THEN refreshAccessToken(q, b.jar) ELSE q

(* The provider hears of a token: it shows it and loads the user with it.  *)
Heard(r, n, b) ==
  LET q == [r EXCEPT !.shown = n]
  IN  IF n = None THEN q ELSE apiFetch(q, "me", b)

(* setAccessToken(): memory, storage, for which the action that calls it   *)
(* sets stored', and listeners, who find the token there.                  *)
setAccessToken(r, n, jar) == Heard([r EXCEPT !.mem = n], n, Browser(jar, n))

(* emitAuthExpired() as the provider hears it; its caller clears cached.   *)
emitAuthExpired(r) == [r EXCEPT !.user = "none"]

(* The middleware lets a page through to a browser that has the cookie.    *)
middleware(p, jar) == IF p \in Protected /\ jar = None THEN "signin" ELSE p

(* Whether a user is new is data: after signing in both are possible.      *)
postSignInDestination == {"onboarding", "app"}

(* loadUser(): what the user is after GET /auth/me ended so.               *)
loadUser(u, result) ==
  CASE result = "ok" -> "me"
    [] result = "denied" -> "none"
    [] result = "failed" -> IF u = "unset" THEN "none" ELSE u

CachedAfter(why, result) ==
  IF why \notin Loads \/ result = "failed" THEN cached ELSE result = "ok"

(* Calls end alike, one or those that waited together: loadUser() first,   *)
(* then what was awaiting it.  dest is where the profile sends the user    *)
(* after signing in.                                                       *)
Ended(r, ends, result, b, dest) ==
  LET p == [r EXCEPT !.calls = [y \in Why |-> IF y \in ends THEN NoCall ELSE @[y]],
                     !.user = IF ends \cap Loads # {} THEN loadUser(@, result) ELSE @]
      q == IF "mount" \in ends THEN [Request(p, "mount", "refresh", b.jar, None) EXCEPT !.mount = "had"] ELSE p
      s == IF "callback" \in ends THEN apiFetch(q, "land", b) ELSE q
  IN  IF "route" \in ends \/ ("land" \in ends /\ result = "ok")
      THEN [s EXCEPT !.page = middleware(dest, b.jar)] ELSE s

(* The refresh in flight of a tab settles: every caller goes on, with the  *)
(* new token or without one.                                               *)
\* mutant: only the calls that had no token go on
SettledHalf(r, n, b, dest) ==
  [r EXCEPT !.calls = [y \in Why |-> IF @[y].step = "need" THEN [@[y] EXCEPT !.step = "sent", !.token = n] ELSE @[y]]]
Settled(r, n, b, dest) ==
  LET At(step) == {y \in Why : r.calls[y].step = step}
      q == [r EXCEPT !.calls = [y \in Why |->
               IF y \in At("need") THEN [@[y] EXCEPT !.step = "sent", !.token = n]
               ELSE IF y \in At("renew") /\ n # None THEN [@[y] EXCEPT !.step = "again", !.token = n]
               ELSE @[y]]]
  IN  IF n # None THEN q ELSE Ended(q, At("renew"), "denied", b, dest)

(* What the browser's history promises after this step: once two auth      *)
(* requests overlap, an answer is lost or the backend fails a refresh,     *)
(* nothing.                                                                *)
Requests(f) == {a \in Tab \X Who : f[a[1]].req[a[2]].at # "none"}
Quiet == Requests(tab) = {}
Alone(t, w) == Requests(tab) = {<<t, w>>}
Promised(p) == promise' = IF Cardinality(Requests(tab')) > 1 THEN "unknown" ELSE p
Update(t, r) == tab' = [tab EXCEPT ![t] = r]
Event == events < Events /\ events' = events + 1

-----------------------------------------------------------------------------
(* A page is loaded: cached user, stored token, and the provider's effect  *)
(* that verifies the session.                                              *)
Fresh(p) == [Closed EXCEPT !.page = p, !.mem = stored, !.shown = stored,
                           !.user = IF cached THEN "me" ELSE "unset"]
Mounted(r, b) ==
  IF r.mem # None THEN [apiFetch(r, "mount", b) EXCEPT !.mount = "me"]
  ELSE [Request(r, "mount", "refresh", b.jar, None) EXCEPT !.mount = "fresh"]

Visit(t, p) ==
  /\ Event
  /\ tab[t].page = "closed"
  /\ Update(t, Mounted(Fresh(middleware(p, cookie)), AsItIs))
  /\ Promised(promise)
  /\ UNCHANGED <<stored, cached, cookie, server>>

(* The provider's redirect lands on /auth/callback with a token pair: the  *)
(* page's effect runs before the provider's, which hears nothing of the    *)
(* new token but verifies with it.                                         *)
Land(t) ==
  /\ Event
  /\ tab[t].page = "closed"
  /\ minted' = minted + 1
  /\ live' = live \cup {minted'} /\ good' = good \cup {minted'}
  /\ stored' = minted'
  /\ Update(t, Mounted(Request([Fresh("callback") EXCEPT !.mem = minted'], "form", "session", cookie, minted'),
                       Browser(cookie, minted')))
  /\ Promised(promise)
  /\ UNCHANGED <<cached, cookie>>

(* Closing or reloading a tab drops its calls, and the answers its auth    *)
(* requests were to get.                                                   *)
Close(t) ==
  /\ Event
  /\ tab[t].page # "closed"
  /\ \A w \in Who : tab[t].req[w].at # "checked"
  /\ Update(t, Closed)
  /\ promise' = IF \A w \in Who : tab[t].req[w].at = "none" THEN promise ELSE "unknown"
  /\ UNCHANGED <<stored, cached, cookie, server>>

FormIdle(r) == r.req["form"].at = "none" /\ \A y \in {"callback", "land", "route"} : r.calls[y].step = "none"

Go(t, p) ==
  /\ Event
  /\ tab[t].page \notin {"closed", p}
  /\ tab[t].page = "callback" => p = "signin" /\ FormIdle(tab[t])
  /\ Update(t, [tab[t] EXCEPT !.page = middleware(p, cookie)])
  /\ UNCHANGED <<stored, cached, cookie, server, promise>>

UseApp(t) ==
  /\ Event
  /\ tab[t].page = "app"
  /\ Update(t, apiFetch(tab[t], "app", AsItIs))
  /\ Promised(promise)
  /\ UNCHANGED <<stored, cached, cookie, server>>

(* handleSubmit() of the form, in the mode of its tabs.                    *)
Submit(t, mode) ==
  /\ Event
  /\ tab[t].page = "signin" /\ FormIdle(tab[t])
  /\ Update(t, authLogin(tab[t], mode, cookie))
  /\ Promised(promise)
  /\ UNCHANGED <<stored, cached, cookie, server>>

(* The navigation shows its actions when it takes the user for signed in.  *)
SignedIn(r) == isAuthenticated(r) \/ r.user = "me"
LogOut(t) ==
  LET token == getAccessToken(tab[t], AsItIs)
  IN  /\ Event
      /\ tab[t].page \in {"home", "app"} /\ SignedIn(tab[t]) /\ FormIdle(tab[t])
      /\ Update(t, authLogout([tab[t] EXCEPT !.mem = token], cookie, token))
      /\ Promised(promise)
      /\ UNCHANGED <<stored, cached, cookie, server>>

(* The layout of /onboarding sends a signed-out visitor away.              *)
OnboardingGuard(t) ==
  /\ tab[t].page = "onboarding"
  /\ ~isLoading(tab[t]) /\ ~isAuthenticated(tab[t])
  /\ Update(t, [tab[t] EXCEPT !.page = "signin"])
  /\ UNCHANGED <<stored, cached, cookie, server, promise, events>>

-----------------------------------------------------------------------------
Reached(t, w, at) == Update(t, [tab[t] EXCEPT !.req[w].at = at])

(* The route handler without a cookie, or the backend's look at the token. *)
CheckRefresh(t, w) ==
  LET q == tab[t].req[w]
  IN  /\ q.kind = "refresh" /\ q.at = "sent"
      /\ Reached(t, w, IF q.jar = None THEN "empty" ELSE IF q.jar \in live THEN "checked" ELSE "refused")
      /\ UNCHANGED <<stored, cached, cookie, server, promise, events>>

(* The backend's look at the token fails, or its limiter refuses to look:  *)
(* the answer is that of a dead token.                                     *)
CheckFails(t, w) ==
  LET q == tab[t].req[w]
  IN  /\ Event
      /\ q.kind = "refresh" /\ q.at = "sent" /\ q.jar # None
      /\ Reached(t, w, "refused")
      /\ promise' = "unknown"
      /\ UNCHANGED <<stored, cached, cookie, server>>

(* The backend revokes the token it was shown, which may fail unnoticed,   *)
(* and mints a pair.                                                       *)
RotateRefresh(t, w) ==
  LET q == tab[t].req[w]
  IN  /\ q.at = "checked"
      /\ minted' = minted + 1
      /\ \/ live' = (live \ {q.jar}) \cup {minted'} /\ UNCHANGED events
         \/ live' = live \cup {minted'} /\ Event
      /\ good' = good \cup {minted'}
      /\ Update(t, [tab[t] EXCEPT !.req[w].at = "ok", !.req[w].got = minted'])
      /\ UNCHANGED <<stored, cached, cookie, promise>>

(* It revokes the token and then fails to find the user or to store the    *)
(* new token.                                                              *)
RotateFails(t, w) ==
  /\ Event
  /\ tab[t].req[w].at = "checked"
  /\ live' \in {live \ {tab[t].req[w].jar}, live}
  /\ Reached(t, w, "refused")
  /\ promise' = "unknown"
  /\ UNCHANGED <<stored, cached, cookie, good, minted>>

(* The backend cannot be reached from the route handler, or refuses the    *)
(* credentials, or its answer is lost on the way there: the cookie stays   *)
(* as it is.                                                               *)
Unreachable(t, w) ==
  LET q == tab[t].req[w]
  IN  /\ Event
      /\ q.at \in {"sent", "ok", "refused"} /\ q.kind \in {"refresh"} \cup Credentials
      /\ q.kind = "refresh" => q.jar # None
      /\ Reached(t, w, "down")
      /\ promise' = IF q.at = "sent" THEN promise ELSE "unknown"
      /\ UNCHANGED <<stored, cached, cookie, server>>

(* Right credentials get a token pair.                                     *)
Issue(t) ==
  /\ tab[t].req["form"].at = "sent"
  /\ minted' = minted + 1
  /\ live' = live \cup {minted'} /\ good' = good \cup {minted'}
  /\ Update(t, [tab[t] EXCEPT !.req["form"].at = "ok", !.req["form"].got = minted'])
  /\ UNCHANGED <<stored, cached, cookie, promise, events>>

ServeLogin(t) == tab[t].req["form"].kind = "login" /\ Issue(t)
ServeRegister(t) == tab[t].req["form"].kind = "register" /\ Issue(t)

(* The refresh token of the URL becomes the cookie.                        *)
ServeSession(t) ==
  /\ tab[t].req["form"].kind = "session" /\ tab[t].req["form"].at = "sent"
  /\ Reached(t, "form", "ok")
  /\ UNCHANGED <<stored, cached, cookie, server, promise, events>>

(* With a cookie the backend is asked to revoke it; that may fail, the     *)
(* cookie is cleared all the same.  It also puts the access token on a     *)
(* list of denied ones, where no request finds it: the token is stored as  *)
(* a boolean and looked up as a string, whose error counts as not found.   *)
ServeLogout(t) ==
  LET q == tab[t].req["form"]
  IN  /\ q.kind = "logout" /\ q.at = "sent"
      /\ \/ /\ q.jar # None
            /\ live' = live \ {q.jar}
            /\ UNCHANGED events
         \/ /\ IF q.jar = None THEN UNCHANGED events ELSE Event
            /\ UNCHANGED live
      /\ Reached(t, "form", "ok")
      /\ UNCHANGED <<stored, cached, cookie, good, minted, promise>>

Expire(n) ==
  /\ Event
  /\ n \in good
  /\ good' = good \ {n}
  /\ UNCHANGED <<tab, stored, cached, cookie, live, minted, promise>>

-----------------------------------------------------------------------------
Answered == {"ok", "empty", "refused", "down"}
Done(t, w) == [tab[t] EXCEPT !.req[w] = NoRequest]

(* Set-Cookie of an answer to a refresh.                                   *)
\* mutant: the rotated token is not put into the cookie
JarUnrotated(q) == IF q.at = "refused" THEN None ELSE cookie
Jar(q) == CASE q.at = "ok" -> q.got [] q.at = "refused" -> None [] OTHER -> cookie

(* doRefresh() goes on: the new token, or none and the session over.       *)
RefreshEnds(t, n, jar) ==
  \E dest \in postSignInDestination :
    LET r == Done(t, "client")
    IN  /\ stored' = n
        /\ IF n # None
           THEN Update(t, Settled(setAccessToken(r, n, jar), n, Browser(jar, n), dest)) /\ UNCHANGED cached
           ELSE /\ Update(t, Settled(emitAuthExpired(setAccessToken(r, None, jar)), None, Browser(jar, None), dest))
                /\ cached' = FALSE

ClientRefreshed(t) ==
  LET q == tab[t].req["client"]
  IN  /\ q.at \in Answered
      /\ cookie' = Jar(q)
      /\ RefreshEnds(t, IF q.at = "ok" THEN q.got ELSE None, Jar(q))
      /\ Promised(promise)
      /\ UNCHANGED <<server, events>>

(* The provider's own refresh on first load: without it working, a user    *)
(* is signed out only if there was no token to begin with.                 *)
\* mutant: a failed first refresh leaves the user undecided
MountUndecided(r, n, jar) == IF n # None THEN apiFetch(setAccessToken(r, n, jar), "me", Browser(jar, n)) ELSE r
MountEnds(r, n, jar) ==
  CASE n # None -> apiFetch(setAccessToken(r, n, jar), "me", Browser(jar, n))
    [] n = None /\ r.mount = "fresh" -> [r EXCEPT !.user = "none"]
    [] OTHER -> r

MountRefreshed(t) ==
  LET q == tab[t].req["mount"]
      r == Done(t, "mount")
      n == IF q.at = "ok" THEN q.got ELSE None
  IN  /\ q.at \in Answered
      /\ cookie' = Jar(q)
      /\ stored' = IF n # None THEN n ELSE stored
      /\ cached' = IF n = None /\ r.mount = "fresh" THEN FALSE ELSE cached
      /\ Update(t, [MountEnds(r, n, Jar(q)) EXCEPT !.mount = "done"])
      /\ Promised(promise)
      /\ UNCHANGED <<server, events>>

(* The form goes on: where it was asked to, or it looks the user up first. *)
Entered(t) ==
  LET q == tab[t].req["form"]
      r == [setAccessToken(Done(t, "form"), q.got, q.got) EXCEPT !.user = "me"]
  IN  /\ q.at = "ok"
      /\ cookie' = q.got /\ stored' = q.got
      /\ \/ \E p \in Protected : Update(t, [r EXCEPT !.page = middleware(p, q.got)])
         \/ Update(t, apiFetch(r, "route", Browser(q.got, q.got)))
      /\ Promised(IF Alone(t, "form") THEN "in" ELSE "unknown")
      /\ UNCHANGED <<cached, server, events>>

LoggedIn(t) == tab[t].req["form"].kind = "login" /\ Entered(t)
Registered(t) == tab[t].req["form"].kind = "register" /\ Entered(t)

Failed(t) ==
  /\ tab[t].req["form"].kind \in Credentials /\ tab[t].req["form"].at = "down"
  /\ Update(t, Done(t, "form"))
  /\ UNCHANGED <<stored, cached, cookie, server, promise, events>>

(* completeOAuthCallback() goes on once the cookie is set.                 *)
SessionSet(t) ==
  LET q == tab[t].req["form"]
      r == Done(t, "form")
  IN  /\ q.kind = "session" /\ q.at = "ok"
      /\ cookie' = q.got
      /\ Update(t, apiFetch(r, "callback", Browser(q.got, stored)))
      /\ Promised(IF Alone(t, "form") THEN "in" ELSE "unknown")
      /\ UNCHANGED <<stored, cached, server, events>>

(* logout() clears what the tab and the browser remember.                  *)
Cleared(r, jar) == [setAccessToken(r, None, jar) EXCEPT !.user = "none", !.page = "home"]
LoggedOut(t) ==
  LET q == tab[t].req["form"]
  IN  /\ q.kind = "logout" /\ q.at = "ok"
      /\ cookie' = None /\ stored' = None /\ cached' = FALSE
      /\ Update(t, Cleared(Done(t, "form"), None))
      /\ Promised(IF Alone(t, "form") THEN "out" ELSE "unknown")
      /\ UNCHANGED <<server, events>>

(* The network loses a request or its answer: the fetch throws, and the    *)
(* cookie the answer carried is not set.                                   *)
LostPromise(q) == IF q.kind = "refresh" /\ q.at \in {"sent", "empty", "down"} THEN promise ELSE "unknown"
Lose(t, w) ==
  LET q == tab[t].req[w]
  IN  /\ Event
      /\ q.at \in Answered \cup {"sent"}
      /\ \/ w = "client" /\ RefreshEnds(t, None, cookie)
         \/ /\ w = "mount"
            /\ Update(t, [MountEnds(Done(t, w), None, cookie) EXCEPT !.mount = "done"])
            /\ UNCHANGED <<stored, cached>>
         \/ /\ w = "form" /\ q.kind \in Credentials \cup {"session"}
            /\ Update(t, Done(t, w))
            /\ UNCHANGED <<stored, cached>>
         \/ /\ w = "form" /\ q.kind = "logout"
            /\ Update(t, Cleared(Done(t, w), cookie))
            /\ stored' = None /\ cached' = FALSE
      /\ Promised(LostPromise(q))
      /\ UNCHANGED <<cookie, server>>

-----------------------------------------------------------------------------
Fetched(c) == c.step \in {"sent", "again"}

(* The answer to a call: with a token the backend accepts it is ok; else   *)
(* one refresh and one more try.                                           *)
CallAnswered(t, why) ==
  LET c == tab[t].calls[why]
  IN  /\ Fetched(c)
      /\ \E dest \in postSignInDestination :
           IF c.token \in good
           THEN Update(t, Ended(tab[t], {why}, "ok", AsItIs, dest)) /\ cached' = CachedAfter(why, "ok")
           ELSE IF c.step = "sent"
           THEN Update(t, refreshAccessToken([tab[t] EXCEPT !.calls[why].step = "renew"], cookie)) /\ UNCHANGED cached
           ELSE Update(t, Ended(tab[t], {why}, "denied", AsItIs, dest)) /\ cached' = CachedAfter(why, "denied")
      /\ Promised(promise)
      /\ UNCHANGED <<stored, cookie, server, events>>

(* A network error is tried again while there are attempts; the last one,  *)
(* or an error of the backend, is the caller's.                            *)
CallBroken(t, why) ==
  LET c == tab[t].calls[why]
  IN  /\ Event
      /\ Fetched(c)
      /\ \/ c.left > 1 /\ Update(t, [tab[t] EXCEPT !.calls[why].left = @ - 1])
         \/ \E dest \in postSignInDestination : Update(t, Ended(tab[t], {why}, "failed", AsItIs, dest))
      /\ Promised(promise)
      /\ UNCHANGED <<stored, cached, cookie, server>>

-----------------------------------------------------------------------------
(* Nobody signed in; or a session left from an earlier visit; or tabs      *)
(* at rest, signed in, or on the forms of a visitor who is not.            *)
Resting == [Fresh("app") EXCEPT !.user = "me", !.mount = "done"]
AtTheForm == [Closed EXCEPT !.page = "signin", !.user = "none", !.mount = "done"]

AuthInit ==
  /\ \/ /\ minted = 0 /\ cookie = None /\ stored = None /\ cached = FALSE /\ promise = "out"
     \/ /\ minted = 1 /\ cookie = 1 /\ stored \in {None, 1} /\ cached \in BOOLEAN /\ promise = "in"
  /\ live = 1..minted /\ good \in {{}, 1..minted}
  /\ \E open \in SUBSET Tab :
       /\ open # {} => promise = "out" \/ (stored = 1 /\ cached)
       /\ tab = [t \in Tab |-> IF t \notin open THEN Closed
                               ELSE IF promise = "in" THEN Resting ELSE AtTheForm]
  /\ events = 0

Visitor(t) == Land(t) \/ Close(t) \/ UseApp(t) \/ LogOut(t)
              \/ \E mode \in Credentials : Submit(t, mode)
              \/ \E p \in {"home", "signin", "onboarding", "app"} : Visit(t, p) \/ Go(t, p)
Route(t) == ServeLogin(t) \/ ServeRegister(t) \/ ServeSession(t) \/ ServeLogout(t)
            \/ \E w \in Who : CheckRefresh(t, w) \/ RotateRefresh(t, w)
Arrive(t) == ClientRefreshed(t) \/ MountRefreshed(t) \/ LoggedIn(t) \/ Registered(t) \/ Failed(t) \/ SessionSet(t)
             \/ LoggedOut(t) \/ OnboardingGuard(t) \/ \E why \in Why : CallAnswered(t, why)
Fault(t) == (\E w \in Who : CheckFails(t, w) \/ RotateFails(t, w) \/ Unreachable(t, w) \/ Lose(t, w))
            \/ \E why \in Why : CallBroken(t, why)

(* What servers and pages do by themselves, as long as there is work.      *)
Progress == \E t \in Tab : Route(t) \/ Arrive(t)

AuthNext == \/ Progress
            \/ \E t \in Tab : Visitor(t) \/ Fault(t)
            \/ \E n \in good : Expire(n)

(* Servers answer and pages go on; visitors and faults owe nothing.        *)
AuthFairness == WF_vars(Progress)

AuthSpec == AuthInit /\ [][AuthNext]_vars /\ AuthFairness

-----------------------------------------------------------------------------
(* Rotation keeps the session: as long as no two auth requests overlapped, *)
(* no answer was lost and no refresh that reached the backend failed       *)
(* there, a browser that signed in holds, whenever it is quiet, a refresh  *)
(* token the backend accepts, and one that signed out holds none; reloads, *)
(* expired access tokens and unreachable backends change nothing.  (The    *)
(* thirty days of a refresh token do not pass.)                            *)
SessionAsPromised ==
  Quiet => /\ promise = "in" => cookie \in live
           /\ promise = "out" => cookie = None

(* A call that waits for a new token waits for a refresh that is under     *)
(* way, and the provider that waits for its first load has a call for it.  *)
NobodyIsForgotten ==
  \A t \in Tab :
    /\ (\E y \in Why : tab[t].calls[y].step \in {"need", "renew"}) => tab[t].req["client"].at # "none"
    /\ tab[t].mount = "me" => tab[t].calls["mount"].step # "none"
    /\ tab[t].mount \in {"had", "fresh"} => tab[t].req["mount"].at # "none"

(* Once visitors and the network leave them alone, the pages come to rest: *)
(* no call or auth request goes on for ever, loading the user on a new     *)
(* token does not set off one refresh after the other, and no page is left *)
(* showing that it is loading the user.                                    *)
AtRest(r) == /\ \A y \in Why : r.calls[y].step = "none"
             /\ \A w \in Who : r.req[w].at = "none"
             /\ r.page # "closed" => ~isLoading(r)
ComesToRest == <>[](\A t \in Tab : AtRest(tab[t]))
====
