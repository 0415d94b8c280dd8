----------------------------- MODULE WebSession -----------------------------
(***************************************************************************)
(* The tabs of one browser, the cookies they share, and the API's session  *)
(* and double-submit middleware: apps/web AuthContext.tsx and api.ts with  *)
(* the pages that sign in, sign out and confirm an address; apps/api       *)
(* middleware/security.ts, session.ts, rateLimit.ts and routes/auth.ts.    *)
(*                                                                         *)
(* A call reads the token cookie, is sent with the cookies of that moment, *)
(* is served, and its answer arrives; between any two of these the other   *)
(* calls and tabs run.  A call may fail before the server or on the way    *)
(* back.  Tokens are numbered, 0 is no cookie.  Requests come from the     *)
(* application's own origin.                                               *)
(***************************************************************************)
EXTENDS Integers

CONSTANTS
    Tabs,
    MaxWrites,   \* bound on the writes started (login, logout, verify)
    MaxEnds      \* bound on the sessions ended elsewhere (reset, expiry)

Kinds == {"meta", "boot", "refresh", "write"}   \* one call of a tab in flight per kind
Keep  == -1                                     \* an answer without that Set-Cookie

NoCall == [stage |-> "none"]
NoAnswer == [code |-> "none"]

VARIABLES
    jar,      \* the cookies: [csrf, session]
    live,     \* sessions that are neither revoked nor expired
    issued,   \* [csrf, session]: how many of each were made
    tab,      \* AuthContext of a tab: [status, user], the user by session
    calls,    \* calls[t][k]
    spent     \* [writes, ends]

wsVars == <<jar, live, issued, tab, calls, spent>>

-----------------------------------------------------------------------------
Closed == [status |-> "closed", user |-> 0]

WsInit ==
    /\ jar = [csrf |-> 0, session |-> 0] /\ live = {}
    /\ issued = [csrf |-> 0, session |-> 0]
    /\ tab = [t \in Tabs |-> Closed]
    /\ calls = [t \in Tabs |-> [k \in Kinds |-> NoCall]]
    /\ spent = [writes |-> 0, ends |-> 0]

Put(t, k, call) == calls' = [calls EXCEPT ![t] = [@ EXCEPT ![k] = call]]

\* fetch with credentials: the cookies are attached as the call leaves.
Sent(op, header, why) ==
    [stage |-> "sent", op |-> op, header |-> header, cookies |-> jar,
     why |-> why, wasLive |-> jar.session \in live, answer |-> NoAnswer]

\* AuthProvider mounts: /api/meta and /api/auth/me leave together.
Open(t) ==
    /\ tab[t] = Closed
    /\ tab' = [tab EXCEPT ![t] = [status |-> "loading", user |-> 0]]
    /\ calls' = [calls EXCEPT ![t] = [@ EXCEPT !["meta"] = Sent("meta", 0, "get"),
                                               !["boot"] = Sent("me", 0, "get")]]
    /\ UNCHANGED <<jar, live, issued, spent>>

\* What the routes let a tab start: the sign-in page is for one that is not signed
\* in, the shell with its sign-out for one that is, the e-mailed link for any.
MayStart(t, op) ==
    CASE op = "login"  -> tab[t].status \in {"loading", "anonymous"}
      [] op = "logout" -> tab[t].status = "authenticated"
      [] op = "verify" -> tab[t].status # "closed" /\ calls[t]["refresh"] = NoCall

Write(t, op) ==
    /\ spent.writes < MaxWrites
    /\ MayStart(t, op) /\ calls[t]["write"] = NoCall
    /\ spent' = [spent EXCEPT !.writes = @ + 1]
    /\ Put(t, "write", [stage |-> "token", op |-> op])
    /\ UNCHANGED <<jar, live, issued, tab>>

\* ensureCsrfToken: the cookie is there, or a GET asks for one first.  "why" records
\* what the header rests on.
Ready(op, header, why) == [stage |-> "ready", op |-> op, header |-> header, why |-> why]

\* mutant: no bootstrap call.
ReadTokenOnly(t) ==
    /\ calls[t]["write"].stage = "token"
    /\ Put(t, "write", Ready(calls[t]["write"].op, jar.csrf, "read"))
    /\ UNCHANGED <<jar, live, issued, tab, spent>>

ReadToken(t) ==
    LET c == calls[t]["write"] IN
    /\ c.stage = "token"
    /\ Put(t, "write", IF jar.csrf # 0 THEN Ready(c.op, jar.csrf, "read")
                       ELSE [stage |-> "bootstrap", op |-> c.op])
    /\ UNCHANGED <<jar, live, issued, tab, spent>>

\* A token arrives: a header already read is out of date.
Outdate(all) ==
    [t \in Tabs |-> [k \in Kinds |->
        IF all[t][k].stage = "ready" THEN [all[t][k] EXCEPT !.why = "replaced"] ELSE all[t][k]]]

Bootstrap(t) ==
    LET c == calls[t]["write"] IN
    /\ c.stage = "bootstrap"
    /\ \/ /\ jar' = [jar EXCEPT !.csrf = issued.csrf + 1]
          /\ issued' = [issued EXCEPT !.csrf = @ + 1]
          /\ calls' = [Outdate(calls) EXCEPT ![t] =
                          [@ EXCEPT !["write"] = Ready(c.op, issued.csrf + 1, "read")]]
       \/ /\ Put(t, "write", Ready(c.op, jar.csrf, "bootstrap failed"))
          /\ UNCHANGED <<jar, issued>>
    /\ UNCHANGED <<live, tab, spent>>

SendWrite(t) ==
    LET c == calls[t]["write"] IN
    /\ c.stage = "ready"
    /\ Put(t, "write", Sent(c.op, c.header, c.why))
    /\ UNCHANGED <<jar, live, issued, tab, spent>>

-----------------------------------------------------------------------------
(* The server.                                                              *)

\* attachSession and resolveSession: 0 for no cookie, a revoked or an expired row.
anySession(token) == token      \* mutant: a revoked or an expired row counts
resolveSession(token) == IF token \in live THEN token ELSE 0

\* csrfProtection, behind issueCsrfCookie.
csrfProtection(c) ==
    \/ c.op \in {"meta", "me"}
    \/ c.cookies.csrf # 0 /\ c.header # 0 /\ c.cookies.csrf = c.header

\* What may be answered: "refused" by the handler or a limiter, "failed" for a 500;
\* a login may fail after it has set its cookies, a logout before it revokes.
Outcomes(c) ==
    IF ~csrfProtection(c) THEN {"csrf_failed"}
    ELSE CASE c.op = "meta"   -> {"ok"}
           [] c.op = "me"     -> {IF resolveSession(c.cookies.session) # 0 THEN "ok" ELSE "unauthorized",
                                "failed"}
           [] c.op = "login"  -> {"ok", "refused", "failed"}
           [] c.op = "logout" -> {"ok", "failed"}
           [] c.op = "verify" -> {"ok", "refused"}

\* logout: revokeSession of the session the request came with.
CookieOnly(out, auth) == {}      \* mutant: only the cookie is cleared
Revoked(out, auth) == IF out THEN {auth} ELSE {}

Reply(c, answer) == [[c EXCEPT !.stage = "answered"] EXCEPT !.answer = answer]

Serve(t, k) ==
    LET c    == calls[t][k]
        auth == resolveSession(c.cookies.session)
    IN
    /\ c.stage = "sent"
    /\ \E code \in Outcomes(c) :
          LET in     == c.op = "login" /\ code \in {"ok", "failed"}
              out    == c.op = "logout" /\ code = "ok"
              fresh  == c.cookies.csrf = 0 \/ in
              answer == [code    |-> code,
                         user    |-> IF in THEN issued.session + 1 ELSE auth,
                         csrf    |-> IF fresh THEN issued.csrf + 1 ELSE Keep,
                         session |-> IF in THEN issued.session + 1 ELSE IF out THEN 0 ELSE Keep]
          IN  /\ issued' = [csrf    |-> issued.csrf + (IF fresh THEN 1 ELSE 0),
                            session |-> issued.session + (IF in THEN 1 ELSE 0)]
              /\ live' = IF in THEN live \union {answer.user} ELSE live \ Revoked(out, auth)
              /\ Put(t, k, Reply(c, answer))
    /\ UNCHANGED <<jar, tab, spent>>

\* The session is revoked by a reset or a change of password, or expires.
EndSession(s) ==
    /\ spent.ends < MaxEnds /\ s \in live
    /\ live' = live \ {s}
    /\ spent' = [spent EXCEPT !.ends = @ + 1]
    /\ UNCHANGED <<jar, issued, tab, calls>>

-----------------------------------------------------------------------------
(* The answer or the failure of a call reaches the tab.                     *)

Anonymous     == [status |-> "anonymous", user |-> 0]
SignedIn(s)   == [status |-> "authenticated", user |-> s]

StillLoading(current) == current      \* mutant: a failure is taken for no answer
AfterFailure(current) == IF current.status = "loading" THEN Anonymous ELSE current

\* AuthContext: refresh, login and logout.  code "failed" is any other failure.
Continue(op, code, user, current) ==
    CASE op = "me" /\ code = "ok"           -> SignedIn(user)
      [] op = "me" /\ code = "unauthorized" -> Anonymous
      [] op = "me" /\ code = "failed"       -> AfterFailure(current)
      [] op = "login" /\ code = "ok"        -> SignedIn(user)
      [] op = "logout"                      -> Anonymous
      [] OTHER                              -> current

\* After a confirmed link the page calls refresh.
Follow(all, t, op, code) ==
    IF op = "verify" /\ code = "ok"
    THEN [all EXCEPT ![t] = [@ EXCEPT !["refresh"] = [stage |-> "due", op |-> "me"]]]
    ELSE all

Receive(t, k) ==
    LET c      == calls[t][k]
        rest   == [calls EXCEPT ![t] = [@ EXCEPT ![k] = NoCall]]
        update(old, new) == IF new = Keep THEN old ELSE new
    IN
    /\ c.stage = "answered"
    /\ jar' = [csrf |-> update(jar.csrf, c.answer.csrf), session |-> update(jar.session, c.answer.session)]
    /\ tab' = [tab EXCEPT ![t] = Continue(c.op, c.answer.code, c.answer.user, @)]
    /\ calls' = Follow(IF c.answer.csrf = Keep THEN rest ELSE Outdate(rest), t, c.op, c.answer.code)
    /\ UNCHANGED <<live, issued, spent>>

\* The server is not reached, or its answer is lost.
Fail(t, k) ==
    /\ calls[t][k].stage \in {"sent", "answered"}
    /\ tab' = [tab EXCEPT ![t] = Continue(calls[t][k].op, "failed", 0, @)]
    /\ Put(t, k, NoCall)
    /\ UNCHANGED <<jar, live, issued, spent>>

Refresh(t) ==
    /\ calls[t]["refresh"].stage = "due"
    /\ Put(t, "refresh", Sent("me", 0, "get"))
    /\ UNCHANGED <<jar, live, issued, tab, spent>>

WsNext ==
    \/ \E t \in Tabs : Open(t) \/ ReadToken(t) \/ Bootstrap(t) \/ SendWrite(t) \/ Refresh(t)
    \/ \E t \in Tabs, op \in {"login", "logout", "verify"} : Write(t, op)
    \/ \E t \in Tabs, k \in Kinds : Serve(t, k) \/ Receive(t, k) \/ Fail(t, k)
    \/ \E s \in live : EndSession(s)

WsSpec == WsInit /\ [][WsNext]_wsVars

\* The browser settles every fetch, and the event loop runs what is due.
WsFairness ==
    \A t \in Tabs :
        /\ WF_wsVars(ReadToken(t) \/ Bootstrap(t) \/ SendWrite(t) \/ Refresh(t))
        /\ \A k \in Kinds : WF_wsVars(Serve(t, k) \/ Receive(t, k) \/ Fail(t, k))

-----------------------------------------------------------------------------
(* Properties.                                                              *)

Arriving(t, k) == calls[t][k].stage = "answered" /\ calls'[t][k] = NoCall

\* AuthContext.tsx:39-54, sessions.ts:42-64: a late answer can sign a tab in again
\* after a sign-out, so what holds is less than that a tab which signed out stays
\* out: a tab is only ever signed in by an answer that was asked for while the
\* session it names was live and in the cookies, or by its own sign-in.
NoSignInOnDeadSession ==
    [][\A t \in Tabs :
          tab'[t].status = "authenticated" /\ tab'[t] # tab[t] =>
              \E k \in Kinds :
                  LET c == calls[t][k]
                  IN  /\ Arriving(t, k) /\ c.answer.user = tab'[t].user
                      /\ c.op = "login" \/ (c.wasLive /\ c.cookies.session = tab'[t].user)]_wsVars

\* AuthContext.tsx:80-87, routes/auth.ts:81-88: a tab shows the signed-out state
\* even when the call failed.  When the server did answer, the session the
\* browser sent is over and the cookie is gone; the session the tab was showing
\* survives only if another tab had replaced it in the cookies.
ConfirmedSignOutEndsSession ==
    [][\A t \in Tabs :
          LET c == calls[t]["write"]
          IN  Arriving(t, "write") /\ c.op = "logout" /\ c.answer.code = "ok" /\ jar' # jar =>
                  /\ c.cookies.session \notin live
                  /\ jar'.session = 0
                  /\ tab[t].user \in live => c.cookies.session # tab[t].user]_wsVars

\* api.ts:39-68, security.ts:47-85: "a valid link looks broken" in a browser that
\* never loaded the application is what the bootstrap call prevents: a write is
\* refused for its token only if the token was replaced between the reading of
\* the cookie and the sending, or the bootstrap call itself failed.
CsrfRefusalExplained ==
    \A t \in Tabs, k \in Kinds :
        calls[t][k].stage = "answered" /\ calls[t][k].answer.code = "csrf_failed" =>
            calls[t][k].why \in {"replaced", "bootstrap failed"}

\* App.tsx:77-91, AuthContext.tsx:50-52: while the session is being resolved the
\* signed-in pages show nothing else; that state ends, whatever happens to the
\* call.
SessionIsEventuallyKnown ==
    \A t \in Tabs :
        (tab[t].status = "loading") ~> (tab[t].status \in {"anonymous", "authenticated"})
=============================================================================
