------------------------------- MODULE Accounts -------------------------------
(***************************************************************************)
(* One account: its address, its links (single-use tokens sent by mail)    *)
(* and its sessions.                                                       *)
(*                                                                         *)
(*   domain/auth.ts        signup, resendVerification, verifyEmail,        *)
(*                         requestPasswordReset, resetPassword,            *)
(*                         changePassword, login                           *)
(*   domain/authTokens.ts  issueAuthToken, consumeAuthToken, purge         *)
(*   domain/sessions.ts    createSession, revoke, purge                    *)
(*                                                                         *)
(* A REQUEST is one API request.  None of these functions runs in a        *)
(* transaction: each statement is a step of its own, requests interleave   *)
(* between the statements, and a request may end after any of them.        *)
(***************************************************************************)
EXTENDS Naturals

CONSTANTS
  Links,     \* rows of "auth_tokens" (an id is never reused)
  Sessions,  \* rows of "sessions"
  Requests,  \* concurrent API requests
  None       \* absent value

ASSUME NoneAssumption == None \notin Links /\ None \notin Sessions

VARIABLES
  registered, verified,  \* the row of "users": it exists, its address is confirmed
  link, kind,            \* rows of "auth_tokens"
  session,               \* rows of "sessions"; "ended": revoked, expired or purged
  step,                  \* where each request is
  wanted,                \* the kind of link it issues
  shown,                 \* the link it was given
  keep,                  \* the session it belongs to
  older,                 \* history: the links of that kind when it began to issue
  open,                  \* history: the live sessions when it wrote the password
  spent,                 \* history: how many requests consumed the link
  earlier,               \* history: "older" of the request that issued the link
  displaced              \* history: sessions a completed change should have ended

account == <<registered, verified>>
links == <<link, kind>>
runs == <<step, wanted, shown, keep, older, open>>
history == <<spent, earlier, displaced>>
vars == <<account, links, session, runs, history>>

-----------------------------------------------------------------------------
Kinds == {"EMAIL_VERIFICATION", "PASSWORD_RESET"}

TypeOK ==
  /\ registered \in BOOLEAN /\ verified \in BOOLEAN
  /\ link \in [Links -> {"unissued", "live", "expired", "consumed", "purged"}]
  /\ kind \in [Links -> Kinds \cup {None}]
  /\ session \in [Sessions -> {"unopened", "live", "ended"}]
  /\ step \in [Requests -> {"idle", "issuing", "inserting", "claiming", "confirming",
                            "writing", "revoking", "opening"}]
  /\ wanted \in [Requests -> Kinds \cup {None}]
  /\ shown \in [Requests -> Links \cup {None}]
  /\ keep \in [Requests -> Sessions \cup {None}]
  /\ older \in [Requests -> SUBSET Links]
  /\ open \in [Requests -> SUBSET Sessions]
  /\ spent \in [Links -> Nat]
  /\ earlier \in [Links -> SUBSET Links]
  /\ displaced \in SUBSET Sessions

Init ==
  /\ registered = FALSE /\ verified = FALSE
  /\ link = [k \in Links |-> "unissued"]
  /\ kind = [k \in Links |-> None]
  /\ session = [s \in Sessions |-> "unopened"]
  /\ step = [r \in Requests |-> "idle"]
  /\ wanted = [r \in Requests |-> None]
  /\ shown = [r \in Requests |-> None]
  /\ keep = [r \in Requests |-> None]
  /\ older = [r \in Requests |-> {}]
  /\ open = [r \in Requests |-> {}]
  /\ spent = [k \in Links |-> 0]
  /\ earlier = [k \in Links |-> {}]
  /\ displaced = {}

EndRequest(r) ==
  /\ step' = [step EXCEPT ![r] = "idle"]
  /\ wanted' = [wanted EXCEPT ![r] = None]
  /\ shown' = [shown EXCEPT ![r] = None]
  /\ keep' = [keep EXCEPT ![r] = None]
  /\ older' = [older EXCEPT ![r] = {}]
  /\ open' = [open EXCEPT ![r] = {}]

\* The server dies, or a statement throws.
FailRequest(r) ==
  /\ step[r] # "idle"
  /\ EndRequest(r)
  /\ UNCHANGED <<account, links, session, history>>

-----------------------------------------------------------------------------
(* Issuing a link: signup, resendVerification, requestPasswordReset.       *)

Issue(r, type) ==
  /\ step[r] = "idle"
  /\ step' = [step EXCEPT ![r] = "issuing"]
  /\ wanted' = [wanted EXCEPT ![r] = type]
  /\ UNCHANGED <<verified, links, session, shown, keep, older, open, history>>

\* The insert hits the unique address if the account exists.
SignUp(r) ==
  /\ ~registered
  /\ registered' = TRUE
  /\ Issue(r, "EMAIL_VERIFICATION")

ResendVerification(r) ==
  /\ registered /\ ~verified
  /\ Issue(r, "EMAIL_VERIFICATION")
  /\ UNCHANGED registered

RequestReset(r) ==
  /\ registered
  /\ Issue(r, "PASSWORD_RESET")
  /\ UNCHANGED registered

\* Rows with "consumedAt IS NULL", expired ones included.
StillThere(k) == link[k] \in {"live", "expired", "consumed"}  \* mutant: the condition is missing
Unconsumed(k) == link[k] \in {"live", "expired"}

OfKind(type) == {k \in Links : link[k] # "unissued" /\ kind[k] = type}

\* issueAuthToken: every outstanding link of the kind is invalidated,
InvalidateLinks(r) ==
  /\ step[r] = "issuing"
  /\ link' = [k \in Links |->
       IF k \in OfKind(wanted[r]) /\ Unconsumed(k) THEN "consumed" ELSE link[k]]
  /\ older' = [older EXCEPT ![r] = OfKind(wanted[r])]
  /\ step' = [step EXCEPT ![r] = "inserting"]
  /\ UNCHANGED <<account, kind, session, wanted, shown, keep, open, history>>

\* ... then the new one is inserted, and mailed.
InsertLink(r, k) ==
  /\ step[r] = "inserting"
  /\ link[k] = "unissued"
  /\ link' = [link EXCEPT ![k] = "live"]
  /\ kind' = [kind EXCEPT ![k] = wanted[r]]
  /\ earlier' = [earlier EXCEPT ![k] = older[r]]
  /\ EndRequest(r)
  /\ UNCHANGED <<account, session, spent, displaced>>

ExpireLink(k) ==
  /\ link[k] = "live"
  /\ link' = [link EXCEPT ![k] = "expired"]
  /\ UNCHANGED <<account, kind, session, runs, history>>

\* purgeExpiredAuthTokens
PurgeLink(k) ==
  /\ link[k] \in {"expired", "consumed"}
  /\ link' = [link EXCEPT ![k] = "purged"]
  /\ UNCHANGED <<account, kind, session, runs, history>>

-----------------------------------------------------------------------------
(* Using a link: verifyEmail, resetPassword.                               *)

\* consumeAuthToken reads the row; it must be of the right kind, not
\* consumed and not expired,
ShowLink(r, k) ==
  /\ step[r] = "idle"
  /\ link[k] = "live"
  /\ step' = [step EXCEPT ![r] = "claiming"]
  /\ shown' = [shown EXCEPT ![r] = k]
  /\ UNCHANGED <<account, links, session, wanted, keep, older, open, history>>

\* ... and consumes it if that still holds for "consumedAt".
ClaimLink(r) ==
  LET k == shown[r] IN
  /\ step[r] = "claiming"
  /\ Unconsumed(k)
  /\ link' = [link EXCEPT ![k] = "consumed"]
  /\ spent' = [spent EXCEPT ![k] = @ + 1]
  /\ step' = [step EXCEPT ![r] =
       IF kind[k] = "EMAIL_VERIFICATION" THEN "confirming" ELSE "writing"]
  /\ UNCHANGED <<account, kind, session, wanted, shown, keep, older, open, earlier, displaced>>

LoseLink(r) ==
  /\ step[r] = "claiming"
  /\ ~Unconsumed(shown[r])
  /\ EndRequest(r)
  /\ UNCHANGED <<account, links, session, history>>

\* verifyEmail: writes the row unless it is confirmed already.
ConfirmAddress(r) ==
  /\ step[r] = "confirming"
  /\ verified' = TRUE
  /\ EndRequest(r)
  /\ UNCHANGED <<registered, links, session, history>>

-----------------------------------------------------------------------------
(* The password: resetPassword with a link, changePassword with a session. *)

\* The session and the current password are checked first.
ChangePassword(r, s) ==
  /\ step[r] = "idle"
  /\ session[s] = "live"
  /\ step' = [step EXCEPT ![r] = "writing"]
  /\ keep' = [keep EXCEPT ![r] = s]
  /\ UNCHANGED <<account, links, session, wanted, shown, older, open, history>>

AnyWrite(r) == TRUE  \* mutant: changePassword confirms the address as well
Resets(r) == keep[r] = None

\* A reset proves the address as well.
WritePassword(r) ==
  /\ step[r] = "writing"
  /\ verified' = (verified \/ Resets(r))
  /\ open' = [open EXCEPT ![r] = {s \in Sessions : session[s] = "live"}]
  /\ step' = [step EXCEPT ![r] = "revoking"]
  /\ UNCHANGED <<registered, links, session, wanted, shown, keep, older, history>>

\* mutant: without a session to keep nothing is revoked.
KeepsAll(r, s) == keep[r] \in {None, s}
Keeps(r, s) == keep[r] = s

RevokeSessions(r) ==
  /\ step[r] = "revoking"
  /\ session' = [s \in Sessions |->
       IF session[s] = "live" /\ ~Keeps(r, s) THEN "ended" ELSE session[s]]
  /\ displaced' = displaced \cup (open[r] \ {keep[r]})
  /\ EndRequest(r)
  /\ UNCHANGED <<account, links, spent, earlier>>

-----------------------------------------------------------------------------
(* Sessions: login, logout, expiry.                                        *)

\* The password is verified, then the session is inserted.
Login(r) ==
  /\ step[r] = "idle"
  /\ registered
  /\ step' = [step EXCEPT ![r] = "opening"]
  /\ UNCHANGED <<account, links, session, wanted, shown, keep, older, open, history>>

OpenSession(r, s) ==
  /\ step[r] = "opening"
  /\ session[s] = "unopened"
  /\ session' = [session EXCEPT ![s] = "live"]
  /\ EndRequest(r)
  /\ UNCHANGED <<account, links, history>>

EndSession(s) ==
  /\ session[s] = "live"
  /\ session' = [session EXCEPT ![s] = "ended"]
  /\ UNCHANGED <<account, links, runs, history>>

-----------------------------------------------------------------------------
RequestStep(r) ==
  \/ SignUp(r) \/ ResendVerification(r) \/ RequestReset(r) \/ InvalidateLinks(r)
  \/ \E k \in Links : InsertLink(r, k) \/ ShowLink(r, k)
  \/ ClaimLink(r) \/ LoseLink(r) \/ ConfirmAddress(r)
  \/ \E s \in Sessions : ChangePassword(r, s) \/ OpenSession(r, s)
  \/ WritePassword(r) \/ RevokeSessions(r) \/ Login(r) \/ FailRequest(r)

Next ==
  \/ \E r \in Requests : RequestStep(r)
  \/ \E k \in Links : ExpireLink(k) \/ PurgeLink(k)
  \/ \E s \in Sessions : EndSession(s)

Spec == Init /\ [][Next]_vars

-----------------------------------------------------------------------------
(* Properties.                                                             *)

\* Of any number of simultaneous uses of one link exactly one wins, whatever
\* expires, is re-issued or purged between the read and the update
\* (authTokens.ts:43-47).
LinkSpentOnce == \A k \in Links : spent[k] <= 1

\* A link that existed when a newer one of its kind was asked for is dead from
\* then on: even a request that had already read it loses (authTokens.ts:12-19).
SupersededNeverWins ==
  [][\A k, n \in Links : k \in earlier[n] => spent'[k] = spent[k]]_vars

\* The address is only ever confirmed by someone who was sent a link: not by
\* signing up, signing in or changing the password of an open session.
ConfirmedByLink == verified => \E k \in Links : spent[k] > 0

\* Once a change of password has completed, every session that was live when
\* it wrote the password, except its own, has ended for good, whatever other
\* requests opened or revoked meanwhile (sessions.ts, revokeAllSessionsForUser).
DisplacedSessionsEnd == \A s \in displaced : session[s] = "ended"

\* The inductive invariant: a consumed link stays consumed, what a request
\* has invalidated is consumed before it inserts, a request that confirms the
\* address has consumed a link, and only an open session is ever displaced.
Dead(k) == link[k] \in {"consumed", "purged"}

SpentIsDead == \A k \in Links : spent[k] > 0 => Dead(k)

OlderIsDead ==
  /\ \A n \in Links : \A k \in earlier[n] : Dead(k)
  /\ \A r \in Requests : \A k \in older[r] : Dead(k)

OpenWasLive ==
  \A r \in Requests : \A s \in open[r] : session[s] \in {"live", "ended"}

ShownIsIssued ==
  \A r \in Requests : step[r] = "claiming" => shown[r] \in Links /\ link[shown[r]] # "unissued"

WritersHaveLink ==
  \A r \in Requests :
    step[r] = "confirming" \/ (step[r] = "writing" /\ Resets(r))
      => \E k \in Links : spent[k] > 0

AccountInvariant ==
  /\ TypeOK
  /\ LinkSpentOnce
  /\ SpentIsDead
  /\ OlderIsDead
  /\ ShownIsIssued
  /\ ConfirmedByLink
  /\ WritersHaveLink
  /\ DisplacedSessionsEnd
  /\ OpenWasLive
=============================================================================
