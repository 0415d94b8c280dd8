---------------------------- MODULE AccountsProofs ----------------------------
(***************************************************************************)
(* Proofs about Accounts, for any links, sessions and requests.            *)
(***************************************************************************)
EXTENDS Accounts, TLAPS

\* Next, one disjunct per action.
LEMMA NextActions ==
  ASSUME [Next]_vars
  PROVE  \/ \E r \in Requests : SignUp(r) \/ ResendVerification(r) \/ RequestReset(r)
         \/ \E r \in Requests : InvalidateLinks(r)
         \/ \E r \in Requests, k \in Links : InsertLink(r, k)
         \/ \E r \in Requests, k \in Links : ShowLink(r, k)
         \/ \E r \in Requests : ClaimLink(r)
         \/ \E r \in Requests : LoseLink(r)
         \/ \E r \in Requests : ConfirmAddress(r)
         \/ \E r \in Requests, s \in Sessions : ChangePassword(r, s)
         \/ \E r \in Requests, s \in Sessions : OpenSession(r, s)
         \/ \E r \in Requests : WritePassword(r)
         \/ \E r \in Requests : RevokeSessions(r)
         \/ \E r \in Requests : Login(r)
         \/ \E r \in Requests : FailRequest(r)
         \/ \E k \in Links : ExpireLink(k)
         \/ \E k \in Links : PurgeLink(k)
         \/ \E s \in Sessions : EndSession(s)
         \/ UNCHANGED vars
<1>1. ASSUME NEW r \in Requests, RequestStep(r)
      PROVE  \/ SignUp(r) \/ ResendVerification(r) \/ RequestReset(r) \/ InvalidateLinks(r)
             \/ \E k \in Links : InsertLink(r, k)
             \/ \E k \in Links : ShowLink(r, k)
             \/ ClaimLink(r) \/ LoseLink(r) \/ ConfirmAddress(r)
             \/ \E s \in Sessions : ChangePassword(r, s)
             \/ \E s \in Sessions : OpenSession(r, s)
             \/ WritePassword(r) \/ RevokeSessions(r) \/ Login(r) \/ FailRequest(r)
  BY <1>1, Zenon DEF RequestStep
<1> QED BY <1>1, Zenon DEF Next

-----------------------------------------------------------------------------
(* Type correctness.                                                       *)

LEMMA EndRequestType ==
  ASSUME TypeOK, NEW r \in Requests, EndRequest(r)
  PROVE  /\ step' \in [Requests -> {"idle", "issuing", "inserting", "claiming", "confirming",
                                    "writing", "revoking", "opening"}]
         /\ wanted' \in [Requests -> Kinds \cup {None}]
         /\ shown' \in [Requests -> Links \cup {None}]
         /\ keep' \in [Requests -> Sessions \cup {None}]
         /\ older' \in [Requests -> SUBSET Links]
         /\ open' \in [Requests -> SUBSET Sessions]
  BY DEF TypeOK, EndRequest

LEMMA TypeStep ==
  ASSUME TypeOK, [Next]_vars
  PROVE  TypeOK'
<1> USE DEF TypeOK, account, links, runs, history
<1>1. CASE \E r \in Requests : SignUp(r) \/ ResendVerification(r) \/ RequestReset(r)
  BY <1>1 DEF SignUp, ResendVerification, RequestReset, Issue, Kinds
<1>2. CASE \E r \in Requests : InvalidateLinks(r)
  BY <1>2 DEF InvalidateLinks, OfKind
<1>3. CASE \E r \in Requests, k \in Links : InsertLink(r, k)
  BY <1>3, EndRequestType DEF InsertLink
<1>4. CASE \E r \in Requests, k \in Links : ShowLink(r, k)
  BY <1>4 DEF ShowLink
<1>5. CASE \E r \in Requests : ClaimLink(r)
  <2>1. PICK r \in Requests : ClaimLink(r)
    BY <1>5
  <2>2. spent' \in [Links -> Nat]
    <3>1. spent' = [k \in Links |-> IF k = shown[r] THEN spent[k] + 1 ELSE spent[k]]
      BY <2>1 DEF ClaimLink
    <3>2. \A k \in Links : spent[k] \in Nat /\ spent[k] + 1 \in Nat
      OBVIOUS
    <3> QED BY <3>1, <3>2
  <2>3. link' \in [Links -> {"unissued", "live", "expired", "consumed", "purged"}]
    BY <2>1 DEF ClaimLink
  <2>4. step' \in [Requests -> {"idle", "issuing", "inserting", "claiming", "confirming",
                                "writing", "revoking", "opening"}]
    BY <2>1 DEF ClaimLink
  <2> QED BY <2>1, <2>2, <2>3, <2>4 DEF ClaimLink
<1>6. CASE \E r \in Requests : LoseLink(r)
  BY <1>6, EndRequestType DEF LoseLink
<1>7. CASE \E r \in Requests : ConfirmAddress(r)
  BY <1>7, EndRequestType DEF ConfirmAddress
<1>8. CASE \E r \in Requests, s \in Sessions : ChangePassword(r, s)
  BY <1>8 DEF ChangePassword
<1>9. CASE \E r \in Requests, s \in Sessions : OpenSession(r, s)
  BY <1>9, EndRequestType DEF OpenSession
<1>10. CASE \E r \in Requests : WritePassword(r)
  BY <1>10 DEF WritePassword
<1>11. CASE \E r \in Requests : RevokeSessions(r)
  <2>1. PICK r \in Requests : RevokeSessions(r)
    BY <1>11
  <2>2. session' \in [Sessions -> {"unopened", "live", "ended"}]
    BY <2>1 DEF RevokeSessions
  <2>3. displaced' \in SUBSET Sessions
    BY <2>1 DEF RevokeSessions
  <2> QED BY <2>1, <2>2, <2>3, EndRequestType DEF RevokeSessions
<1>12. CASE \E r \in Requests : Login(r)
  BY <1>12 DEF Login
<1>13. CASE \E r \in Requests : FailRequest(r)
  BY <1>13, EndRequestType DEF FailRequest
<1>14. CASE (\E k \in Links : ExpireLink(k) \/ PurgeLink(k)) \/ \E s \in Sessions : EndSession(s)
  BY <1>14 DEF ExpireLink, PurgeLink, EndSession
<1>15. CASE UNCHANGED vars
  BY <1>15 DEF vars
<1> QED BY <1>1, <1>2, <1>3, <1>4, <1>5, <1>6, <1>7, <1>8, <1>9, <1>10, <1>11, <1>12,
           <1>13, <1>14, <1>15, NextActions

LEMMA TypeInit == Init => TypeOK
<1> SUFFICES ASSUME Init PROVE TypeOK
  OBVIOUS
<1>1. link \in [Links -> {"unissued", "live", "expired", "consumed", "purged"}]
  BY DEF Init
<1>2. step \in [Requests -> {"idle", "issuing", "inserting", "claiming", "confirming",
                             "writing", "revoking", "opening"}]
  BY DEF Init
<1>3. spent \in [Links -> Nat] /\ earlier \in [Links -> SUBSET Links]
  BY DEF Init
<1>4. older \in [Requests -> SUBSET Links] /\ open \in [Requests -> SUBSET Sessions]
  BY DEF Init
<1> QED BY <1>1, <1>2, <1>3, <1>4 DEF Init, TypeOK

\* Rows and requests keep their types; in particular the history of a link
\* names links only.
THEOREM TypeCorrect == Spec => []TypeOK
  BY TypeInit, TypeStep, PTL DEF Spec
-----------------------------------------------------------------------------
(* What a step does to links, to their history and to sessions.            *)

\* A dead link stays dead, and only a claim of an unconsumed link is counted.
LEMMA LinkStep ==
  ASSUME TypeOK, [Next]_vars, NEW k \in Links
  PROVE  /\ Dead(k) => Dead(k)'
         /\ link[k] # "unissued" => link'[k] # "unissued"
         /\ \/ spent'[k] = spent[k]
            \/ Unconsumed(k) /\ Dead(k)' /\ spent'[k] = spent[k] + 1
<1> USE DEF TypeOK, account, links, runs, history, Dead, Unconsumed
<1>1. CASE \E r \in Requests : SignUp(r) \/ ResendVerification(r) \/ RequestReset(r)
  BY <1>1 DEF SignUp, ResendVerification, RequestReset, Issue
<1>2. CASE \E r \in Requests : InvalidateLinks(r)
  BY <1>2 DEF InvalidateLinks
<1>3. CASE \E r \in Requests, j \in Links : InsertLink(r, j)
  BY <1>3 DEF InsertLink
<1>4. CASE \E r \in Requests : ClaimLink(r)
  <2>1. PICK r \in Requests : ClaimLink(r)
    BY <1>4
  <2>2. CASE k = shown[r]
    BY <2>1, <2>2 DEF ClaimLink
  <2>3. CASE k # shown[r]
    BY <2>1, <2>3 DEF ClaimLink
  <2> QED BY <2>2, <2>3
<1>5. CASE (\E j \in Links : ExpireLink(j) \/ PurgeLink(j)) \/ \E s \in Sessions : EndSession(s)
  BY <1>5 DEF ExpireLink, PurgeLink, EndSession
<1>6. CASE \E r \in Requests, j \in Links : ShowLink(r, j)
  BY <1>6 DEF ShowLink
<1>7. CASE \E r \in Requests, s \in Sessions : ChangePassword(r, s)
  BY <1>7 DEF ChangePassword
<1>8. CASE \E r \in Requests, s \in Sessions : OpenSession(r, s)
  BY <1>8 DEF OpenSession
<1>9. CASE \E r \in Requests :
             \/ LoseLink(r) \/ ConfirmAddress(r) \/ WritePassword(r) \/ RevokeSessions(r)
             \/ Login(r) \/ FailRequest(r)
  BY <1>9 DEF LoseLink, ConfirmAddress, WritePassword, RevokeSessions, Login, FailRequest
<1>10. CASE UNCHANGED vars
  BY <1>10 DEF vars
<1> QED BY <1>1, <1>2, <1>3, <1>4, <1>5, <1>6, <1>7, <1>8, <1>9, <1>10, NextActions

\* An ended session stays ended and an opened one is never unopened.
LEMMA SessionStep ==
  ASSUME TypeOK, [Next]_vars, NEW s \in Sessions
  PROVE  /\ session[s] = "ended" => session'[s] = "ended"
         /\ session[s] \in {"live", "ended"} => session'[s] \in {"live", "ended"}
<1> USE DEF TypeOK
<1>1. CASE \E r \in Requests : SignUp(r) \/ ResendVerification(r) \/ RequestReset(r)
  BY <1>1 DEF SignUp, ResendVerification, RequestReset, Issue
<1>2. CASE \E r \in Requests, k \in Links : InsertLink(r, k) \/ ShowLink(r, k)
  BY <1>2 DEF InsertLink, ShowLink
<1>3. CASE \E r \in Requests, t \in Sessions : ChangePassword(r, t) \/ OpenSession(r, t)
  BY <1>3 DEF ChangePassword, OpenSession
<1>4. CASE \E r \in Requests : RevokeSessions(r)
  BY <1>4 DEF RevokeSessions
<1>5. CASE (\E j \in Links : ExpireLink(j) \/ PurgeLink(j)) \/ \E t \in Sessions : EndSession(t)
  BY <1>5 DEF ExpireLink, PurgeLink, EndSession
<1>6. CASE \E r \in Requests :
             \/ InvalidateLinks(r) \/ ClaimLink(r) \/ LoseLink(r) \/ ConfirmAddress(r)
             \/ WritePassword(r) \/ Login(r) \/ FailRequest(r)
  BY <1>6 DEF InvalidateLinks, ClaimLink, LoseLink, ConfirmAddress, WritePassword, Login,
     FailRequest
<1>7. CASE UNCHANGED vars
  BY <1>7 DEF vars
<1> QED BY <1>1, <1>2, <1>3, <1>4, <1>5, <1>6, <1>7, NextActions

-----------------------------------------------------------------------------
(* The invariant, one lemma per part.                                      *)

LEMMA SpentStep ==
  ASSUME TypeOK, LinkSpentOnce, SpentIsDead, [Next]_vars
  PROVE  LinkSpentOnce' /\ SpentIsDead'
<1> SUFFICES ASSUME NEW k \in Links PROVE spent'[k] <= 1 /\ (spent'[k] > 0 => Dead(k)')
  BY DEF LinkSpentOnce, SpentIsDead, Dead
<1>1. spent[k] \in Nat /\ spent[k] <= 1 /\ (spent[k] > 0 => Dead(k))
  BY DEF TypeOK, LinkSpentOnce, SpentIsDead
<1>2. CASE spent'[k] = spent[k]
  BY <1>1, <1>2, LinkStep
<1>3. CASE Unconsumed(k) /\ Dead(k)' /\ spent'[k] = spent[k] + 1
  <2>1. ~Dead(k)
    BY <1>3 DEF Unconsumed, Dead
  <2> QED BY <1>1, <1>3, <2>1
<1> QED BY <1>2, <1>3, LinkStep

\* A link a request has found of its kind is dead once that request inserts.
LEMMA OlderStep ==
  ASSUME TypeOK, OlderIsDead, [Next]_vars
  PROVE  OlderIsDead'
<1> USE DEF TypeOK, account, links, runs, history
<1>1. \A k \in Links : Dead(k) => Dead(k)'
  BY LinkStep
<1>2. \A n \in Links : earlier'[n] = earlier[n] \/ \E r \in Requests : earlier'[n] = older[r]
  <2>1. CASE \E r \in Requests, j \in Links : InsertLink(r, j)
    BY <2>1 DEF InsertLink
  <2>2. CASE \E r \in Requests, k \in Links : ShowLink(r, k)
    BY <2>2 DEF ShowLink
  <2>3. CASE \E r \in Requests, s \in Sessions : ChangePassword(r, s) \/ OpenSession(r, s)
    BY <2>3 DEF ChangePassword, OpenSession
  <2>4. CASE \E r \in Requests :
               \/ SignUp(r) \/ ResendVerification(r) \/ RequestReset(r) \/ InvalidateLinks(r)
               \/ ClaimLink(r) \/ LoseLink(r) \/ ConfirmAddress(r) \/ WritePassword(r)
               \/ RevokeSessions(r) \/ Login(r) \/ FailRequest(r)
    BY <2>4 DEF SignUp, ResendVerification, RequestReset, Issue, InvalidateLinks, ClaimLink,
       LoseLink, ConfirmAddress, WritePassword, RevokeSessions, Login, FailRequest
  <2>5. CASE (\E j \in Links : ExpireLink(j) \/ PurgeLink(j)) \/ \E s \in Sessions : EndSession(s)
    BY <2>5 DEF ExpireLink, PurgeLink, EndSession
  <2>6. CASE UNCHANGED vars
    BY <2>6 DEF vars
  <2> QED BY <2>1, <2>2, <2>3, <2>4, <2>5, <2>6, NextActions
<1>3. \A r \in Requests : \A k \in older'[r] : k \in older[r] \/ (k \in Links /\ Dead(k)')
  <2>1. CASE \E r \in Requests : InvalidateLinks(r)
    <3>1. PICK q \in Requests : InvalidateLinks(q)
      BY <2>1
    <3>2. \A k \in OfKind(wanted[q]) : k \in Links /\ Dead(k)'
      <4>1. TAKE k \in OfKind(wanted[q])
      <4>2. k \in Links /\ link[k] # "unissued"
        BY <4>1 DEF OfKind
      <4>3. CASE Unconsumed(k)
        BY <3>1, <4>2, <4>3 DEF InvalidateLinks, Dead
      <4>4. CASE ~Unconsumed(k)
        BY <3>1, <4>2, <4>4 DEF InvalidateLinks, Dead, Unconsumed
      <4> QED BY <4>2, <4>3, <4>4
    <3> QED BY <3>1, <3>2 DEF InvalidateLinks
  <2>2. CASE \E r \in Requests, j \in Links : InsertLink(r, j)
    BY <2>2 DEF InsertLink, EndRequest
  <2>3. CASE \E r \in Requests, k \in Links : ShowLink(r, k)
    BY <2>3 DEF ShowLink
  <2>4. CASE \E r \in Requests, s \in Sessions : ChangePassword(r, s) \/ OpenSession(r, s)
    BY <2>4 DEF ChangePassword, OpenSession, EndRequest
  <2>5. CASE \E r \in Requests :
               \/ SignUp(r) \/ ResendVerification(r) \/ RequestReset(r) \/ ClaimLink(r)
               \/ WritePassword(r) \/ Login(r)
    BY <2>5 DEF SignUp, ResendVerification, RequestReset, Issue, ClaimLink, WritePassword, Login
  <2>6. CASE \E r \in Requests :
               LoseLink(r) \/ ConfirmAddress(r) \/ RevokeSessions(r) \/ FailRequest(r)
    BY <2>6 DEF LoseLink, ConfirmAddress, RevokeSessions, FailRequest, EndRequest
  <2>7. CASE (\E j \in Links : ExpireLink(j) \/ PurgeLink(j)) \/ \E s \in Sessions : EndSession(s)
    BY <2>7 DEF ExpireLink, PurgeLink, EndSession
  <2>8. CASE UNCHANGED vars
    BY <2>8 DEF vars
  <2> QED BY <2>1, <2>2, <2>3, <2>4, <2>5, <2>6, <2>7, <2>8, NextActions
<1>4. ASSUME NEW n \in Links, NEW k \in earlier'[n] PROVE Dead(k)'
  BY <1>1, <1>2, <1>4 DEF OlderIsDead
<1>5. ASSUME NEW r \in Requests, NEW k \in older'[r] PROVE Dead(k)'
  BY <1>1, <1>3, <1>5 DEF OlderIsDead
<1> QED BY <1>4, <1>5 DEF OlderIsDead, Dead

LEMMA ShownStep ==
  ASSUME TypeOK, ShownIsIssued, [Next]_vars
  PROVE  ShownIsIssued'
<1> USE DEF TypeOK, account, links, runs, history
<1>1. \A k \in Links : link[k] # "unissued" => link'[k] # "unissued"
  BY LinkStep
<1>2. \A r \in Requests : step'[r] = "claiming" =>
        \/ step[r] = "claiming" /\ shown'[r] = shown[r]
        \/ shown'[r] \in Links /\ link'[shown'[r]] # "unissued"
  <2>1. CASE \E r \in Requests, k \in Links : ShowLink(r, k)
    BY <2>1 DEF ShowLink
  <2>2. CASE \E r \in Requests, j \in Links : InsertLink(r, j)
    BY <2>2 DEF InsertLink, EndRequest
  <2>3. CASE \E r \in Requests, s \in Sessions : ChangePassword(r, s) \/ OpenSession(r, s)
    BY <2>3 DEF ChangePassword, OpenSession, EndRequest
  <2>4. CASE \E r \in Requests :
               \/ SignUp(r) \/ ResendVerification(r) \/ RequestReset(r) \/ InvalidateLinks(r)
               \/ ClaimLink(r) \/ WritePassword(r) \/ Login(r)
    BY <2>4 DEF SignUp, ResendVerification, RequestReset, Issue, InvalidateLinks, ClaimLink,
       WritePassword, Login
  <2>5. CASE \E r \in Requests :
               LoseLink(r) \/ ConfirmAddress(r) \/ RevokeSessions(r) \/ FailRequest(r)
    BY <2>5 DEF LoseLink, ConfirmAddress, RevokeSessions, FailRequest, EndRequest
  <2>6. CASE (\E j \in Links : ExpireLink(j) \/ PurgeLink(j)) \/ \E s \in Sessions : EndSession(s)
    BY <2>6 DEF ExpireLink, PurgeLink, EndSession
  <2>7. CASE UNCHANGED vars
    BY <2>7 DEF vars
  <2> QED BY <2>1, <2>2, <2>3, <2>4, <2>5, <2>6, <2>7, NextActions
<1> QED BY <1>1, <1>2 DEF ShownIsIssued

LEMMA ConfirmedStep ==
  ASSUME TypeOK, ShownIsIssued, ConfirmedByLink, WritersHaveLink, [Next]_vars
  PROVE  ConfirmedByLink' /\ WritersHaveLink'
<1> DEFINE Used == \E k \in Links : spent[k] > 0
           Writer(r) == step[r] = "confirming" \/ (step[r] = "writing" /\ Resets(r))
<1> USE DEF TypeOK, account, links, runs, history
<1>1. Used => Used'
  <2>1. ASSUME NEW k \in Links, spent[k] > 0 PROVE spent'[k] > 0
    BY <2>1, LinkStep
  <2> QED BY <2>1
\* Whoever becomes a writer has just consumed a link or writes for a session.
<1>2. \A r \in Requests : Writer(r)' => Writer(r) \/ Used'
  <2>1. CASE \E r \in Requests : ClaimLink(r)
    <3>1. PICK q \in Requests : ClaimLink(q)
      BY <2>1
    <3>2. shown[q] \in Links
      BY <3>1 DEF ClaimLink, ShownIsIssued
    <3>3. spent'[shown[q]] = spent[shown[q]] + 1
      BY <3>1, <3>2 DEF ClaimLink
    <3> QED BY <3>2, <3>3
  <2>2. CASE \E r \in Requests, j \in Links : InsertLink(r, j)
    BY <2>2 DEF InsertLink, EndRequest, Resets
  <2>3. CASE \E r \in Requests, k \in Links : ShowLink(r, k)
    BY <2>3 DEF ShowLink, Resets
  <2>4. CASE \E r \in Requests, s \in Sessions : ChangePassword(r, s)
    BY <2>4, NoneAssumption DEF ChangePassword, Resets
  <2>5. CASE \E r \in Requests, s \in Sessions : OpenSession(r, s)
    BY <2>5 DEF OpenSession, EndRequest, Resets
  <2>6. CASE \E r \in Requests :
               \/ SignUp(r) \/ ResendVerification(r) \/ RequestReset(r) \/ InvalidateLinks(r)
               \/ WritePassword(r) \/ Login(r)
    BY <2>6 DEF SignUp, ResendVerification, RequestReset, Issue, InvalidateLinks,
       WritePassword, Login, Resets
  <2>7. CASE \E r \in Requests :
               LoseLink(r) \/ ConfirmAddress(r) \/ RevokeSessions(r) \/ FailRequest(r)
    BY <2>7 DEF LoseLink, ConfirmAddress, RevokeSessions, FailRequest, EndRequest, Resets
  <2>8. CASE (\E j \in Links : ExpireLink(j) \/ PurgeLink(j)) \/ \E s \in Sessions : EndSession(s)
    BY <2>8 DEF ExpireLink, PurgeLink, EndSession, Resets
  <2>9. CASE UNCHANGED vars
    BY <2>9 DEF vars, Resets
  <2> QED BY <2>1, <2>2, <2>3, <2>4, <2>5, <2>6, <2>7, <2>8, <2>9, NextActions
<1>3. verified' => verified \/ \E r \in Requests : Writer(r)
  <2>1. CASE \E r \in Requests : ConfirmAddress(r)
    BY <2>1 DEF ConfirmAddress
  <2>2. CASE \E r \in Requests : WritePassword(r)
    BY <2>2 DEF WritePassword
  <2>3. CASE \E r \in Requests, k \in Links : InsertLink(r, k) \/ ShowLink(r, k)
    BY <2>3 DEF InsertLink, ShowLink
  <2>4. CASE \E r \in Requests, s \in Sessions : ChangePassword(r, s) \/ OpenSession(r, s)
    BY <2>4 DEF ChangePassword, OpenSession
  <2>5. CASE \E r \in Requests :
               \/ SignUp(r) \/ ResendVerification(r) \/ RequestReset(r) \/ InvalidateLinks(r)
               \/ ClaimLink(r) \/ LoseLink(r) \/ RevokeSessions(r) \/ Login(r) \/ FailRequest(r)
    BY <2>5 DEF SignUp, ResendVerification, RequestReset, Issue, InvalidateLinks, ClaimLink,
       LoseLink, RevokeSessions, Login, FailRequest
  <2>6. CASE (\E j \in Links : ExpireLink(j) \/ PurgeLink(j)) \/ \E s \in Sessions : EndSession(s)
    BY <2>6 DEF ExpireLink, PurgeLink, EndSession
  <2>7. CASE UNCHANGED vars
    BY <2>7 DEF vars
  <2> QED BY <2>1, <2>2, <2>3, <2>4, <2>5, <2>6, <2>7, NextActions
<1>4. ConfirmedByLink'
  BY <1>1, <1>3 DEF ConfirmedByLink, WritersHaveLink
<1>5. WritersHaveLink'
  BY <1>1, <1>2 DEF WritersHaveLink
<1> QED BY <1>4, <1>5

LEMMA DisplacedStep ==
  ASSUME TypeOK, DisplacedSessionsEnd, OpenWasLive, [Next]_vars
  PROVE  DisplacedSessionsEnd' /\ OpenWasLive'
<1> USE DEF TypeOK, account, links, runs, history
<1>1. \A s \in displaced' : s \in displaced \/ session'[s] = "ended"
  <2>1. CASE \E r \in Requests : RevokeSessions(r)
    BY <2>1 DEF RevokeSessions, Keeps, OpenWasLive
  <2>2. CASE \E r \in Requests, k \in Links : InsertLink(r, k) \/ ShowLink(r, k)
    BY <2>2 DEF InsertLink, ShowLink
  <2>3. CASE \E r \in Requests, t \in Sessions : ChangePassword(r, t) \/ OpenSession(r, t)
    BY <2>3 DEF ChangePassword, OpenSession
  <2>4. CASE \E r \in Requests :
               \/ SignUp(r) \/ ResendVerification(r) \/ RequestReset(r) \/ InvalidateLinks(r)
               \/ ClaimLink(r) \/ LoseLink(r) \/ ConfirmAddress(r) \/ WritePassword(r)
               \/ Login(r) \/ FailRequest(r)
    BY <2>4 DEF SignUp, ResendVerification, RequestReset, Issue, InvalidateLinks, ClaimLink,
       LoseLink, ConfirmAddress, WritePassword, Login, FailRequest
  <2>5. CASE (\E j \in Links : ExpireLink(j) \/ PurgeLink(j)) \/ \E t \in Sessions : EndSession(t)
    BY <2>5 DEF ExpireLink, PurgeLink, EndSession
  <2>6. CASE UNCHANGED vars
    BY <2>6 DEF vars
  <2> QED BY <2>1, <2>2, <2>3, <2>4, <2>5, <2>6, NextActions
<1>2. \A r \in Requests : \A s \in open'[r] :
        s \in open[r] \/ (s \in Sessions /\ session[s] = "live")
  <2>1. CASE \E r \in Requests : WritePassword(r)
    BY <2>1 DEF WritePassword
  <2>2. CASE \E r \in Requests, k \in Links : InsertLink(r, k) \/ ShowLink(r, k)
    BY <2>2 DEF InsertLink, ShowLink, EndRequest
  <2>3. CASE \E r \in Requests, t \in Sessions : ChangePassword(r, t) \/ OpenSession(r, t)
    BY <2>3 DEF ChangePassword, OpenSession, EndRequest
  <2>4. CASE \E r \in Requests :
               \/ SignUp(r) \/ ResendVerification(r) \/ RequestReset(r) \/ InvalidateLinks(r)
               \/ ClaimLink(r) \/ Login(r)
    BY <2>4 DEF SignUp, ResendVerification, RequestReset, Issue, InvalidateLinks, ClaimLink,
       Login
  <2>5. CASE \E r \in Requests :
               LoseLink(r) \/ ConfirmAddress(r) \/ RevokeSessions(r) \/ FailRequest(r)
    BY <2>5 DEF LoseLink, ConfirmAddress, RevokeSessions, FailRequest, EndRequest
  <2>6. CASE (\E j \in Links : ExpireLink(j) \/ PurgeLink(j)) \/ \E t \in Sessions : EndSession(t)
    BY <2>6 DEF ExpireLink, PurgeLink, EndSession
  <2>7. CASE UNCHANGED vars
    BY <2>7 DEF vars
  <2> QED BY <2>1, <2>2, <2>3, <2>4, <2>5, <2>6, <2>7, NextActions
<1>3. \A s \in Sessions : /\ session[s] = "ended" => session'[s] = "ended"
                          /\ session[s] \in {"live", "ended"} => session'[s] \in {"live", "ended"}
  BY SessionStep
<1>4. DisplacedSessionsEnd'
  BY <1>1, <1>3 DEF DisplacedSessionsEnd
<1>5. OpenWasLive'
  BY <1>2, <1>3 DEF OpenWasLive
<1> QED BY <1>4, <1>5

-----------------------------------------------------------------------------
LEMMA InvariantInit == Init => AccountInvariant
<1> SUFFICES ASSUME Init PROVE AccountInvariant
  OBVIOUS
<1>1. LinkSpentOnce /\ SpentIsDead /\ OlderIsDead
  BY DEF Init, LinkSpentOnce, SpentIsDead, OlderIsDead
<1>2. ShownIsIssued /\ ConfirmedByLink /\ WritersHaveLink
  BY DEF Init, ShownIsIssued, ConfirmedByLink, WritersHaveLink
<1>3. DisplacedSessionsEnd /\ OpenWasLive
  BY DEF Init, DisplacedSessionsEnd, OpenWasLive
<1> QED BY <1>1, <1>2, <1>3, TypeInit DEF AccountInvariant

LEMMA InvariantStep == AccountInvariant /\ [Next]_vars => AccountInvariant'
  BY TypeStep, SpentStep, OlderStep, ShownStep, ConfirmedStep, DisplacedStep
  DEF AccountInvariant

\* The inductive invariant holds of every number of links, sessions and
\* requests: what is consumed stays consumed, and what was displaced stays
\* ended.
THEOREM AccountCorrect == Spec => []AccountInvariant
  BY InvariantInit, InvariantStep, PTL DEF Spec

\* However many requests show a link at the same time, one consumes it
\* (authTokens.ts:43-47).
THEOREM LinksSpentOnce == Spec => []LinkSpentOnce
<1>1. AccountInvariant => LinkSpentOnce
  BY DEF AccountInvariant
<1> QED BY <1>1, AccountCorrect, PTL

\* No account is confirmed without a link that was consumed for it.
THEOREM ConfirmationNeedsLink == Spec => []ConfirmedByLink
<1>1. AccountInvariant => ConfirmedByLink
  BY DEF AccountInvariant
<1> QED BY <1>1, AccountCorrect, PTL

\* A completed change of password has ended every other session that was live
\* when it wrote the password.
THEOREM SessionsDisplaced == Spec => []DisplacedSessionsEnd
<1>1. AccountInvariant => DisplacedSessionsEnd
  BY DEF AccountInvariant
<1> QED BY <1>1, AccountCorrect, PTL

\* Asking for a new link makes every earlier one of its kind useless, also to
\* a request that has already read it (authTokens.ts:12-19).
THEOREM SupersededLose == Spec => SupersededNeverWins
<1>1. ASSUME AccountInvariant, [Next]_vars
      PROVE  \A k, n \in Links : k \in earlier[n] => spent'[k] = spent[k]
  <2>1. TAKE k, n \in Links
  <2>2. HAVE k \in earlier[n]
  <2>3. Dead(k)
    BY <1>1, <2>2 DEF AccountInvariant, OlderIsDead
  <2>4. ~Unconsumed(k)
    BY <2>3 DEF Dead, Unconsumed
  <2> QED BY <1>1, <2>4, LinkStep DEF AccountInvariant
<1>2. AccountInvariant /\ [Next]_vars
        => [\A k, n \in Links : k \in earlier[n] => spent'[k] = spent[k]]_vars
  BY <1>1
<1> QED BY <1>2, AccountCorrect, PTL DEF Spec, SupersededNeverWins
=============================================================================
