-------------------------- MODULE ProvisioningProofs --------------------------
(***************************************************************************)
(* Proofs about Provisioning, for any requests, visitors, slugs, number of *)
(* slots and attempts.                                                     *)
(***************************************************************************)
EXTENDS Provisioning, TLAPS

\* PvNext, one disjunct per action.
LEMMA NextActions ==
  ASSUME [PvNext]_pvVars
  PROVE  \/ \E o \in Owners, isPublic \in BOOLEAN : BeginCreate(o, isPublic)
         \/ \E o \in Owners, kind \in {"get", "publish", "unpublish", "rotate"} : BeginSettings(o, kind)
         \/ \E o \in Owners : TrySlot(o)
         \/ \E o \in Owners : FindPage(o)
         \/ \E o \in Owners : ReadAgain(o)
         \/ \E o \in Owners : AnswerSettings(o)
         \/ \E o \in Owners, slug \in Generated : InsertPage(o, slug)
         \/ \E o \in Owners, slug \in Generated : WritePage(o, slug)
         \/ \E s \in SlotIds : DeleteMonitor(s)
         \/ \E v \in Visitors, slug \in Slugs \ {TakenSlug} : BeginVisit(v, slug)
         \/ \E v \in Visitors : LookUp(v)
         \/ \E v \in Visitors : ServePage(v)
         \/ UNCHANGED pvVars
  BY Zenon DEF PvNext

-----------------------------------------------------------------------------
(* Types.                                                                  *)

Kind == {"get", "publish", "unpublish", "rotate"}
Page == [slug : Slugs, published : BOOLEAN]

Creating  == [pc : {"create"}, slot : SlotIds, isPublic : BOOLEAN, freed : BOOLEAN]
Settling  == [pc : {"find", "insert", "again", "write", "answer"}, kind : Kind,
              attempts : 0..(SlugAttempts - 1), before : Slugs \cup {"none"}]
Refused   == [pc : {"done"}, answer : {"full"}, freed : BOOLEAN]
Created   == [pc : {"done"}, answer : {"created"}, slot : SlotIds]
GaveUp    == [pc : {"done"}, answer : {"failed"}, attempts : 0..(SlugAttempts - 1)]
Answering == [pc : {"done"}, answer : {"settings"}, kind : Kind, before : Slugs \cup {"none"},
              page : Page \cup {NoPage}, monitors : SUBSET SlotIds]

Looking == [pc : {"lookup"}, slug : Slugs, live : BOOLEAN]
Reading == [pc : {"monitors"}, slug : Slugs, live : BOOLEAN]
Missed  == [pc : {"done"}, answer : {"not_found"}]
Served  == [pc : {"done"}, answer : {"page"}, slug : Slugs, live : BOOLEAN,
            monitors : SUBSET SlotIds]

RequestState == {Resting} \cup Creating \cup Settling \cup Refused \cup Created \cup GaveUp \cup Answering
VisitState   == {Resting} \cup Looking \cup Reading \cup Missed \cup Served

TypeOK ==
  /\ slots \in [SlotIds -> BOOLEAN]
  /\ public \in [SlotIds -> BOOLEAN]
  /\ page \in Page \cup {NoPage}
  /\ request \in [Owners -> RequestState]
  /\ visit \in [Visitors -> VisitState]
  /\ issued \subseteq Slugs \ {TakenSlug}

\* The page carries a slug that was generated for it.
PageIssued == page # NoPage => page.slug \in issued

\* A request r of the settings against the page p and the slugs i issued so far:
\* past getOrCreateStatusPage it has the page before it; the slug it began with
\* was issued; and once it has rotated the page, the page shows another one.
FitsPage(r, p, i) ==
  /\ r.pc \in {"write", "answer"} => p # NoPage
  /\ r.pc \in {"find", "insert", "again", "write", "answer"} =>
       /\ r.before \in i \cup {"none"}
       /\ r.pc = "answer" /\ r.kind = "rotate" => p.slug # r.before

RequestsFit == \A o \in Owners : FitsPage(request[o], page, issued)

\* A creation has found every slot below its own occupied, unless a delete ran.
WalkOccupied ==
  \A o \in Owners :
    LET r == request[o]
    IN  r.pc = "create" => r.freed \/ \A s \in SlotIds : s < r.slot => slots[s]

\* A visit whose lookup would succeed, or did, has met the page while published.
VisitsLive ==
  \A v \in Visitors :
    LET r == visit[v]
    IN  /\ r.pc = "lookup" /\ Shows(page, r.slug) => r.live
        /\ r.pc = "monitors" => r.live

PageInvariant ==
  /\ TypeOK
  /\ PageIssued /\ RequestsFit
  /\ SettingsShowTheOnePage

ProvisioningInvariant ==
  /\ PageInvariant
  /\ WalkOccupied
  /\ VisitsLive
  /\ RevokedPageIsGone

-----------------------------------------------------------------------------
(* Type correctness.                                                       *)

\* What a request may be by its program counter.
LEMMA RequestByPc ==
  ASSUME NEW r \in RequestState
  PROVE  /\ r.pc = "create" => r \in Creating
         /\ r.pc \in {"find", "insert", "again", "write", "answer"} => r \in Settling
         /\ r.pc = "done" => r \in Refused \cup Created \cup GaveUp \cup Answering
         /\ r.pc = "none" => r = Resting
  BY DEF RequestState, Resting, Creating, Settling, Refused, Created, GaveUp, Answering

LEMMA VisitByPc ==
  ASSUME NEW r \in VisitState
  PROVE  /\ r.pc = "lookup" => r \in Looking
         /\ r.pc = "monitors" => r \in Reading
         /\ r.pc = "done" => r \in Missed \cup Served
         /\ r.pc = "none" => r = Resting
  BY DEF VisitState, Resting, Looking, Reading, Missed, Served

\* A request that moves on within the settings: where it is, how often it has tried.
LEMMA Moved ==
  ASSUME NEW r \in Settling, NEW pc \in {"find", "insert", "again", "write", "answer"}
  PROVE  /\ At(r, pc) \in Settling
         /\ At(r, pc).pc = pc
         /\ At(r, pc).kind = r.kind /\ At(r, pc).before = r.before
         /\ At(r, pc).attempts = r.attempts
  BY DEF At, Settling

LEMMA TriedAgain ==
  ASSUME NEW r \in Settling, r.attempts + 1 < SlugAttempts
  PROVE  /\ [r EXCEPT !.attempts = @ + 1] \in Settling
         /\ [r EXCEPT !.attempts = @ + 1].pc = r.pc
         /\ [r EXCEPT !.attempts = @ + 1].kind = r.kind
         /\ [r EXCEPT !.attempts = @ + 1].before = r.before
  BY ProvisioningAssumption DEF Settling

LEMMA FoundIt ==
  ASSUME NEW r \in Settling
  PROVE  /\ Found(r) \in Settling
         /\ Found(r).pc = IF r.kind = "get" THEN "answer" ELSE "write"
         /\ Found(r).kind = r.kind /\ Found(r).before = r.before
<1> DEFINE q == At(r, IF r.kind = "get" THEN "answer" ELSE "write")
<1>1. /\ q \in Settling /\ q.pc = (IF r.kind = "get" THEN "answer" ELSE "write")
      /\ q.kind = r.kind /\ q.before = r.before
  BY Moved
<1>2. Found(r) = [q EXCEPT !.attempts = 0]
  BY DEF Found
<1> HIDE DEF q
<1> QED BY <1>1, <1>2, ProvisioningAssumption DEF Settling

LEMMA GivesUp ==
  ASSUME NEW r \in Settling
  PROVE  [pc |-> "done", answer |-> "failed", attempts |-> r.attempts] \in GaveUp
  BY DEF Settling, GaveUp

LEMMA Refreshed ==
  ASSUME NEW r \in Looking, NEW live \in BOOLEAN
  PROVE  /\ [r EXCEPT !.live = live] \in Looking
         /\ [r EXCEPT !.live = live].live = live
         /\ [r EXCEPT !.live = live].slug = r.slug
         /\ [r EXCEPT !.pc = "monitors"] \in Reading
         /\ [r EXCEPT !.pc = "monitors"].live = r.live
  BY DEF Looking, Reading

\* A page published or not, and one under another slug.
LEMMA PagePublished ==
  ASSUME NEW p \in Page, NEW published \in BOOLEAN
  PROVE  /\ [p EXCEPT !.published = published] \in Page
         /\ [p EXCEPT !.published = published].slug = p.slug
         /\ [p EXCEPT !.published = published].published = published
  BY DEF Page

LEMMA PageRotated ==
  ASSUME NEW p \in Page, NEW slug \in Slugs
  PROVE  /\ [p EXCEPT !.slug = slug] \in Page
         /\ [p EXCEPT !.slug = slug].slug = slug
         /\ [p EXCEPT !.slug = slug].published = p.published
  BY DEF Page

\* A creation that a delete overtakes.
LEMMA Overtaken ==
  ASSUME NEW r \in Creating
  PROVE  /\ [r EXCEPT !.freed = TRUE] \in Creating
         /\ [r EXCEPT !.freed = TRUE].freed
         /\ [r EXCEPT !.freed = TRUE].slot = r.slot
  BY DEF Creating

LEMMA TypeStep ==
  ASSUME TypeOK, RequestsFit, [PvNext]_pvVars
  PROVE  TypeOK'
<1> USE ProvisioningAssumption DEF TypeOK
<1>set. ASSUME NEW o \in Owners, NEW r \in RequestState, Set(o, r)
        PROVE  request' \in [Owners -> RequestState]
  BY <1>set DEF Set
<1>1. CASE \E o \in Owners, isPublic \in BOOLEAN : BeginCreate(o, isPublic)
  <2>1. PICK o \in Owners, isPublic \in BOOLEAN : BeginCreate(o, isPublic)
    BY <1>1
  <2>2. [pc |-> "create", slot |-> 0, isPublic |-> isPublic, freed |-> FALSE] \in RequestState
    BY DEF RequestState, Creating, SlotIds
  <2> QED BY <2>1, <2>2, <1>set DEF BeginCreate
<1>2. CASE \E o \in Owners, kind \in Kind : BeginSettings(o, kind)
  <2>1. PICK o \in Owners, kind \in Kind : BeginSettings(o, kind)
    BY <1>2
  <2>2. page.slug \in Slugs \cup {"none"}
    BY DEF Page, NoPage
  <2>3. [pc |-> "find", kind |-> kind, attempts |-> 0, before |-> page.slug] \in RequestState
    BY <2>2 DEF RequestState, Settling
  <2> QED BY <2>1, <2>3, <1>set DEF BeginSettings
<1>3. CASE \E o \in Owners : TrySlot(o)
  <2>1. PICK o \in Owners : TrySlot(o)
    BY <1>3
  <2> DEFINE r == request[o]
  <2>2. r \in Creating
    BY <2>1, RequestByPc DEF TrySlot
  <2>3. [pc |-> "done", answer |-> "created", slot |-> r.slot] \in RequestState
    BY <2>2 DEF RequestState, Creating, Created
  <2>4. r.slot + 1 < SlotsToTry => [r EXCEPT !.slot = @ + 1] \in RequestState
    BY <2>2 DEF RequestState, Creating, SlotsToTry, SlotIds
  <2>5. [pc |-> "done", answer |-> "full", freed |-> r.freed] \in RequestState
    BY <2>2 DEF RequestState, Creating, Refused
  <2>6. CASE ~slots[r.slot]
    <3>1. r.slot \in SlotIds /\ r.isPublic \in BOOLEAN
      BY <2>2 DEF Creating
    <3> QED BY <3>1, <2>1, <2>3, <2>6, <1>set DEF TrySlot
  <2>7. CASE slots[r.slot] /\ r.slot + 1 < SlotsToTry
    BY <2>1, <2>4, <2>7, <1>set DEF TrySlot
  <2>8. CASE slots[r.slot] /\ ~(r.slot + 1 < SlotsToTry)
    BY <2>1, <2>5, <2>8, <1>set DEF TrySlot
  <2> QED BY <2>6, <2>7, <2>8
<1>4. CASE \E o \in Owners : FindPage(o)
  <2>1. PICK o \in Owners : FindPage(o)
    BY <1>4
  <2>2. request[o] \in Settling
    BY <2>1, RequestByPc DEF FindPage
  <2>3. Found(request[o]) \in RequestState /\ At(request[o], "insert") \in RequestState
    BY <2>2, FoundIt, Moved DEF RequestState
  <2> QED BY <2>1, <2>3, <1>set DEF FindPage
<1>5. CASE \E o \in Owners : ReadAgain(o)
  <2>1. PICK o \in Owners : ReadAgain(o)
    BY <1>5
  <2>2. request[o] \in Settling
    BY <2>1, RequestByPc DEF ReadAgain
  <2>3. Found(request[o]) \in RequestState
    BY <2>2, FoundIt DEF RequestState
  <2>4. ASSUME request[o].attempts + 1 < SlugAttempts
        PROVE  [At(request[o], "insert") EXCEPT !.attempts = @ + 1] \in RequestState
    <3> DEFINE q == At(request[o], "insert")
    <3>1. q \in Settling /\ q.attempts = request[o].attempts
      BY <2>2, Moved
    <3> HIDE DEF q
    <3>2. [q EXCEPT !.attempts = @ + 1] \in Settling
      BY <2>4, <3>1, TriedAgain
    <3> QED BY <3>2 DEF RequestState, q
  <2>5. [pc |-> "done", answer |-> "failed", attempts |-> request[o].attempts] \in RequestState
    BY <2>2, GivesUp DEF RequestState
  <2> QED BY <2>1, <2>3, <2>4, <2>5, <1>set DEF ReadAgain
<1>6. CASE \E o \in Owners : AnswerSettings(o)
  <2>1. PICK o \in Owners : AnswerSettings(o)
    BY <1>6
  <2>2. request[o] \in Settling
    BY <2>1, RequestByPc DEF AnswerSettings
  <2>3. [pc |-> "done", answer |-> "settings", kind |-> request[o].kind,
         before |-> request[o].before, page |-> page,
         monitors |-> { s \in SlotIds : public[s] }] \in RequestState
    BY <2>2 DEF RequestState, Answering, Settling
  <2> QED BY <2>1, <2>3, <1>set DEF AnswerSettings
<1>7. CASE \E o \in Owners, slug \in Generated : InsertPage(o, slug)
  <2>1. PICK o \in Owners, slug \in Generated : InsertPage(o, slug)
    BY <1>7
  <2>2. request[o] \in Settling
    BY <2>1, RequestByPc DEF InsertPage
  <2>3. Found(request[o]) \in RequestState /\ ReadOnceMore(request[o]) \in RequestState
    BY <2>2, FoundIt, Moved DEF RequestState, ReadOnceMore
  <2>4. slug \in Slugs
    BY DEF Generated
  <2>5. CASE page = NoPage /\ slug # TakenSlug
    <3>1. /\ page' = [slug |-> slug, published |-> FALSE]
          /\ issued' = issued \cup {slug}
          /\ request' \in [Owners -> RequestState]
          /\ UNCHANGED <<slots, public, visit>>
      BY <2>1, <2>3, <2>5, <1>set DEF InsertPage
    <3>2. page' \in Page /\ issued' \subseteq Slugs \ {TakenSlug}
      BY <3>1, <2>4, <2>5 DEF Page
    <3> QED BY <3>1, <3>2
  <2>6. CASE ~(page = NoPage /\ slug # TakenSlug)
    BY <2>1, <2>3, <2>6, <1>set DEF InsertPage
  <2> QED BY <2>5, <2>6
<1>8. CASE \E o \in Owners, slug \in Generated : WritePage(o, slug)
  <2>1. PICK o \in Owners, slug \in Generated : WritePage(o, slug)
    BY <1>8
  <2> DEFINE r == request[o]
  <2>2. r \in Settling
    BY <2>1, RequestByPc DEF WritePage
  <2>3. At(r, "answer") \in RequestState
    BY <2>2, Moved DEF RequestState
  <2>4. r.attempts + 1 < SlugAttempts => [r EXCEPT !.attempts = @ + 1] \in RequestState
    BY <2>2, TriedAgain DEF RequestState
  <2>5. [pc |-> "done", answer |-> "failed", attempts |-> r.attempts] \in RequestState
    BY <2>2, GivesUp DEF RequestState
  <2>6. slug \in Slugs
    BY DEF Generated
  <2>7. page' \in Page \cup {NoPage} /\ issued' \subseteq Slugs \ {TakenSlug}
    <3>1. page \in Page
      BY <2>1 DEF WritePage, RequestsFit, FitsPage
    <3>2. CASE r.kind \in {"publish", "unpublish"}
      <4>1. page' = [page EXCEPT !.published = (r.kind = "publish")] /\ issued' = issued
        BY <2>1, <3>2 DEF WritePage
      <4>2. (r.kind = "publish") \in BOOLEAN
        OBVIOUS
      <4> QED BY <3>1, <4>1, <4>2, PagePublished
    <3>3. CASE r.kind = "rotate" /\ slug # TakenSlug
      <4>1. page' = [page EXCEPT !.slug = slug] /\ issued' = issued \cup {slug}
        BY <2>1, <3>3 DEF WritePage
      <4> QED BY <2>6, <3>1, <3>3, <4>1, PageRotated
    <3>4. CASE r.kind = "rotate" /\ slug = TakenSlug
      BY <2>1, <3>4 DEF WritePage
    <3> QED BY <2>1, <3>2, <3>3, <3>4 DEF WritePage
  <2>8. request' \in [Owners -> RequestState]
    BY <2>1, <2>3, <2>4, <2>5, <1>set DEF WritePage
  <2>9. ASSUME NEW v \in Visitors, visit[v].pc = "lookup"
        PROVE  [visit[v] EXCEPT !.live = @ \/ Shows(page', visit[v].slug)] \in VisitState
    <3>1. visit[v] \in Looking
      BY <2>9, VisitByPc
    <3>2. (visit[v].live \/ Shows(page', visit[v].slug)) \in BOOLEAN
      OBVIOUS
    <3> QED BY <3>1, <3>2, Refreshed DEF VisitState
  <2>10. visit' \in [Visitors -> VisitState]
    BY <2>1, <2>9 DEF WritePage
  <2> QED BY <2>1, <2>7, <2>8, <2>10 DEF WritePage
<1>9. CASE \E s \in SlotIds : DeleteMonitor(s)
  <2>1. PICK s \in SlotIds : DeleteMonitor(s)
    BY <1>9
  <2>2. ASSUME NEW o \in Owners, request[o].pc = "create"
        PROVE  [request[o] EXCEPT !.freed = TRUE] \in RequestState
    BY <2>2, RequestByPc, Overtaken DEF RequestState
  <2>3. request' \in [Owners -> RequestState]
    BY <2>1, <2>2 DEF DeleteMonitor
  <2> QED BY <2>1, <2>3 DEF DeleteMonitor
<1>10. CASE \E v \in Visitors, slug \in Slugs \ {TakenSlug} : BeginVisit(v, slug)
  <2>1. PICK v \in Visitors, slug \in Slugs \ {TakenSlug} : BeginVisit(v, slug)
    BY <1>10
  <2>2. [pc |-> "lookup", slug |-> slug, live |-> Shows(page, slug)] \in VisitState
    BY DEF VisitState, Looking, Shows
  <2> QED BY <2>1, <2>2 DEF BeginVisit
<1>11. CASE \E v \in Visitors : LookUp(v)
  <2>1. PICK v \in Visitors : LookUp(v)
    BY <1>11
  <2>2. [visit[v] EXCEPT !.pc = "monitors"] \in VisitState
    BY <2>1, VisitByPc, Refreshed DEF LookUp, VisitState
  <2>3. [pc |-> "done", answer |-> "not_found"] \in VisitState
    BY DEF VisitState, Missed
  <2> QED BY <2>1, <2>2, <2>3 DEF LookUp
<1>12. CASE \E v \in Visitors : ServePage(v)
  <2>1. PICK v \in Visitors : ServePage(v)
    BY <1>12
  <2>2. visit[v] \in Reading
    BY <2>1, VisitByPc DEF ServePage
  <2>3. [pc |-> "done", answer |-> "page", slug |-> visit[v].slug, live |-> visit[v].live,
         monitors |-> { s \in SlotIds : public[s] }] \in VisitState
    BY <2>2 DEF VisitState, Reading, Served
  <2> QED BY <2>1, <2>3 DEF ServePage
<1>13. CASE UNCHANGED pvVars
  BY <1>13 DEF pvVars
<1> QED
  BY NextActions, <1>1, <1>2, <1>3, <1>4, <1>5, <1>6, <1>7, <1>8, <1>9, <1>10, <1>11, <1>12, <1>13
     DEF Kind

-----------------------------------------------------------------------------
(* The one page of the account.                                            *)

\* How the page and its slugs may change: the page stays, under its slug or
\* under one it never had.
Evolves(p, i, p2, i2) ==
  /\ i \subseteq i2
  /\ p # NoPage => p2 # NoPage
  /\ p2.slug = p.slug \/ p2.slug \notin i \cup {"none"}

LEMMA StillFits ==
  ASSUME NEW r, NEW p, NEW i, NEW p2, NEW i2, FitsPage(r, p, i), Evolves(p, i, p2, i2)
  PROVE  FitsPage(r, p2, i2)
  BY DEF FitsPage, Evolves

\* What SettingsShowTheOnePage says of one request.
Truthful(r) ==
  r.pc = "done" =>
    /\ r.answer = "settings" => r.page.slug \in Slugs \ {TakenSlug}
    /\ r.answer = "settings" /\ r.kind = "rotate" => r.page.slug # r.before
    /\ r.answer = "failed" => r.attempts + 1 = SlugAttempts

LEMMA PageStep ==
  ASSUME PageInvariant, [PvNext]_pvVars
  PROVE  PageInvariant'
<1> USE ProvisioningAssumption DEF PageInvariant
<1>type. TypeOK'
  BY TypeStep
<1>same. Evolves(page, issued, page, issued)
  BY DEF Evolves
<1>truth. \A o \in Owners : Truthful(request[o])
  BY Zenon DEF SettingsShowTheOnePage, Truthful
<1>goal. ASSUME PageIssued', \A o \in Owners : FitsPage(request'[o], page', issued') /\ Truthful(request'[o])
         PROVE  PageInvariant'
  BY Zenon, <1>type, <1>goal DEF RequestsFit, SettingsShowTheOnePage, Truthful
<1>fits. ASSUME NEW o \in Owners, NEW r, Set(o, r), PageIssued', Evolves(page, issued, page', issued'),
                FitsPage(r, page', issued'), Truthful(r)
         PROVE  PageInvariant'
  <2>1. \A q \in Owners : request'[q] = IF q = o THEN r ELSE request[q]
    BY <1>fits DEF Set, TypeOK
  <2>2. ASSUME NEW q \in Owners PROVE FitsPage(request'[q], page', issued') /\ Truthful(request'[q])
    BY <2>1, <1>fits, <1>truth, StillFits DEF RequestsFit
  <2> QED BY <2>2, <1>fits, <1>goal
<1>rest. ASSUME UNCHANGED <<request, page, issued>>
         PROVE  PageInvariant'
  BY <1>rest, <1>truth, <1>goal DEF RequestsFit, PageIssued
<1>1. CASE \E o \in Owners, isPublic \in BOOLEAN : BeginCreate(o, isPublic)
  <2>1. PICK o \in Owners, isPublic \in BOOLEAN : BeginCreate(o, isPublic)
    BY <1>1
  <2> DEFINE r == [pc |-> "create", slot |-> 0, isPublic |-> isPublic, freed |-> FALSE]
  <2>2. FitsPage(r, page', issued') /\ Truthful(r)
    BY DEF FitsPage, Truthful
  <2>3. Set(o, r) /\ UNCHANGED <<page, issued>>
    BY <2>1 DEF BeginCreate
  <2> QED BY <2>2, <2>3, <1>fits, <1>same DEF PageIssued
<1>2. CASE \E o \in Owners, kind \in Kind : BeginSettings(o, kind)
  <2>1. PICK o \in Owners, kind \in Kind : BeginSettings(o, kind)
    BY <1>2
  <2> DEFINE r == [pc |-> "find", kind |-> kind, attempts |-> 0, before |-> page.slug]
  <2>2. page.slug \in issued \cup {"none"}
    BY DEF PageIssued, NoPage
  <2>3. FitsPage(r, page, issued) /\ Truthful(r)
    BY <2>2 DEF FitsPage, Truthful
  <2>4. Set(o, r) /\ UNCHANGED <<page, issued>>
    BY <2>1 DEF BeginSettings
  <2> QED BY <2>3, <2>4, <1>fits, <1>same DEF PageIssued
<1>3. CASE \E o \in Owners : TrySlot(o)
  <2>1. PICK o \in Owners : TrySlot(o)
    BY <1>3
  <2>2. ASSUME NEW r, Set(o, r), r.pc = "create" \/ (r.pc = "done" /\ r.answer \in {"created", "full"})
        PROVE  PageInvariant'
    <3>1. FitsPage(r, page, issued) /\ Truthful(r)
      BY <2>2 DEF FitsPage, Truthful
    <3> QED BY <3>1, <2>1, <2>2, <1>fits, <1>same DEF TrySlot, PageIssued
  <2>3. request[o] \in Creating
    BY <2>1, RequestByPc DEF TrySlot, TypeOK
  <2>4. [request[o] EXCEPT !.slot = @ + 1].pc = "create"
    BY <2>3 DEF Creating
  <2>5. \/ Set(o, [pc |-> "done", answer |-> "created", slot |-> request[o].slot])
        \/ Set(o, [request[o] EXCEPT !.slot = @ + 1])
        \/ Set(o, [pc |-> "done", answer |-> "full", freed |-> request[o].freed])
    BY Zenon, <2>1 DEF TrySlot
  <2> QED BY <2>2, <2>4, <2>5
<1>4. CASE \E o \in Owners : FindPage(o)
  <2>1. PICK o \in Owners : FindPage(o)
    BY <1>4
  <2> DEFINE r == request[o]
  <2>2. r \in Settling /\ FitsPage(r, page, issued) /\ UNCHANGED <<page, issued>>
    BY <2>1, RequestByPc DEF FindPage, RequestsFit, TypeOK
  <2>3. CASE page # NoPage
    <3>1. Set(o, Found(r))
      BY <2>1, <2>3 DEF FindPage
    <3>2. FitsPage(Found(r), page, issued) /\ Truthful(Found(r))
      BY <2>2, <2>3, FoundIt DEF FitsPage, Truthful, Settling
    <3> QED BY <2>2, <3>1, <3>2, <1>fits, <1>same DEF PageIssued
  <2>4. CASE page = NoPage
    <3>1. Set(o, At(r, "insert"))
      BY <2>1, <2>4 DEF FindPage
    <3>2. FitsPage(At(r, "insert"), page, issued) /\ Truthful(At(r, "insert"))
      BY <2>2, Moved DEF FitsPage, Truthful, Settling
    <3> QED BY <2>2, <3>1, <3>2, <1>fits, <1>same DEF PageIssued
  <2> QED BY <2>3, <2>4
<1>5. CASE \E o \in Owners : ReadAgain(o)
  <2>1. PICK o \in Owners : ReadAgain(o)
    BY <1>5
  <2> DEFINE r == request[o]
  <2>2. r \in Settling /\ FitsPage(r, page, issued) /\ UNCHANGED <<page, issued>>
    BY <2>1, RequestByPc DEF ReadAgain, RequestsFit, TypeOK
  <2>3. CASE page # NoPage
    <3>1. Set(o, Found(r))
      BY <2>1, <2>3 DEF ReadAgain
    <3>2. FitsPage(Found(r), page, issued) /\ Truthful(Found(r))
      BY <2>2, <2>3, FoundIt DEF FitsPage, Truthful, Settling
    <3> QED BY <2>2, <3>1, <3>2, <1>fits, <1>same DEF PageIssued
  <2>4. CASE page = NoPage /\ r.attempts + 1 < SlugAttempts
    <3> DEFINE q == At(r, "insert")
               t == [q EXCEPT !.attempts = @ + 1]
    <3>1. Set(o, t)
      BY <2>1, <2>4 DEF ReadAgain
    <3>2. /\ q \in Settling /\ q.attempts + 1 < SlugAttempts
          /\ q.pc = "insert" /\ q.before = r.before
      BY <2>2, <2>4, Moved
    <3>3. t.pc = "insert" /\ t.before = r.before
      <4> HIDE DEF q
      <4> QED BY <3>2, TriedAgain
    <3> HIDE DEF t
    <3>4. FitsPage(t, page, issued) /\ Truthful(t)
      BY <2>2, <3>3 DEF FitsPage, Truthful, Settling
    <3> QED BY <2>2, <3>1, <3>4, <1>fits, <1>same DEF PageIssued
  <2>5. CASE page = NoPage /\ ~(r.attempts + 1 < SlugAttempts)
    <3> DEFINE t == [pc |-> "done", answer |-> "failed", attempts |-> r.attempts]
    <3>1. Set(o, t)
      BY <2>1, <2>5 DEF ReadAgain
    <3>2. FitsPage(t, page, issued) /\ Truthful(t)
      BY <2>2, <2>5 DEF FitsPage, Truthful, Settling
    <3> QED BY <2>2, <3>1, <3>2, <1>fits, <1>same DEF PageIssued
  <2> QED BY <2>3, <2>4, <2>5
<1>6. CASE \E o \in Owners : AnswerSettings(o)
  <2>1. PICK o \in Owners : AnswerSettings(o)
    BY <1>6
  <2> DEFINE r == request[o]
             t == [pc |-> "done", answer |-> "settings", kind |-> r.kind, before |-> r.before,
                   page |-> page, monitors |-> { s \in SlotIds : public[s] }]
  <2>2. FitsPage(r, page, issued) /\ r.pc = "answer"
    BY <2>1 DEF AnswerSettings, RequestsFit
  <2>3. page.slug \in Slugs \ {TakenSlug}
    BY <2>2 DEF FitsPage, PageIssued, TypeOK
  <2>4. r.kind = "rotate" => page.slug # r.before
    BY <2>2 DEF FitsPage
  <2>5. FitsPage(t, page, issued) /\ Truthful(t)
    BY <2>3, <2>4 DEF FitsPage, Truthful
  <2>6. Set(o, t) /\ UNCHANGED <<page, issued>>
    BY <2>1 DEF AnswerSettings
  <2> QED BY <2>5, <2>6, <1>fits, <1>same DEF PageIssued
<1>7. CASE \E o \in Owners, slug \in Generated : InsertPage(o, slug)
  <2>1. PICK o \in Owners, slug \in Generated : InsertPage(o, slug)
    BY <1>7
  <2> DEFINE r == request[o]
  <2>2. r \in Settling /\ FitsPage(r, page, issued) /\ r.pc = "insert"
    BY <2>1, RequestByPc DEF InsertPage, RequestsFit, TypeOK
  <2>3. CASE page = NoPage /\ slug # TakenSlug
    <3>1. /\ Set(o, Found(r))
          /\ page' = [slug |-> slug, published |-> FALSE] /\ issued' = issued \cup {slug}
      BY <2>1, <2>3 DEF InsertPage
    <3>2. slug \in Slugs \ issued /\ slug # "none"
      BY <2>3 DEF Generated
    <3>3. PageIssued' /\ page' # NoPage /\ page'.slug = slug
      BY <3>1, <3>2 DEF PageIssued, NoPage
    <3>4. Evolves(page, issued, page', issued')
      BY <3>1, <3>2, <3>3 DEF Evolves
    <3>5. Found(r).pc = "answer" => Found(r).kind = "get"
      BY <2>2, FoundIt
    <3>6. Found(r).pc \in {"answer", "write"} /\ Found(r).before = r.before
      BY <2>2, FoundIt
    <3>7. FitsPage(Found(r), page', issued') /\ Truthful(Found(r))
      BY <2>2, <3>1, <3>3, <3>5, <3>6 DEF FitsPage, Truthful
    <3> QED BY <3>1, <3>3, <3>4, <3>7, <1>fits
  <2>4. CASE ~(page = NoPage /\ slug # TakenSlug)
    <3>1. Set(o, At(r, "again")) /\ UNCHANGED <<page, issued>>
      BY <2>1, <2>4 DEF InsertPage, ReadOnceMore
    <3>2. FitsPage(At(r, "again"), page, issued) /\ Truthful(At(r, "again"))
      BY <2>2, Moved DEF FitsPage, Truthful, Settling
    <3> QED BY <2>2, <3>1, <3>2, <1>fits, <1>same DEF PageIssued
  <2> QED BY <2>3, <2>4
<1>8. CASE \E o \in Owners, slug \in Generated : WritePage(o, slug)
  <2>1. PICK o \in Owners, slug \in Generated : WritePage(o, slug)
    BY <1>8
  <2> DEFINE r == request[o]
             t == At(r, "answer")
  <2>2. r \in Settling /\ FitsPage(r, page, issued) /\ r.pc = "write"
    BY <2>1, RequestByPc DEF WritePage, RequestsFit, TypeOK
  <2>3. page \in Page
    BY <2>2 DEF FitsPage, TypeOK
  <2>4. t.pc = "answer" /\ t.kind = r.kind /\ t.before = r.before
    BY <2>2, Moved
  <2>5. CASE r.kind \in {"publish", "unpublish"}
    <3>1. /\ Set(o, t)
          /\ page' = [page EXCEPT !.published = (r.kind = "publish")] /\ issued' = issued
      BY <2>1, <2>5 DEF WritePage
    <3>2. (r.kind = "publish") \in BOOLEAN
      OBVIOUS
    <3>3. page' \in Page /\ page'.slug = page.slug
      BY <2>3, <3>1, <3>2, PagePublished
    <3>4. page' # NoPage /\ PageIssued' /\ Evolves(page, issued, page', issued')
      BY <2>2, <3>1, <3>3 DEF PageIssued, Evolves, Page, NoPage, FitsPage
    <3>5. FitsPage(t, page', issued') /\ Truthful(t)
      BY <2>2, <2>4, <2>5, <3>1, <3>4 DEF FitsPage, Truthful
    <3> QED BY <3>1, <3>4, <3>5, <1>fits
  <2>6. CASE r.kind = "rotate" /\ slug # TakenSlug
    <3>1. /\ Set(o, t)
          /\ page' = [page EXCEPT !.slug = slug] /\ issued' = issued \cup {slug}
      BY <2>1, <2>6 DEF WritePage
    <3>2. slug \in Slugs \ issued /\ slug # "none"
      BY <2>6 DEF Generated
    <3>3. page' \in Page /\ page'.slug = slug
      BY <2>3, <3>1, <3>2, PageRotated
    <3>4. page' # NoPage /\ PageIssued' /\ Evolves(page, issued, page', issued')
      BY <3>1, <3>2, <3>3 DEF PageIssued, Evolves, Page, NoPage
    <3>5. FitsPage(t, page', issued') /\ Truthful(t)
      BY <2>2, <2>4, <3>1, <3>2, <3>3, <3>4 DEF FitsPage, Truthful
    <3> QED BY <3>1, <3>4, <3>5, <1>fits
  <2>7. CASE r.kind = "rotate" /\ slug = TakenSlug /\ r.attempts + 1 < SlugAttempts
    <3> DEFINE u == [r EXCEPT !.attempts = @ + 1]
    <3>1. Set(o, u) /\ UNCHANGED <<page, issued>>
      BY <2>1, <2>7 DEF WritePage
    <3>2. u.pc = "write" /\ u.before = r.before
      BY <2>2, <2>7, TriedAgain
    <3> HIDE DEF u
    <3>3. FitsPage(u, page, issued) /\ Truthful(u)
      BY <2>2, <3>2 DEF FitsPage, Truthful
    <3> QED BY <3>1, <3>3, <1>fits, <1>same DEF PageIssued
  <2>8. CASE r.kind = "rotate" /\ slug = TakenSlug /\ ~(r.attempts + 1 < SlugAttempts)
    <3> DEFINE u == [pc |-> "done", answer |-> "failed", attempts |-> r.attempts]
    <3>1. Set(o, u) /\ UNCHANGED <<page, issued>>
      BY <2>1, <2>8 DEF WritePage
    <3>2. FitsPage(u, page, issued) /\ Truthful(u)
      BY <2>2, <2>8 DEF FitsPage, Truthful, Settling
    <3> QED BY <3>1, <3>2, <1>fits, <1>same DEF PageIssued
  <2>9. r.kind \in {"publish", "unpublish"} \/ r.kind = "rotate"
    BY <2>1 DEF WritePage
  <2> QED BY <2>5, <2>6, <2>7, <2>8, <2>9
<1>9. CASE \E s \in SlotIds : DeleteMonitor(s)
  <2>1. PICK s \in SlotIds : DeleteMonitor(s)
    BY <1>9
  <2>2. ASSUME NEW o \in Owners
        PROVE  FitsPage(request'[o], page', issued') /\ Truthful(request'[o])
    <3>1. CASE request[o].pc = "create"
      <4>1. request'[o] = [request[o] EXCEPT !.freed = TRUE]
        BY <2>1, <3>1 DEF DeleteMonitor
      <4>2. request[o] \in Creating
        BY <3>1, RequestByPc DEF TypeOK
      <4>3. request'[o].pc = "create"
        BY <4>1, <4>2, Overtaken DEF Creating
      <4> QED BY <4>3 DEF FitsPage, Truthful
    <3>2. CASE request[o].pc # "create"
      BY <2>1, <3>2, <1>truth DEF DeleteMonitor, RequestsFit
    <3> QED BY <3>1, <3>2
  <2> QED BY <2>1, <2>2, <1>goal DEF DeleteMonitor, PageIssued
<1>10. CASE \E v \in Visitors, slug \in Slugs \ {TakenSlug} : BeginVisit(v, slug)
  BY <1>10, <1>rest DEF BeginVisit
<1>11. CASE \E v \in Visitors : LookUp(v)
  BY <1>11, <1>rest DEF LookUp
<1>12. CASE \E v \in Visitors : ServePage(v)
  BY <1>12, <1>rest DEF ServePage
<1>13. CASE UNCHANGED pvVars
  BY <1>13, <1>rest DEF pvVars
<1> QED
  BY NextActions, <1>1, <1>2, <1>3, <1>4, <1>5, <1>6, <1>7, <1>8, <1>9, <1>10, <1>11, <1>12, <1>13
     DEF Kind

-----------------------------------------------------------------------------
(* The walk over the slots.                                                *)

LEMMA WalkStep ==
  ASSUME TypeOK, WalkOccupied, [PvNext]_pvVars
  PROVE  WalkOccupied'
<1> USE ProvisioningAssumption
<1>rest. ASSUME NEW o \in Owners, NEW r, Set(o, r), UNCHANGED slots,
                r.pc = "create" => r.freed \/ \A s \in SlotIds : s < r.slot => slots[s]
         PROVE  WalkOccupied'
  BY <1>rest DEF TypeOK, Set, WalkOccupied
<1>still. ASSUME UNCHANGED <<request, slots>> PROVE WalkOccupied'
  BY <1>still DEF WalkOccupied
<1>1. CASE \E o \in Owners, isPublic \in BOOLEAN : BeginCreate(o, isPublic)
  BY <1>1, <1>rest DEF BeginCreate, SlotIds
<1>2. CASE \E o \in Owners, kind \in Kind : BeginSettings(o, kind)
  BY <1>2, <1>rest DEF BeginSettings
<1>3. CASE \E o \in Owners : TrySlot(o)
  <2>1. PICK o \in Owners : TrySlot(o)
    BY <1>3
  <2> DEFINE r == request[o]
  <2>2. r \in Creating
    BY <2>1, RequestByPc DEF TrySlot, TypeOK
  <2>3. r.freed \/ \A s \in SlotIds : s < r.slot => slots[s]
    BY <2>1 DEF TrySlot, WalkOccupied
  <2>4. CASE ~slots[r.slot]
    <3>1. /\ slots' = [slots EXCEPT ![r.slot] = TRUE]
          /\ Set(o, [pc |-> "done", answer |-> "created", slot |-> r.slot])
      BY <2>1, <2>4 DEF TrySlot
    <3>2. request'[o].pc = "done" /\ \A q \in Owners \ {o} : request'[q] = request[q]
      BY <3>1 DEF Set, TypeOK
    <3>3. \A s \in SlotIds : slots[s] => slots'[s]
      BY <3>1 DEF TypeOK
    <3> QED BY <3>2, <3>3 DEF WalkOccupied
  <2>5. CASE slots[r.slot] /\ r.slot + 1 < SlotsToTry
    <3> DEFINE t == [r EXCEPT !.slot = @ + 1]
    <3>1. Set(o, t) /\ UNCHANGED slots
      BY <2>1, <2>5 DEF TrySlot
    <3>2. t.slot = r.slot + 1 /\ t.freed = r.freed /\ t.pc = "create" /\ r.slot \in SlotIds
      BY <2>2 DEF Creating
    <3>3. \A s \in SlotIds : s < t.slot => s < r.slot \/ s = r.slot
      BY <3>2 DEF SlotIds
    <3> HIDE DEF t
    <3> QED BY <2>3, <2>5, <3>1, <3>2, <3>3, <1>rest
  <2>6. CASE slots[r.slot] /\ ~(r.slot + 1 < SlotsToTry)
    BY <2>1, <2>6, <1>rest DEF TrySlot
  <2> QED BY <2>4, <2>5, <2>6
<1>4. CASE \E o \in Owners : FindPage(o)
  <2>1. PICK o \in Owners : FindPage(o)
    BY <1>4
  <2>2. request[o] \in Settling
    BY <2>1, RequestByPc DEF FindPage, TypeOK
  <2>3. Found(request[o]).pc # "create" /\ At(request[o], "insert").pc # "create"
    BY <2>2, FoundIt, Moved
  <2> QED BY <2>1, <2>3, <1>rest DEF FindPage
<1>5. CASE \E o \in Owners : ReadAgain(o)
  <2>1. PICK o \in Owners : ReadAgain(o)
    BY <1>5
  <2> DEFINE q == At(request[o], "insert")
  <2>2. request[o] \in Settling
    BY <2>1, RequestByPc DEF ReadAgain, TypeOK
  <2>3. Found(request[o]).pc # "create"
    BY <2>2, FoundIt
  <2>4. q \in Settling /\ q.attempts = request[o].attempts /\ q.pc = "insert"
    BY <2>2, Moved
  <2>5. request[o].attempts + 1 < SlugAttempts => [q EXCEPT !.attempts = @ + 1].pc # "create"
    <3> HIDE DEF q
    <3> QED BY <2>4, TriedAgain
  <2> QED BY <2>1, <2>3, <2>5, <1>rest DEF ReadAgain
<1>6. CASE \E o \in Owners : AnswerSettings(o)
  BY <1>6, <1>rest DEF AnswerSettings
<1>7. CASE \E o \in Owners, slug \in Generated : InsertPage(o, slug)
  <2>1. PICK o \in Owners, slug \in Generated : InsertPage(o, slug)
    BY <1>7
  <2>2. request[o] \in Settling
    BY <2>1, RequestByPc DEF InsertPage, TypeOK
  <2>3. Found(request[o]).pc # "create" /\ At(request[o], "again").pc # "create"
    BY <2>2, FoundIt, Moved
  <2> QED BY <2>1, <2>3, <1>rest DEF InsertPage, ReadOnceMore
<1>8. CASE \E o \in Owners, slug \in Generated : WritePage(o, slug)
  <2>1. PICK o \in Owners, slug \in Generated : WritePage(o, slug)
    BY <1>8
  <2>2. request[o] \in Settling /\ request[o].pc = "write"
    BY <2>1, RequestByPc DEF WritePage, TypeOK
  <2>3. At(request[o], "answer").pc # "create"
    BY <2>2, Moved
  <2>4. request[o].attempts + 1 < SlugAttempts => [request[o] EXCEPT !.attempts = @ + 1].pc # "create"
    BY <2>2, TriedAgain
  <2> QED BY <2>1, <2>3, <2>4, <1>rest DEF WritePage
<1>9. CASE \E s \in SlotIds : DeleteMonitor(s)
  <2>1. PICK s \in SlotIds : DeleteMonitor(s)
    BY <1>9
  <2>2. ASSUME NEW o \in Owners, request'[o].pc = "create"
        PROVE  request'[o].freed
    <3>1. CASE request[o].pc = "create"
      <4>1. request[o] \in Creating
        BY <3>1, RequestByPc DEF TypeOK
      <4> QED BY <2>1, <3>1, <4>1, Overtaken DEF DeleteMonitor
    <3>2. CASE request[o].pc # "create"
      BY <2>1, <2>2, <3>2 DEF DeleteMonitor
    <3> QED BY <3>1, <3>2
  <2> QED BY <2>2 DEF WalkOccupied
<1>10. CASE \E v \in Visitors, slug \in Slugs \ {TakenSlug} : BeginVisit(v, slug)
  BY <1>10, <1>still DEF BeginVisit
<1>11. CASE \E v \in Visitors : LookUp(v)
  BY <1>11, <1>still DEF LookUp
<1>12. CASE \E v \in Visitors : ServePage(v)
  BY <1>12, <1>still DEF ServePage
<1>13. CASE UNCHANGED pvVars
  BY <1>13, <1>still DEF pvVars
<1> QED
  BY NextActions, <1>1, <1>2, <1>3, <1>4, <1>5, <1>6, <1>7, <1>8, <1>9, <1>10, <1>11, <1>12, <1>13
     DEF Kind

\* A creation that is told the account is full has just met its last slot occupied.
LEMMA FullStep ==
  ASSUME TypeOK, WalkOccupied, [PvNext]_pvVars
  PROVE  \A o \in Owners :
            LET r == request'[o]
            IN  r # request[o] /\ r.pc = "done" /\ r.answer = "full" => r.freed \/ Free = {}
<1> USE ProvisioningAssumption
<1> SUFFICES ASSUME NEW o \in Owners, request'[o] # request[o],
                    request'[o].pc = "done", request'[o].answer = "full"
             PROVE  request'[o].freed \/ Free = {}
  OBVIOUS
<1>set. ASSUME NEW q \in Owners, NEW r, Set(q, r), ~(r.pc = "done" /\ r.answer = "full")
        PROVE  FALSE
  BY <1>set DEF TypeOK, Set
<1>1. CASE \E q \in Owners, isPublic \in BOOLEAN : BeginCreate(q, isPublic)
  BY <1>1, <1>set DEF BeginCreate
<1>2. CASE \E q \in Owners, kind \in Kind : BeginSettings(q, kind)
  BY <1>2, <1>set DEF BeginSettings
<1>3. CASE \E q \in Owners : TrySlot(q)
  <2>1. PICK q \in Owners : TrySlot(q)
    BY <1>3
  <2> DEFINE r == request[q]
  <2>2. r \in Creating /\ r.slot \in SlotIds
    <3>1. r \in Creating
      BY <2>1, RequestByPc DEF TrySlot, TypeOK
    <3> QED BY <3>1 DEF Creating
  <2>3. r.freed \/ \A s \in SlotIds : s < r.slot => slots[s]
    BY <2>1 DEF TrySlot, WalkOccupied
  <2>4. [r EXCEPT !.slot = @ + 1].pc # "done"
    BY <2>2 DEF Creating
  <2>5. slots[r.slot] /\ ~(r.slot + 1 < SlotsToTry)
    BY <2>1, <2>4, <1>set DEF TrySlot
  <2>6. Set(q, [pc |-> "done", answer |-> "full", freed |-> r.freed])
    BY <2>1, <2>5 DEF TrySlot
  <2>7. request'[q].freed = r.freed /\ q = o
    BY <2>6 DEF Set, TypeOK
  <2>8. \A s \in SlotIds : s < r.slot \/ s = r.slot
    BY <2>2, <2>5 DEF SlotIds, SlotsToTry
  <2> QED BY <2>3, <2>5, <2>7, <2>8 DEF Free
<1>4. CASE \E q \in Owners : FindPage(q)
  <2>1. PICK q \in Owners : FindPage(q)
    BY <1>4
  <2>2. request[q] \in Settling
    BY <2>1, RequestByPc DEF FindPage, TypeOK
  <2>3. Found(request[q]).pc # "done" /\ At(request[q], "insert").pc # "done"
    BY <2>2, FoundIt, Moved
  <2> QED BY <2>1, <2>3, <1>set DEF FindPage
<1>5. CASE \E q \in Owners : ReadAgain(q)
  <2>1. PICK q \in Owners : ReadAgain(q)
    BY <1>5
  <2> DEFINE t == At(request[q], "insert")
  <2>2. request[q] \in Settling
    BY <2>1, RequestByPc DEF ReadAgain, TypeOK
  <2>3. Found(request[q]).pc # "done"
    BY <2>2, FoundIt
  <2>4. t \in Settling /\ t.attempts = request[q].attempts /\ t.pc = "insert"
    BY <2>2, Moved
  <2>5. request[q].attempts + 1 < SlugAttempts => [t EXCEPT !.attempts = @ + 1].pc # "done"
    <3> HIDE DEF t
    <3> QED BY <2>4, TriedAgain
  <2> QED BY <2>1, <2>3, <2>5, <1>set DEF ReadAgain
<1>6. CASE \E q \in Owners : AnswerSettings(q)
  BY <1>6, <1>set DEF AnswerSettings
<1>7. CASE \E q \in Owners, slug \in Generated : InsertPage(q, slug)
  <2>1. PICK q \in Owners, slug \in Generated : InsertPage(q, slug)
    BY <1>7
  <2>2. request[q] \in Settling
    BY <2>1, RequestByPc DEF InsertPage, TypeOK
  <2>3. Found(request[q]).pc # "done" /\ At(request[q], "again").pc # "done"
    BY <2>2, FoundIt, Moved
  <2> QED BY <2>1, <2>3, <1>set DEF InsertPage, ReadOnceMore
<1>8. CASE \E q \in Owners, slug \in Generated : WritePage(q, slug)
  <2>1. PICK q \in Owners, slug \in Generated : WritePage(q, slug)
    BY <1>8
  <2>2. request[q] \in Settling /\ request[q].pc = "write"
    BY <2>1, RequestByPc DEF WritePage, TypeOK
  <2>3. At(request[q], "answer").pc # "done"
    BY <2>2, Moved
  <2>4. request[q].attempts + 1 < SlugAttempts => [request[q] EXCEPT !.attempts = @ + 1].pc # "done"
    BY <2>2, TriedAgain
  <2> QED BY <2>1, <2>3, <2>4, <1>set DEF WritePage
<1>9. CASE \E s \in SlotIds : DeleteMonitor(s)
  <2>1. PICK s \in SlotIds : DeleteMonitor(s)
    BY <1>9
  <2>2. request[o].pc = "create" /\ request'[o] = [request[o] EXCEPT !.freed = TRUE]
    BY <2>1 DEF DeleteMonitor
  <2>3. request[o] \in Creating
    BY <2>2, RequestByPc DEF TypeOK
  <2> QED BY <2>2, <2>3, Overtaken
<1>10. CASE \E v \in Visitors, slug \in Slugs \ {TakenSlug} : BeginVisit(v, slug)
  BY <1>10 DEF BeginVisit
<1>11. CASE \E v \in Visitors : LookUp(v)
  BY <1>11 DEF LookUp
<1>12. CASE \E v \in Visitors : ServePage(v)
  BY <1>12 DEF ServePage
<1>13. CASE UNCHANGED pvVars
  BY <1>13 DEF pvVars
<1> QED
  BY NextActions, <1>1, <1>2, <1>3, <1>4, <1>5, <1>6, <1>7, <1>8, <1>9, <1>10, <1>11, <1>12, <1>13
     DEF Kind

-----------------------------------------------------------------------------
(* The visits of the public page.                                          *)

\* What VisitsLive and RevokedPageIsGone say of one visit.
Fresh(r, p) ==
  /\ r.pc = "lookup" /\ Shows(p, r.slug) => r.live
  /\ r.pc = "monitors" => r.live
  /\ r.pc = "done" /\ r.answer = "page" => r.live

LEMMA VisitStep ==
  ASSUME TypeOK, VisitsLive, RevokedPageIsGone, [PvNext]_pvVars
  PROVE  VisitsLive' /\ RevokedPageIsGone'
<1>fresh. \A v \in Visitors : Fresh(visit[v], page)
  BY Zenon DEF VisitsLive, RevokedPageIsGone, Fresh
<1>goal. ASSUME \A v \in Visitors : Fresh(visit'[v], page')
         PROVE  VisitsLive' /\ RevokedPageIsGone'
  BY Zenon, <1>goal DEF VisitsLive, RevokedPageIsGone, Fresh
<1>still. ASSUME UNCHANGED <<visit, page>>
          PROVE  VisitsLive' /\ RevokedPageIsGone'
  BY <1>still, <1>fresh, <1>goal
<1>one. ASSUME NEW v \in Visitors, NEW r, visit' = [visit EXCEPT ![v] = r], UNCHANGED page, Fresh(r, page)
        PROVE  VisitsLive' /\ RevokedPageIsGone'
  <2>1. \A w \in Visitors : visit'[w] = IF w = v THEN r ELSE visit[w]
    BY <1>one DEF TypeOK
  <2> QED BY <2>1, <1>one, <1>fresh, <1>goal
<1>1. CASE \E o \in Owners, isPublic \in BOOLEAN : BeginCreate(o, isPublic)
  BY <1>1, <1>still DEF BeginCreate
<1>2. CASE \E o \in Owners, kind \in Kind : BeginSettings(o, kind)
  BY <1>2, <1>still DEF BeginSettings
<1>3. CASE \E o \in Owners : TrySlot(o)
  BY <1>3, <1>still DEF TrySlot
<1>4. CASE \E o \in Owners : FindPage(o)
  BY <1>4, <1>still DEF FindPage
<1>5. CASE \E o \in Owners : ReadAgain(o)
  BY <1>5, <1>still DEF ReadAgain
<1>6. CASE \E o \in Owners : AnswerSettings(o)
  BY <1>6, <1>still DEF AnswerSettings
<1>7. CASE \E o \in Owners, slug \in Generated : InsertPage(o, slug)
  <2>1. page' = page \/ ~page'.published
    BY <1>7 DEF InsertPage
  <2>2. visit' = visit
    BY <1>7 DEF InsertPage
  <2>3. \A v \in Visitors : Fresh(visit'[v], page')
    BY <2>1, <2>2, <1>fresh DEF Fresh, Shows
  <2> QED BY <2>3, <1>goal
<1>8. CASE \E o \in Owners, slug \in Generated : WritePage(o, slug)
  <2>1. visit' = [v \in Visitors |->
           IF visit[v].pc = "lookup"
           THEN [visit[v] EXCEPT !.live = @ \/ Shows(page', visit[v].slug)] ELSE visit[v]]
    BY <1>8 DEF WritePage
  <2>2. ASSUME NEW v \in Visitors PROVE Fresh(visit'[v], page')
    <3> DEFINE r == visit[v]
               live == r.live \/ Shows(page', r.slug)
    <3>1. CASE r.pc = "lookup"
      <4>1. r \in Looking
        BY <3>1, VisitByPc DEF TypeOK
      <4>2. visit'[v] = [r EXCEPT !.live = live]
        BY <2>1, <3>1
      <4>3. live \in BOOLEAN
        OBVIOUS
      <4>4. Shows(page', r.slug) => live
        OBVIOUS
      <4> HIDE DEF live
      <4>5. [r EXCEPT !.live = live].live = live /\ [r EXCEPT !.live = live].slug = r.slug
        BY <4>1, <4>3, Refreshed
      <4>6. [r EXCEPT !.live = live].pc = "lookup"
        BY <4>1 DEF Looking
      <4> QED BY <4>2, <4>4, <4>5, <4>6 DEF Fresh
    <3>2. CASE r.pc # "lookup"
      BY <2>1, <3>2, <1>fresh DEF Fresh
    <3> QED BY <3>1, <3>2
  <2> QED BY <2>2, <1>goal
<1>9. CASE \E s \in SlotIds : DeleteMonitor(s)
  BY <1>9, <1>still DEF DeleteMonitor
<1>10. CASE \E v \in Visitors, slug \in Slugs \ {TakenSlug} : BeginVisit(v, slug)
  <2>1. PICK v \in Visitors, slug \in Slugs \ {TakenSlug} : BeginVisit(v, slug)
    BY <1>10
  <2>2. Fresh([pc |-> "lookup", slug |-> slug, live |-> Shows(page, slug)], page)
    BY DEF Fresh
  <2> QED BY <2>1, <2>2, <1>one DEF BeginVisit
<1>11. CASE \E v \in Visitors : LookUp(v)
  <2>1. PICK v \in Visitors : LookUp(v)
    BY <1>11
  <2>2. visit[v] \in Looking /\ Fresh(visit[v], page) /\ visit[v].pc = "lookup"
    BY <2>1, <1>fresh, VisitByPc DEF LookUp, TypeOK
  <2>3. CASE Finds(page, visit[v].slug)
    <3>1. visit' = [visit EXCEPT ![v] = [visit[v] EXCEPT !.pc = "monitors"]] /\ UNCHANGED page
      BY <2>1, <2>3 DEF LookUp
    <3>2. /\ [visit[v] EXCEPT !.pc = "monitors"].pc = "monitors"
          /\ [visit[v] EXCEPT !.pc = "monitors"].live = visit[v].live
      BY <2>2 DEF Looking
    <3>3. visit[v].live
      BY <2>2, <2>3 DEF Fresh, Finds
    <3>4. Fresh([visit[v] EXCEPT !.pc = "monitors"], page)
      BY <3>2, <3>3 DEF Fresh
    <3> QED BY <3>1, <3>4, <1>one
  <2>4. CASE ~Finds(page, visit[v].slug)
    <3>1. /\ visit' = [visit EXCEPT ![v] = [pc |-> "done", answer |-> "not_found"]]
          /\ UNCHANGED page
      BY <2>1, <2>4 DEF LookUp
    <3>2. Fresh([pc |-> "done", answer |-> "not_found"], page)
      BY DEF Fresh
    <3> QED BY <3>1, <3>2, <1>one
  <2> QED BY <2>3, <2>4
<1>12. CASE \E v \in Visitors : ServePage(v)
  <2>1. PICK v \in Visitors : ServePage(v)
    BY <1>12
  <2> DEFINE t == [pc |-> "done", answer |-> "page", slug |-> visit[v].slug, live |-> visit[v].live,
                   monitors |-> { s \in SlotIds : public[s] }]
  <2>2. visit[v].live
    BY <2>1, <1>fresh DEF ServePage, Fresh
  <2>3. Fresh(t, page)
    BY <2>2 DEF Fresh
  <2>4. visit' = [visit EXCEPT ![v] = t] /\ UNCHANGED page
    BY <2>1 DEF ServePage
  <2> QED BY <2>3, <2>4, <1>one
<1>13. CASE UNCHANGED pvVars
  BY <1>13, <1>still DEF pvVars
<1> QED
  BY NextActions, <1>1, <1>2, <1>3, <1>4, <1>5, <1>6, <1>7, <1>8, <1>9, <1>10, <1>11, <1>12, <1>13
     DEF Kind

-----------------------------------------------------------------------------
(* The theorems.                                                           *)

LEMMA ProvisioningInit == PvInit => ProvisioningInvariant
<1> SUFFICES ASSUME PvInit PROVE ProvisioningInvariant
  OBVIOUS
<1>1. TypeOK
  BY ProvisioningAssumption DEF PvInit, TypeOK, RequestState, VisitState
<1>2. PageIssued
  BY DEF PvInit, PageIssued
<1>3. /\ \A o \in Owners : request[o].pc = "none"
      /\ \A v \in Visitors : visit[v].pc = "none"
  BY DEF PvInit, Resting
<1>4. RequestsFit
  BY <1>3 DEF RequestsFit, FitsPage
<1>5. SettingsShowTheOnePage /\ WalkOccupied /\ VisitsLive /\ RevokedPageIsGone
  BY <1>3 DEF SettingsShowTheOnePage, WalkOccupied, VisitsLive, RevokedPageIsGone
<1> QED BY <1>1, <1>2, <1>4, <1>5 DEF ProvisioningInvariant, PageInvariant

\* The types, the page with the slugs it has had, the walks over the slots and
\* the visits stay as the inductive invariant says in every state.
THEOREM ProvisioningInvariantHolds == PvSpec => []ProvisioningInvariant
<1>1. ProvisioningInvariant /\ [PvNext]_pvVars => ProvisioningInvariant'
  BY Zenon, PageStep, WalkStep, VisitStep DEF ProvisioningInvariant, PageInvariant
<1> QED BY ProvisioningInit, <1>1, PTL DEF PvSpec

\* An answer of the settings shows the one page of the account, after a rotation
\* under a new link, and a request only fails at its last attempt.
THEOREM SettingsAnswered == PvSpec => []SettingsShowTheOnePage
<1>1. ProvisioningInvariant => SettingsShowTheOnePage
  BY DEF ProvisioningInvariant, PageInvariant
<1> QED BY ProvisioningInvariantHolds, <1>1, PTL

\* A visit is only served the page if the page was published under its link
\* while the visit ran.
THEOREM RevokedPageStaysGone == PvSpec => []RevokedPageIsGone
<1>1. ProvisioningInvariant => RevokedPageIsGone
  BY DEF ProvisioningInvariant
<1> QED BY ProvisioningInvariantHolds, <1>1, PTL

\* A creation is only told that the account is full when no slot is free, unless
\* a monitor was deleted while it walked the slots.
THEOREM CreationRefusedWhenFull == PvSpec => RefusedOnlyWhenFull
<1>1. ProvisioningInvariant /\ [PvNext]_pvVars =>
        [\A o \in Owners :
            LET r == request'[o]
            IN  r # request[o] /\ r.pc = "done" /\ r.answer = "full" => r.freed \/ Free = {}]_pvVars
  BY FullStep DEF ProvisioningInvariant, PageInvariant
<1> QED BY ProvisioningInvariantHolds, <1>1, PTL DEF PvSpec, RefusedOnlyWhenFull
=============================================================================
