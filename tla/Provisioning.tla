---------------------------- MODULE Provisioning ----------------------------
(***************************************************************************)
(* The monitor slots and the status page of one account, under requests of *)
(* its owner and visitors of the public page that overlap statement by     *)
(* statement: domain/monitors.ts (create, delete), domain/statusPage.ts    *)
(* and http/routes/statusPage.ts.                                          *)
(*                                                                         *)
(* The unique indexes (userId, slot), (userId) and (slug) are the guards   *)
(* of the inserts and updates; a statement that violates one fails and     *)
(* leaves the rows as they are.                                            *)
(***************************************************************************)
EXTENDS Naturals, Sequences, FiniteSets

CONSTANTS
    Owners,        \* requests of the account's owner that may overlap
    Visitors,      \* readers of the public page
    Slugs,         \* values generateSlug may return
    TakenSlug,     \* the slug of another account's page
    SlotCount,     \* MAX_MONITORS_PER_USER
    SlugAttempts,  \* attempts of getOrCreateStatusPage and rotateStatusPageSlug (5)
    MaxRequests    \* bound on the requests of the owner

ASSUME ProvisioningAssumption ==
    /\ SlotCount \in Nat \ {0} /\ SlugAttempts \in Nat \ {0} /\ MaxRequests \in Nat
    /\ TakenSlug \in Slugs
    /\ "none" \notin Slugs               \* a slug is 32 hexadecimal digits

NoPage == [slug |-> "none", published |-> FALSE]

VARIABLES
    slots,    \* slot -> TRUE when a monitor is in it
    public,   \* slot -> isPublic of that monitor
    page,     \* the account's status page, or NoPage
    request,  \* per owner, the request that is running
    visit,    \* per visitor, the read that is running
    issued,   \* slugs the page has had: 16 random bytes do not come twice
    served    \* requests begun so far

pvVars == <<slots, public, page, request, visit, issued, served>>

SlotIds == 0..(SlotCount - 1)
Resting == [pc |-> "none"]
Shows(p, slug) == p.slug = slug /\ p.published
ShowsAnyway(p, slug) == p.slug = slug     \* mutant: an unpublished page is found
Finds(p, slug) == Shows(p, slug)
Free    == { s \in SlotIds : ~slots[s] }

PvInit ==
    /\ slots \in [SlotIds -> BOOLEAN]     \* created before
    /\ public = [s \in SlotIds |-> FALSE]
    /\ page = NoPage
    /\ request = [o \in Owners |-> Resting] /\ visit = [v \in Visitors |-> Resting]
    /\ issued = {} /\ served = 0

\* generateSlug, which may still meet the page of another account.
Generated == (Slugs \ issued) \union {TakenSlug}

Set(o, fields) == request' = [request EXCEPT ![o] = fields]

-----------------------------------------------------------------------------
(* createMonitor and deleteMonitor.                                         *)

\* The guard approves the URL and the account exists; else the request ends here.
\* freed remembers whether a delete ran meanwhile: it is not in the code.
BeginCreate(o, isPublic) ==
    /\ request[o].pc \in {"none", "done"} /\ served < MaxRequests
    /\ served' = served + 1
    /\ Set(o, [pc |-> "create", slot |-> 0, isPublic |-> isPublic, freed |-> FALSE])
    /\ UNCHANGED <<slots, public, page, visit, issued>>

\* mutant: the loop ends one slot early.
SlotsTried == SlotCount - 1
SlotsToTry == SlotCount

\* One insert: it takes the slot, or the unique index refuses it and the next
\* slot is tried; past the last one the answer is monitor_limit_reached.
TrySlot(o) ==
    LET r == request[o] IN
    /\ r.pc = "create"
    /\ IF ~slots[r.slot]
       THEN /\ slots' = [slots EXCEPT ![r.slot] = TRUE]
            /\ public' = [public EXCEPT ![r.slot] = r.isPublic]
            /\ Set(o, [pc |-> "done", answer |-> "created", slot |-> r.slot])
       ELSE /\ Set(o, IF r.slot + 1 < SlotsToTry THEN [r EXCEPT !.slot = @ + 1]
                      ELSE [pc |-> "done", answer |-> "full", freed |-> r.freed])
            /\ UNCHANGED <<slots, public>>
    /\ UNCHANGED <<page, visit, issued, served>>

DeleteMonitor(s) ==
    /\ slots[s]
    /\ slots' = [slots EXCEPT ![s] = FALSE] /\ public' = [public EXCEPT ![s] = FALSE]
    /\ request' = [o \in Owners |->
           IF request[o].pc = "create" THEN [request[o] EXCEPT !.freed = TRUE] ELSE request[o]]
    /\ UNCHANGED <<page, visit, issued, served>>

-----------------------------------------------------------------------------
(* The settings of the status page.                                         *)

\* before is the slug when the request came in: it is not in the code.
BeginSettings(o, kind) ==
    /\ request[o].pc \in {"none", "done"} /\ served < MaxRequests
    /\ served' = served + 1
    /\ Set(o, [pc |-> "find", kind |-> kind, attempts |-> 0, before |-> page.slug])
    /\ UNCHANGED <<slots, public, page, visit, issued>>

\* After getOrCreateStatusPage: the handler's own write, or the answer.
At(r, pc) == [r EXCEPT !.pc = pc]
Found(r) == [At(r, IF r.kind = "get" THEN "answer" ELSE "write") EXCEPT !.attempts = 0]

\* mutant: the page is created at once, without another read when that fails.
GiveUp(r) == [pc |-> "done", answer |-> "failed", attempts |-> r.attempts]
ReadOnceMore(r) == At(r, "again")

\* getOrCreateStatusPage: the read that usually finds the page.
FindPage(o) ==
    LET r == request[o] IN
    /\ r.pc = "find"
    /\ Set(o, IF page # NoPage THEN Found(r) ELSE At(r, "insert"))
    /\ UNCHANGED <<slots, public, page, visit, issued, served>>

\* The insert; a violation of either unique index is followed by another read.
InsertPage(o, slug) ==
    LET r == request[o] IN
    /\ r.pc = "insert"
    /\ IF page = NoPage /\ slug # TakenSlug
       THEN /\ page' = [slug |-> slug, published |-> FALSE]
            /\ issued' = issued \union {slug}
            /\ Set(o, Found(r))
       ELSE Set(o, ReadOnceMore(r)) /\ UNCHANGED <<page, issued>>
    /\ UNCHANGED <<slots, public, visit, served>>

ReadAgain(o) ==
    LET r == request[o] IN
    /\ r.pc = "again"
    /\ Set(o, IF page # NoPage THEN Found(r)
              ELSE IF r.attempts + 1 < SlugAttempts
                   THEN [At(r, "insert") EXCEPT !.attempts = @ + 1]
                   ELSE [pc |-> "done", answer |-> "failed", attempts |-> r.attempts])
    /\ UNCHANGED <<slots, public, page, visit, issued, served>>

\* updateStatusPage, and one attempt of rotateStatusPageSlug.
WritePage(o, slug) ==
    LET r == request[o] IN
    /\ r.pc = "write"
    /\ \/ /\ r.kind \in {"publish", "unpublish"}
          /\ page' = [page EXCEPT !.published = (r.kind = "publish")]
          /\ Set(o, At(r, "answer"))
          /\ UNCHANGED issued
       \/ /\ r.kind = "rotate" /\ slug # TakenSlug
          /\ page' = [page EXCEPT !.slug = slug]
          /\ issued' = issued \union {slug}
          /\ Set(o, At(r, "answer"))
       \/ /\ r.kind = "rotate" /\ slug = TakenSlug
          /\ Set(o, IF r.attempts + 1 < SlugAttempts THEN [r EXCEPT !.attempts = @ + 1]
                    ELSE [pc |-> "done", answer |-> "failed", attempts |-> r.attempts])
          /\ UNCHANGED <<page, issued>>
    /\ visit' = [v \in Visitors |->
           IF visit[v].pc = "lookup"
           THEN [visit[v] EXCEPT !.live = @ \/ Shows(page', visit[v].slug)] ELSE visit[v]]
    /\ UNCHANGED <<slots, public, served>>

\* settingsPayload reads the page once more and the public monitors.
AnswerSettings(o) ==
    LET r == request[o] IN
    /\ r.pc = "answer"
    /\ Set(o, [pc |-> "done", answer |-> "settings", kind |-> r.kind, before |-> r.before,
               page |-> page, monitors |-> { s \in SlotIds : public[s] }])
    /\ UNCHANGED <<slots, public, page, visit, issued, served>>

-----------------------------------------------------------------------------
(* The public page.                                                         *)

\* live remembers whether the page was published under the slug at some moment
\* since the visit began: it is not in the code.
BeginVisit(v, slug) ==
    /\ visit[v].pc \in {"none", "done"}
    /\ visit' = [visit EXCEPT ![v] = [pc |-> "lookup", slug |-> slug, live |-> Shows(page, slug)]]
    /\ UNCHANGED <<slots, public, page, request, issued, served>>

\* findPublishedStatusPage.
LookUp(v) ==
    /\ visit[v].pc = "lookup"
    /\ visit' = [visit EXCEPT ![v] =
           IF Finds(page, visit[v].slug)
           THEN [@ EXCEPT !.pc = "monitors"]
           ELSE [pc |-> "done", answer |-> "not_found"]]
    /\ UNCHANGED <<slots, public, page, request, issued, served>>

\* The monitors marked public now, and their figures.
ServePage(v) ==
    /\ visit[v].pc = "monitors"
    /\ visit' = [visit EXCEPT ![v] =
           [pc |-> "done", answer |-> "page", slug |-> visit[v].slug, live |-> visit[v].live,
            monitors |-> { s \in SlotIds : public[s] }]]
    /\ UNCHANGED <<slots, public, page, request, issued, served>>

PvNext ==
    \/ \E o \in Owners :
          \/ \E isPublic \in BOOLEAN : BeginCreate(o, isPublic)
          \/ \E kind \in {"get", "publish", "unpublish", "rotate"} : BeginSettings(o, kind)
          \/ TrySlot(o) \/ FindPage(o) \/ ReadAgain(o) \/ AnswerSettings(o)
          \/ \E slug \in Generated : InsertPage(o, slug) \/ WritePage(o, slug)
    \/ \E s \in SlotIds : DeleteMonitor(s)
    \/ \E v \in Visitors : \/ \E slug \in Slugs \ {TakenSlug} : BeginVisit(v, slug)
                           \/ LookUp(v) \/ ServePage(v)

PvSpec == PvInit /\ [][PvNext]_pvVars

-----------------------------------------------------------------------------
(* Properties.                                                              *)

\* monitors.ts:20-26 and 51-74: racing creations fill the account before any of
\* them is refused.  A creation is only answered "full" when no slot was free,
\* unless a monitor was deleted while it walked the slots.
RefusedOnlyWhenFull ==
    [][\A o \in Owners :
          LET r == request'[o]
          IN  r # request[o] /\ r.pc = "done" /\ r.answer = "full" => r.freed \/ Free = {}]_pvVars

\* statusPage.ts:17-38 and routes/statusPage.ts:68-77: however first openings and
\* rotations race, an answer of the settings shows the one page of the account;
\* after a rotation it is not the link that was there when the rotation began;
\* and a request only fails when its last attempt met another account's slug.
SettingsShowTheOnePage ==
    \A o \in Owners :
        LET r == request[o] IN
        r.pc = "done" =>
            /\ r.answer = "settings" => r.page.slug \in Slugs \ {TakenSlug}
            /\ r.answer = "settings" /\ r.kind = "rotate" => r.page.slug # r.before
            /\ r.answer = "failed" => r.attempts + 1 = SlugAttempts

\* routes/statusPage.ts:139-146, statusPage.ts:52-55 and 77-79: unpublishing or
\* rotating takes effect at once.  A page is only served to a visit during which
\* it was published under that very link.
RevokedPageIsGone ==
    \A v \in Visitors :
        visit[v].pc = "done" /\ visit[v].answer = "page" => visit[v].live
=============================================================================
