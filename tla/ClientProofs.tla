----------------------------- MODULE ClientProofs -----------------------------
(***************************************************************************)
(* Proofs about WebSession and Polling, for any tabs, targets, reads and   *)
(* writes.                                                                 *)
(***************************************************************************)
EXTENDS WebSession, Polling, TLAPS

-----------------------------------------------------------------------------
(* WebSession: types.                                                       *)

WriteOp == {"login", "logout", "verify"}
Op      == WriteOp \cup {"meta", "me"}
Why     == {"get", "read", "replaced", "bootstrap failed"}
Code    == {"ok", "csrf_failed", "unauthorized", "failed", "refused"}
Jar     == [csrf : Nat, session : Nat]
Answer  == [code : Code, user : Nat, csrf : Nat \cup {Keep}, session : Nat \cup {Keep}]

WaitingCall  == [stage : {"token", "bootstrap"}, op : WriteOp]
DueCall      == [stage : {"due"}, op : {"me"}]
ReadyCall    == [stage : {"ready"}, op : WriteOp, header : Nat, why : Why]
SentCall     == [stage : {"sent"}, op : Op, header : Nat, cookies : Jar, why : Why,
                 wasLive : BOOLEAN, answer : {NoAnswer}]
AnsweredCall == [stage : {"answered"}, op : Op, header : Nat, cookies : Jar, why : Why,
                 wasLive : BOOLEAN, answer : Answer]
Call == {NoCall} \cup WaitingCall \cup DueCall \cup ReadyCall \cup SentCall \cup AnsweredCall

TabState == [status : {"closed", "loading", "anonymous", "authenticated"}, user : Nat]

WsTypeOK ==
  /\ jar \in Jar
  /\ live \subseteq Nat
  /\ issued \in Jar
  /\ tab \in [Tabs -> TabState]
  /\ calls \in [Tabs -> [Kinds -> Call]]

\* A call c against the cookies j, the live sessions l and the tokens made, i.
\*   ready     a header read from the cookie is the cookie of now;
\*   sent      what the call rests on; a session that was not live when the call
\*             left never will be;
\*   answered  the refusal is explained, "signed in" names the session that was
\*             sent, and a sign-out ended the session it was sent with.
CallFits(c, j, l, i) ==
  /\ c.stage = "ready" /\ c.why = "read" => c.header = j.csrf /\ c.header # 0
  /\ c.stage = "ready" => c.why # "get"
  /\ c.stage \in {"sent", "answered"} =>
       /\ c.cookies.session <= i.session
       /\ ~c.wasLive => c.cookies.session \notin l
  /\ c.stage = "sent" =>
       /\ c.why = "get" => c.op \in {"meta", "me"}
       /\ c.why = "read" => c.header = c.cookies.csrf /\ c.header # 0
  /\ c.stage = "answered" =>
       /\ c.answer.code = "csrf_failed" => c.why \in {"replaced", "bootstrap failed"}
       /\ c.op = "me" /\ c.answer.code = "ok" =>
            c.wasLive /\ c.answer.user = c.cookies.session
       /\ c.op = "logout" /\ c.answer.code = "ok" =>
            c.answer.session = 0 /\ c.cookies.session \notin l
       /\ c.answer.session <= i.session

\* Sessions are numbered as they are made.
SessionsIssued == jar.session <= issued.session /\ \A s \in live : s <= issued.session

CallsFit == \A t \in Tabs, k \in Kinds : CallFits(calls[t][k], jar, live, issued)

SessionInvariant == WsTypeOK /\ SessionsIssued /\ CallsFit

LEMMA SessionActions ==
  ASSUME [WsNext]_wsVars
  PROVE  \/ \E t \in Tabs : Open(t)
         \/ \E t \in Tabs : ReadToken(t)
         \/ \E t \in Tabs : Bootstrap(t)
         \/ \E t \in Tabs : SendWrite(t)
         \/ \E t \in Tabs : Refresh(t)
         \/ \E t \in Tabs, op \in WriteOp : Write(t, op)
         \/ \E t \in Tabs, k \in Kinds : Serve(t, k)
         \/ \E t \in Tabs, k \in Kinds : Receive(t, k)
         \/ \E t \in Tabs, k \in Kinds : Fail(t, k)
         \/ \E s \in live : EndSession(s)
         \/ UNCHANGED wsVars
  BY Zenon DEF WsNext, WriteOp

LEMMA CallByStage ==
  ASSUME NEW c \in Call
  PROVE  /\ c.stage \in {"token", "bootstrap"} => c \in WaitingCall
         /\ c.stage = "ready" => c \in ReadyCall
         /\ c.stage = "sent" => c \in SentCall
         /\ c.stage = "answered" => c \in AnsweredCall
  BY DEF Call, NoCall, WaitingCall, DueCall, ReadyCall, SentCall, AnsweredCall

\* A call that leaves now.
LEMMA SentNow ==
  ASSUME SessionInvariant, NEW op \in Op, NEW header \in Nat, NEW why \in Why,
         why = "get" => op \in {"meta", "me"},
         why = "read" => header = jar.csrf /\ header # 0
  PROVE  Sent(op, header, why) \in SentCall /\ CallFits(Sent(op, header, why), jar, live, issued)
<1>1. (jar.session \in live) \in BOOLEAN
  OBVIOUS
<1>2. Sent(op, header, why) \in SentCall
  BY <1>1 DEF Sent, SentCall, SessionInvariant, WsTypeOK
<1>3. CallFits(Sent(op, header, why), jar, live, issued)
  BY DEF Sent, CallFits, SessionInvariant, SessionsIssued
<1> QED BY <1>2, <1>3

\* A read header that another token outdates.
Outdated(c) == IF c.stage = "ready" THEN [c EXCEPT !.why = "replaced"] ELSE c

LEMMA OutdatedFits ==
  ASSUME NEW c \in Call, NEW j \in Jar, NEW l, NEW i \in Jar, NEW j2 \in Jar, CallFits(c, j, l, i)
  PROVE  Outdated(c) \in Call /\ CallFits(Outdated(c), j2, l, i)
<1>1. CASE c.stage = "ready"
  <2>1. c \in ReadyCall
    BY <1>1, CallByStage
  <2>2. /\ [c EXCEPT !.why = "replaced"] \in ReadyCall
        /\ [c EXCEPT !.why = "replaced"].stage = "ready"
        /\ [c EXCEPT !.why = "replaced"].why = "replaced"
    BY <2>1 DEF ReadyCall, Why
  <2> QED BY <1>1, <2>2 DEF Outdated, CallFits, Call
<1>2. CASE c.stage # "ready"
  BY <1>2 DEF Outdated, CallFits
<1> QED BY <1>1, <1>2

\* Sessions end, and new ones get new numbers.
LEMMA StillFitsSessions ==
  ASSUME NEW c \in Call, NEW j \in Jar, NEW j2 \in Jar, NEW l, NEW i \in Jar, NEW l2, NEW i2 \in Jar,
         CallFits(c, j, l, i), j2.csrf = j.csrf,
         i.session <= i2.session, \A s \in l2 : s \in l \/ s > i.session
  PROVE  CallFits(c, j2, l2, i2)
<1>1. CASE c.stage = "sent"
  <2>1. c \in SentCall
    BY <1>1, CallByStage
  <2> QED BY <1>1, <2>1 DEF CallFits, SentCall, Jar
<1>2. CASE c.stage = "answered"
  <2>1. c \in AnsweredCall
    BY <1>2, CallByStage
  <2>2. c.cookies.session \in Nat /\ c.answer.session \in Int
    BY <2>1 DEF AnsweredCall, Jar, Answer, Keep
  <2>3. i.session \in Nat /\ i2.session \in Nat
    BY DEF Jar
  <2>4. c.cookies.session <= i.session /\ c.answer.session <= i.session
    BY <1>2 DEF CallFits
  <2>5. c.cookies.session <= i2.session /\ c.answer.session <= i2.session
    BY <2>2, <2>3, <2>4
  <2>6. c.cookies.session \notin l => c.cookies.session \notin l2
    BY <2>2, <2>3, <2>4
  <2> HIDE DEF Call, Jar
  <2> QED BY <1>2, <2>5, <2>6 DEF CallFits
<1>3. CASE c.stage \notin {"sent", "answered"}
  BY <1>3 DEF CallFits
<1> QED BY <1>1, <1>2, <1>3

LEMMA OutdateEach ==
  ASSUME NEW all \in [Tabs -> [Kinds -> Call]], NEW t \in Tabs, NEW k \in Kinds
  PROVE  Outdate(all)[t][k] = Outdated(all[t][k])
  BY DEF Outdate, Outdated

\* The call once it is served.
LEMMA ReplyFields ==
  ASSUME NEW c \in SentCall, NEW answer \in Answer
  PROVE  /\ Reply(c, answer) \in AnsweredCall
         /\ Reply(c, answer).stage = "answered" /\ Reply(c, answer).answer = answer
         /\ Reply(c, answer).op = c.op /\ Reply(c, answer).why = c.why
         /\ Reply(c, answer).cookies = c.cookies /\ Reply(c, answer).wasLive = c.wasLive
<1> DEFINE q == [c EXCEPT !.stage = "answered"]
<1>1. /\ q = [stage |-> "answered", op |-> c.op, header |-> c.header, cookies |-> c.cookies,
              why |-> c.why, wasLive |-> c.wasLive, answer |-> c.answer]
  BY DEF SentCall
<1>2. [q EXCEPT !.answer = answer] =
        [stage |-> "answered", op |-> c.op, header |-> c.header, cookies |-> c.cookies,
         why |-> c.why, wasLive |-> c.wasLive, answer |-> answer]
  <2> HIDE DEF q
  <2> QED BY <1>1
<1>3. Reply(c, answer) = [q EXCEPT !.answer = answer]
  BY DEF Reply
<1> QED BY <1>2, <1>3 DEF SentCall, AnsweredCall

\* What a call may be answered.
LEMMA OutcomeExplained ==
  ASSUME NEW c \in SentCall, CallFits(c, jar, live, issued), NEW code \in Outcomes(c)
  PROVE  /\ code \in Code
         /\ code = "csrf_failed" => c.why \in {"replaced", "bootstrap failed"}
         /\ code = "ok" /\ c.op = "me" => c.wasLive /\ resolveSession(c.cookies.session) = c.cookies.session
<1>1. c.stage = "sent" /\ c.op \in Op /\ c.why \in Why
  BY DEF SentCall
<1>2. code = "csrf_failed" => ~csrfProtection(c)
  BY <1>1 DEF Outcomes, Op, WriteOp
<1>3. ~csrfProtection(c) => c.why \in {"replaced", "bootstrap failed"}
  BY <1>1 DEF csrfProtection, CallFits, Why
<1>4. ASSUME code = "ok", c.op = "me"
      PROVE  c.wasLive /\ resolveSession(c.cookies.session) = c.cookies.session
  <2>1. resolveSession(c.cookies.session) # 0
    BY <1>4 DEF Outcomes, csrfProtection
  <2> QED BY <1>1, <2>1 DEF resolveSession, CallFits
<1>5. code \in Code
  BY <1>1 DEF Outcomes, Op, WriteOp, Code
<1> QED BY <1>2, <1>3, <1>4, <1>5

LEMMA SessionStep ==
  ASSUME SessionInvariant, [WsNext]_wsVars
  PROVE  SessionInvariant'
<1> USE DEF SessionInvariant
<1>goal. ASSUME WsTypeOK', SessionsIssued',
                \A t \in Tabs, k \in Kinds : CallFits(calls'[t][k], jar', live', issued')
         PROVE  SessionInvariant'
  BY <1>goal DEF CallsFit
\* One call becomes c; the sessions only grow, and no token was replaced.
<1>put. ASSUME NEW t \in Tabs, NEW k \in Kinds, NEW c \in Call, Put(t, k, c),
               tab' \in [Tabs -> TabState], jar' \in Jar, jar'.csrf = jar.csrf,
               issued' \in Jar, live' \subseteq Nat, SessionsIssued', issued.session <= issued'.session,
               \A s \in live' : s \in live \/ s > issued.session,
               CallFits(c, jar', live', issued')
        PROVE  SessionInvariant'
  <2>1. \A u \in Tabs, j \in Kinds : calls'[u][j] = IF u = t /\ j = k THEN c ELSE calls[u][j]
    BY <1>put DEF Put, WsTypeOK
  <2>2. calls' \in [Tabs -> [Kinds -> Call]]
    BY <1>put DEF Put, WsTypeOK
  <2>3. WsTypeOK'
    BY <1>put, <2>2 DEF WsTypeOK
  <2>4. ASSUME NEW u \in Tabs, NEW j \in Kinds
        PROVE  CallFits(calls'[u][j], jar', live', issued')
    <3>1. CASE u = t /\ j = k
      BY <2>1, <3>1, <1>put
    <3>2. CASE ~(u = t /\ j = k)
      <4>1. calls'[u][j] = calls[u][j] /\ calls[u][j] \in Call
        BY <2>1, <3>2 DEF WsTypeOK
      <4>2. CallFits(calls[u][j], jar, live, issued) /\ jar \in Jar /\ issued \in Jar
        BY DEF CallsFit, WsTypeOK
      <4> QED BY <4>1, <4>2, <1>put, StillFitsSessions
    <3> QED BY <3>1, <3>2
  <2> QED BY <2>3, <2>4, <1>put, <1>goal
\* The same, when nothing else changed.
<1>only. ASSUME NEW t \in Tabs, NEW k \in Kinds, NEW c \in Call, Put(t, k, c), tab' \in [Tabs -> TabState],
                UNCHANGED <<jar, live, issued>>, CallFits(c, jar, live, issued)
         PROVE  SessionInvariant'
  BY <1>only, <1>put DEF WsTypeOK, SessionsIssued, Jar
<1>kinds. Kinds = {"meta", "boot", "refresh", "write"}
  BY DEF Kinds
<1>2. CASE \E t \in Tabs : ReadToken(t)
  <2>1. PICK t \in Tabs : ReadToken(t)
    BY <1>2
  <2> DEFINE c == calls[t]["write"]
  <2>2. c \in WaitingCall
    BY <2>1, <1>kinds, CallByStage DEF ReadToken, WsTypeOK
  <2>3. CASE jar.csrf # 0
    <3> DEFINE d == Ready(c.op, jar.csrf, "read")
    <3>1. d \in Call /\ CallFits(d, jar, live, issued)
      BY <2>2, <2>3 DEF Ready, Call, ReadyCall, WaitingCall, Why, WsTypeOK, Jar, CallFits
    <3>2. Put(t, "write", d) /\ UNCHANGED <<jar, live, issued, tab>>
      BY <2>1, <2>3 DEF ReadToken
    <3> QED BY <3>1, <3>2, <1>only, <1>kinds DEF WsTypeOK
  <2>4. CASE jar.csrf = 0
    <3> DEFINE d == [stage |-> "bootstrap", op |-> c.op]
    <3>1. d \in Call /\ CallFits(d, jar, live, issued)
      BY <2>2 DEF Call, WaitingCall, CallFits
    <3>2. Put(t, "write", d) /\ UNCHANGED <<jar, live, issued, tab>>
      BY <2>1, <2>4 DEF ReadToken
    <3> QED BY <3>1, <3>2, <1>only, <1>kinds DEF WsTypeOK
  <2> QED BY <2>3, <2>4
<1>4. CASE \E t \in Tabs : SendWrite(t)
  <2>1. PICK t \in Tabs : SendWrite(t)
    BY <1>4
  <2> DEFINE c == calls[t]["write"]
  <2>2. c \in ReadyCall /\ CallFits(c, jar, live, issued) /\ c.stage = "ready"
    BY <2>1, <1>kinds, CallByStage DEF SendWrite, WsTypeOK, CallsFit
  <2>3. /\ c.op \in Op /\ c.header \in Nat /\ c.why \in Why
        /\ c.why = "get" => c.op \in {"meta", "me"}
        /\ c.why = "read" => c.header = jar.csrf /\ c.header # 0
    BY <2>2 DEF ReadyCall, CallFits, Op
  <2>4. Sent(c.op, c.header, c.why) \in Call /\ CallFits(Sent(c.op, c.header, c.why), jar, live, issued)
    BY <2>3, SentNow DEF Call
  <2> QED BY <2>1, <2>4, <1>only, <1>kinds DEF SendWrite, WsTypeOK
<1>5. CASE \E t \in Tabs : Refresh(t)
  <2>1. PICK t \in Tabs : Refresh(t)
    BY <1>5
  <2>2. Sent("me", 0, "get") \in Call /\ CallFits(Sent("me", 0, "get"), jar, live, issued)
    BY SentNow DEF Call, Op, Why
  <2> QED BY <2>1, <2>2, <1>only, <1>kinds DEF Refresh, WsTypeOK
<1>6. CASE \E t \in Tabs, op \in WriteOp : Write(t, op)
  <2>1. PICK t \in Tabs, op \in WriteOp : Write(t, op)
    BY <1>6
  <2>2. [stage |-> "token", op |-> op] \in Call /\ CallFits([stage |-> "token", op |-> op], jar, live, issued)
    BY DEF Call, WaitingCall, CallFits
  <2> QED BY <2>1, <2>2, <1>only, <1>kinds DEF Write, WsTypeOK
<1>10. CASE \E s \in live : EndSession(s)
  <2>1. /\ UNCHANGED <<jar, issued, tab, calls>>
        /\ live' \subseteq live
    BY <1>10 DEF EndSession
  <2>2. ASSUME NEW t \in Tabs, NEW k \in Kinds
        PROVE  CallFits(calls[t][k], jar, live', issued)
    <3>1. /\ calls[t][k] \in Call /\ jar \in Jar /\ issued \in Jar /\ issued.session <= issued.session
          /\ CallFits(calls[t][k], jar, live, issued)
      BY DEF WsTypeOK, Jar, CallsFit
    <3> QED BY <2>1, <3>1, StillFitsSessions
  <2>3. WsTypeOK' /\ SessionsIssued'
    BY <2>1 DEF WsTypeOK, SessionsIssued
  <2> QED BY <2>1, <2>2, <2>3, <1>goal
<1>11. CASE UNCHANGED wsVars
  BY <1>11 DEF wsVars, WsTypeOK, SessionsIssued, CallsFit
<1>1. CASE \E t \in Tabs : Open(t)
  <2>1. PICK t \in Tabs : Open(t)
    BY <1>1
  <2> DEFINE m == Sent("meta", 0, "get")
             b == Sent("me", 0, "get")
  <2>2. /\ m \in Call /\ CallFits(m, jar, live, issued)
        /\ b \in Call /\ CallFits(b, jar, live, issued)
    BY SentNow DEF Call, Op, Why
  <2> HIDE DEF m, b
  <2>3. /\ UNCHANGED <<jar, live, issued>> /\ tab' \in [Tabs -> TabState]
        /\ calls' = [calls EXCEPT ![t] = [@ EXCEPT !["meta"] = m, !["boot"] = b]]
    BY <2>1 DEF Open, WsTypeOK, TabState, m, b
  <2>4. \A u \in Tabs, j \in Kinds :
           calls'[u][j] = IF u = t /\ j = "meta" THEN m ELSE IF u = t /\ j = "boot" THEN b ELSE calls[u][j]
    BY <2>3, <1>kinds DEF WsTypeOK
  <2>5. calls' \in [Tabs -> [Kinds -> Call]]
    BY <2>2, <2>3, <1>kinds DEF WsTypeOK
  <2>6. \A u \in Tabs, j \in Kinds : CallFits(calls'[u][j], jar, live, issued)
    BY <2>2, <2>4 DEF CallsFit
  <2>7. WsTypeOK' /\ SessionsIssued'
    BY <2>3, <2>5 DEF WsTypeOK, SessionsIssued
  <2> QED BY <2>3, <2>6, <2>7, <1>goal
<1>3. CASE \E t \in Tabs : Bootstrap(t)
  <2>1. PICK t \in Tabs : Bootstrap(t)
    BY <1>3
  <2> DEFINE c == calls[t]["write"]
  <2>2. c \in WaitingCall
    BY <2>1, <1>kinds, CallByStage DEF Bootstrap, WsTypeOK
  <2>3. CASE Put(t, "write", Ready(c.op, jar.csrf, "bootstrap failed")) /\ UNCHANGED <<jar, issued>>
    <3> DEFINE d == Ready(c.op, jar.csrf, "bootstrap failed")
    <3>1. d \in Call /\ CallFits(d, jar, live, issued)
      BY <2>2 DEF Ready, Call, ReadyCall, WaitingCall, Why, WsTypeOK, Jar, CallFits
    <3> QED BY <2>1, <2>3, <3>1, <1>only, <1>kinds DEF WsTypeOK, Bootstrap
  <2>4. CASE /\ jar' = [jar EXCEPT !.csrf = issued.csrf + 1]
             /\ issued' = [issued EXCEPT !.csrf = @ + 1]
             /\ calls' = [Outdate(calls) EXCEPT ![t] =
                          [@ EXCEPT !["write"] = Ready(c.op, issued.csrf + 1, "read")]]
    <3> DEFINE d == Ready(c.op, issued.csrf + 1, "read")
    <3>1. /\ jar' \in Jar /\ jar'.csrf = issued.csrf + 1 /\ jar'.session = jar.session
          /\ issued' \in Jar /\ issued'.session = issued.session
          /\ issued.csrf + 1 \in Nat \ {0}
      BY <2>4 DEF WsTypeOK, Jar
    <3>2. d \in Call /\ CallFits(d, jar', live, issued')
      BY <2>2, <3>1 DEF Ready, Call, ReadyCall, WaitingCall, Why, CallFits
    <3> HIDE DEF d
    <3>3. Outdate(calls) \in [Tabs -> [Kinds -> Call]]
      <4>1. \A u \in Tabs, j \in Kinds : Outdated(calls[u][j]) \in Call
        BY OutdatedFits DEF WsTypeOK, CallsFit
      <4> QED BY <4>1 DEF Outdate, Outdated
    <3>4. calls' = [Outdate(calls) EXCEPT ![t] = [@ EXCEPT !["write"] = d]]
      BY <2>4 DEF d
    <3>5. \A u \in Tabs, j \in Kinds :
             calls'[u][j] = IF u = t /\ j = "write" THEN d ELSE Outdated(calls[u][j])
      BY <3>3, <3>4, <1>kinds, OutdateEach DEF WsTypeOK
    <3>6. calls' \in [Tabs -> [Kinds -> Call]]
      BY <3>2, <3>3, <3>4, <1>kinds
    <3>7. ASSUME NEW u \in Tabs, NEW j \in Kinds
          PROVE  CallFits(calls'[u][j], jar', live', issued')
      <4>1. CallFits(calls[u][j], jar, live, issued) /\ calls[u][j] \in Call /\ jar \in Jar /\ issued \in Jar
        BY DEF CallsFit, WsTypeOK
      <4>2. CallFits(Outdated(calls[u][j]), jar', live, issued)
        BY <4>1, <3>1, OutdatedFits
      <4>3. CallFits(Outdated(calls[u][j]), jar', live, issued')
        BY <4>2, <3>1 DEF CallFits
      <4> QED BY <2>1, <3>2, <3>5, <4>3 DEF Bootstrap
    <3>8. WsTypeOK' /\ SessionsIssued'
      BY <2>1, <3>1, <3>6 DEF WsTypeOK, SessionsIssued, Bootstrap
    <3> QED BY <3>7, <3>8, <1>goal
  <2> QED BY <2>1, <2>3, <2>4 DEF Bootstrap
<1>7. CASE \E t \in Tabs, k \in Kinds : Serve(t, k)
  <2>1. PICK t \in Tabs, k \in Kinds : Serve(t, k)
    BY <1>7
  <2> DEFINE c    == calls[t][k]
             auth == resolveSession(c.cookies.session)
  <2>2. c \in SentCall /\ CallFits(c, jar, live, issued) /\ c.stage = "sent"
    BY <2>1, CallByStage DEF Serve, WsTypeOK, CallsFit
  <2> DEFINE in(code)     == c.op = "login" /\ code \in {"ok", "failed"}
             out(code)    == c.op = "logout" /\ code = "ok"
             fresh(code)  == c.cookies.csrf = 0 \/ in(code)
             answer(code) == [code    |-> code,
                              user    |-> IF in(code) THEN issued.session + 1 ELSE auth,
                              csrf    |-> IF fresh(code) THEN issued.csrf + 1 ELSE Keep,
                              session |-> IF in(code) THEN issued.session + 1
                                          ELSE IF out(code) THEN 0 ELSE Keep]
  <2>3. PICK code \in Outcomes(c) :
          /\ issued' = [csrf    |-> issued.csrf + (IF fresh(code) THEN 1 ELSE 0),
                        session |-> issued.session + (IF in(code) THEN 1 ELSE 0)]
          /\ live' = IF in(code) THEN live \union {answer(code).user} ELSE live \ Revoked(out(code), auth)
          /\ Put(t, k, Reply(c, answer(code)))
    BY <2>1 DEF Serve
  <2> DEFINE a == answer(code)
  <2>4. /\ code \in Code
        /\ code = "csrf_failed" => c.why \in {"replaced", "bootstrap failed"}
        /\ code = "ok" /\ c.op = "me" => c.wasLive /\ auth = c.cookies.session
    BY <2>2, <2>3, OutcomeExplained
  <2>5. /\ c.cookies.session \in Nat /\ auth \in Nat
        /\ issued.session \in Nat /\ issued.csrf \in Nat /\ jar.session \in Nat
    BY <2>2 DEF SentCall, Jar, resolveSession, WsTypeOK
  <2>6. a \in Answer
    <3>1. (IF in(code) THEN issued.session + 1 ELSE auth) \in Nat
      BY <2>5
    <3>2. (IF fresh(code) THEN issued.csrf + 1 ELSE Keep) \in Nat \cup {Keep}
      BY <2>5
    <3>3. (IF in(code) THEN issued.session + 1 ELSE IF out(code) THEN 0 ELSE Keep) \in Nat \cup {Keep}
      BY <2>5
    <3> HIDE DEF in, out, fresh, auth
    <3> QED BY <2>4, <3>1, <3>2, <3>3 DEF Answer
  <2>7. /\ issued' \in Jar /\ issued.session <= issued'.session
        /\ a.session <= issued'.session
    BY <2>3, <2>5 DEF Jar, Keep
  <2>8. live' \subseteq Nat /\ \A s \in live' : s \in live \/ s > issued.session
    <3>1. \A s \in live' : s \in live \/ s = issued.session + 1
      BY <2>3
    <3>2. issued.session + 1 \in Nat /\ issued.session + 1 > issued.session
      BY <2>5
    <3>3. live \subseteq Nat
      BY DEF WsTypeOK
    <3> QED BY Zenon, <3>1, <3>2, <3>3
  <2>9. SessionsIssued'
    <3>1. \A s \in live' : s <= issued'.session
      <4>1. CASE in(code)
        <5>1. \A s \in live' : s \in live \/ s = issued.session + 1
          BY <2>3
        <5>2. issued'.session = issued.session + 1
          BY <2>3, <4>1
        <5>3. \A s \in live : s \in Nat /\ s <= issued.session
          BY DEF SessionsIssued, WsTypeOK
        <5>4. \A s \in live : s <= issued.session + 1
          BY <2>5, <5>3
        <5>5. issued.session + 1 <= issued.session + 1
          BY <2>5
        <5> QED BY Zenon, <5>1, <5>2, <5>4, <5>5
      <4>2. CASE ~in(code)
        <5>1. live' \subseteq live /\ issued'.session = issued.session
          BY <2>3, <2>5, <4>2
        <5> QED BY <5>1 DEF SessionsIssued
      <4> QED BY <4>1, <4>2
    <3> QED BY <2>1, <2>5, <2>7, <3>1 DEF Serve, SessionsIssued, Jar
  <2>10. c.op = "logout" /\ code = "ok" => a.session = 0 /\ c.cookies.session \notin live'
    BY <2>3, <2>5 DEF Revoked, resolveSession
  <2>11. c.op = "me" /\ code = "ok" => a.user = c.cookies.session /\ c.wasLive
    BY <2>4
  <2>12. /\ c.cookies.session <= issued'.session
         /\ ~c.wasLive => c.cookies.session \notin live'
    <3>1. c.cookies.session <= issued.session /\ (~c.wasLive => c.cookies.session \notin live)
      BY <2>2 DEF CallFits
    <3>2. issued'.session \in Nat
      BY <2>7 DEF Jar
    <3> QED BY <2>5, <2>7, <2>8, <3>1, <3>2
  <2>13. a.code = code
    OBVIOUS
  <2> HIDE DEF a
  <2>14. Reply(c, a) \in Call
    BY <2>2, <2>6, ReplyFields DEF Call
  <2>15. CallFits(Reply(c, a), jar', live', issued')
    <3> HIDE DEF c
    <3> QED BY <2>2, <2>4, <2>6, <2>7, <2>10, <2>11, <2>12, <2>13, ReplyFields DEF CallFits
  <2>16. Put(t, k, Reply(c, a)) /\ UNCHANGED <<jar, tab>>
    BY <2>1, <2>3 DEF Serve, a
  <2> HIDE DEF c
  <2> QED BY <2>7, <2>8, <2>9, <2>14, <2>15, <2>16, <1>put DEF WsTypeOK
<1>9. CASE \E t \in Tabs, k \in Kinds : Fail(t, k)
  <2>1. PICK t \in Tabs, k \in Kinds : Fail(t, k)
    BY <1>9
  <2>2. NoCall \in Call /\ CallFits(NoCall, jar, live, issued)
    BY DEF NoCall, Call, CallFits
  <2>3. Continue(calls[t][k].op, "failed", 0, tab[t]) \in TabState
    BY DEF Continue, WsTypeOK, TabState, Anonymous, SignedIn, AfterFailure
  <2>4. tab' \in [Tabs -> TabState]
    BY <2>1, <2>3 DEF Fail, WsTypeOK
  <2> QED BY <2>1, <2>2, <2>4, <1>only DEF Fail
<1>8. CASE \E t \in Tabs, k \in Kinds : Receive(t, k)
  <2>1. PICK t \in Tabs, k \in Kinds : Receive(t, k)
    BY <1>8
  <2> DEFINE c    == calls[t][k]
             rest == [calls EXCEPT ![t] = [@ EXCEPT ![k] = NoCall]]
             base == IF c.answer.csrf = Keep THEN rest ELSE Outdate(rest)
             update(old, new) == IF new = Keep THEN old ELSE new
  <2>2. c \in AnsweredCall /\ CallFits(c, jar, live, issued) /\ c.stage = "answered"
    BY <2>1, CallByStage DEF Receive, WsTypeOK, CallsFit
  <2>3. /\ c.answer.csrf \in Nat \cup {Keep} /\ c.answer.session \in Nat \cup {Keep}
        /\ c.answer.user \in Nat /\ c.answer.session <= issued.session
    BY <2>2 DEF AnsweredCall, Answer, CallFits
  <2>4. /\ jar' = [csrf |-> update(jar.csrf, c.answer.csrf), session |-> update(jar.session, c.answer.session)]
        /\ tab' = [tab EXCEPT ![t] = Continue(c.op, c.answer.code, c.answer.user, @)]
        /\ calls' = Follow(base, t, c.op, c.answer.code)
        /\ UNCHANGED <<live, issued>>
    BY <2>1 DEF Receive
  <2>5. jar' \in Jar /\ SessionsIssued'
    BY <2>3, <2>4 DEF Jar, WsTypeOK, SessionsIssued
  <2>6. Continue(c.op, c.answer.code, c.answer.user, tab[t]) \in TabState
    BY <2>3 DEF Continue, WsTypeOK, TabState, Anonymous, SignedIn, AfterFailure
  <2>7. tab' \in [Tabs -> TabState]
    BY <2>4, <2>6 DEF WsTypeOK
  <2>8. NoCall \in Call /\ \A j, l, i : CallFits(NoCall, j, l, i)
    BY DEF NoCall, Call, CallFits
  <2>9. rest \in [Tabs -> [Kinds -> Call]]
    BY <2>8 DEF WsTypeOK
  <2>10. \A u \in Tabs, j \in Kinds : CallFits(rest[u][j], jar, live, issued)
    BY <2>8 DEF WsTypeOK, CallsFit
  <2> HIDE DEF rest
  <2>11. base \in [Tabs -> [Kinds -> Call]]
    <3>1. \A u \in Tabs, j \in Kinds : Outdated(rest[u][j]) \in Call
      BY <2>9, <2>10, OutdatedFits DEF WsTypeOK
    <3>2. Outdate(rest) \in [Tabs -> [Kinds -> Call]]
      BY <3>1 DEF Outdate, Outdated
    <3> QED BY <2>9, <3>2
  <2>12. \A u \in Tabs, j \in Kinds : CallFits(base[u][j], jar', live, issued)
    <3>1. CASE c.answer.csrf = Keep
      <4>1. jar'.csrf = jar.csrf
        BY <2>4, <3>1
      <4>2. issued.session \in Nat /\ jar \in Jar /\ issued \in Jar
        BY DEF WsTypeOK, Jar
      <4>3. \A u \in Tabs, j \in Kinds : rest[u][j] \in Call
        BY <2>9
      <4>4. base = rest
        BY <3>1
      <4> QED BY <2>5, <2>10, <4>1, <4>2, <4>3, <4>4, StillFitsSessions
    <3>2. CASE c.answer.csrf # Keep
      <4>1. \A u \in Tabs, j \in Kinds : base[u][j] = Outdated(rest[u][j])
        BY <2>9, <3>2, OutdateEach
      <4> QED BY <2>5, <2>9, <2>10, <4>1, OutdatedFits DEF WsTypeOK
    <3> QED BY <3>1, <3>2
  <2> HIDE DEF base
  <2> DEFINE d == [stage |-> "due", op |-> "me"]
  <2>13. d \in Call /\ CallFits(d, jar', live, issued)
    BY DEF Call, DueCall, CallFits
  <2>14. calls' \in [Tabs -> [Kinds -> Call]]
    BY <2>4, <2>11, <2>13, <1>kinds DEF Follow
  <2>15. ASSUME NEW u \in Tabs, NEW j \in Kinds
         PROVE  CallFits(calls'[u][j], jar', live', issued')
    <3>1. calls'[u][j] = base[u][j] \/ calls'[u][j] = d
      BY <2>4, <2>11, <1>kinds DEF Follow
    <3> HIDE DEF d
    <3> QED BY <2>4, <2>12, <2>13, <3>1
  <2>16. WsTypeOK'
    BY <2>4, <2>5, <2>7, <2>14 DEF WsTypeOK
  <2> QED BY <2>5, <2>15, <2>16, <1>goal
<1> QED BY SessionActions, <1>1, <1>2, <1>3, <1>4, <1>5, <1>6, <1>7, <1>8, <1>9, <1>10, <1>11

\* What an answer that arrives does to the calls under way.
LEMMA Received ==
  ASSUME SessionInvariant, NEW t \in Tabs, NEW k \in Kinds, Receive(t, k)
  PROVE  /\ calls[t][k].op # "verify" => calls'[t][k] = NoCall
         /\ \A u \in Tabs : /\ ~(u = t /\ k = "write")
                            /\ calls[u]["write"].stage = "answered"
                            => calls'[u]["write"] = calls[u]["write"]
<1> DEFINE c    == calls[t][k]
           rest == [calls EXCEPT ![t] = [@ EXCEPT ![k] = NoCall]]
           base == IF c.answer.csrf = Keep THEN rest ELSE Outdate(rest)
<1>1. calls \in [Tabs -> [Kinds -> Call]] /\ NoCall \in Call /\ Kinds = {"meta", "boot", "refresh", "write"}
  BY DEF SessionInvariant, WsTypeOK, Call, Kinds
<1>2. /\ rest \in [Tabs -> [Kinds -> Call]]
      /\ \A u \in Tabs, j \in Kinds : rest[u][j] = IF u = t /\ j = k THEN NoCall ELSE calls[u][j]
  BY <1>1
<1> HIDE DEF rest
<1>3. \A u \in Tabs, j \in Kinds : rest[u][j].stage # "ready" => base[u][j] = rest[u][j]
  BY <1>2, OutdateEach DEF Outdated
<1>4. calls' = Follow(base, t, c.op, c.answer.code)
  BY DEF Receive, rest
<1>5. DOMAIN base = Tabs /\ \A u \in Tabs : DOMAIN base[u] = Kinds
  BY <1>2 DEF Outdate
<1> HIDE DEF base
<1>6. \A u \in Tabs : calls'[u]["write"] = base[u]["write"]
  BY <1>1, <1>4, <1>5 DEF Follow
<1>7. c.op # "verify" => calls'[t][k] = base[t][k]
  BY <1>4 DEF Follow
<1>8. NoCall.stage # "ready"
  BY DEF NoCall
<1> QED BY <1>1, <1>2, <1>3, <1>6, <1>7, <1>8

\* A tab is signed in by an answer only.
LEMMA SignedInStep ==
  ASSUME SessionInvariant, [WsNext]_wsVars, NEW t \in Tabs,
         tab'[t].status = "authenticated", tab'[t] # tab[t]
  PROVE  \E k \in Kinds :
            LET c == calls[t][k]
            IN  /\ Arriving(t, k) /\ c.answer.user = tab'[t].user
                /\ c.op = "login" \/ (c.wasLive /\ c.cookies.session = tab'[t].user)
<1>tab. tab \in [Tabs -> TabState]
  BY DEF SessionInvariant, WsTypeOK
<1>1. ASSUME NEW u \in Tabs, Open(u) PROVE FALSE
  BY <1>1, <1>tab DEF Open
<1>2. ASSUME NEW u \in Tabs, ReadToken(u) \/ Bootstrap(u) \/ SendWrite(u) \/ Refresh(u) PROVE FALSE
  BY <1>2 DEF ReadToken, Bootstrap, SendWrite, Refresh
<1>3. ASSUME NEW u \in Tabs, NEW op \in WriteOp, Write(u, op) PROVE FALSE
  BY <1>3 DEF Write
<1>4. ASSUME NEW u \in Tabs, NEW k \in Kinds, Serve(u, k) PROVE FALSE
  BY <1>4 DEF Serve
<1>5. ASSUME NEW u \in Tabs, NEW k \in Kinds, Fail(u, k) PROVE FALSE
  <2>1. tab' = [tab EXCEPT ![u] = Continue(calls[u][k].op, "failed", 0, @)]
    BY <1>5 DEF Fail
  <2>2. Continue(calls[u][k].op, "failed", 0, tab[u]) \in {tab[u], Anonymous}
    BY DEF Continue, AfterFailure
  <2> QED BY <2>1, <2>2, <1>tab DEF Anonymous
<1>6. ASSUME NEW s \in live, EndSession(s) PROVE FALSE
  BY <1>6 DEF EndSession
<1>7. ASSUME UNCHANGED wsVars PROVE FALSE
  BY <1>7 DEF wsVars
<1>8. PICK u \in Tabs, k \in Kinds : Receive(u, k)
  BY SessionActions, <1>1, <1>2, <1>3, <1>4, <1>5, <1>6, <1>7
<1> DEFINE c == calls[u][k]
<1>9. tab' = [tab EXCEPT ![u] = Continue(c.op, c.answer.code, c.answer.user, @)]
  BY <1>8 DEF Receive
<1>10. u = t
  BY <1>9, <1>tab
<1>11. tab'[t] = Continue(c.op, c.answer.code, c.answer.user, tab[t])
  BY <1>9, <1>10, <1>tab
<1>12. c.op \in {"me", "login"} /\ c.answer.code = "ok" /\ tab'[t] = SignedIn(c.answer.user)
  <2> HIDE DEF c
  <2> QED BY <1>11 DEF Continue, Anonymous, AfterFailure
<1>13. Arriving(t, k)
  BY <1>8, <1>10, <1>12, Received DEF Arriving, Receive
<1>14. c.op = "me" => c.wasLive /\ c.cookies.session = c.answer.user
  BY <1>8, <1>12 DEF Receive, SessionInvariant, CallsFit, CallFits
<1> QED BY <1>10, <1>12, <1>13, <1>14 DEF SignedIn

\* An answered sign-out that arrives and changes the cookies.
LEMMA SignedOutStep ==
  ASSUME SessionInvariant, [WsNext]_wsVars, NEW t \in Tabs,
         Arriving(t, "write"), calls[t]["write"].op = "logout",
         calls[t]["write"].answer.code = "ok", jar' # jar
  PROVE  calls[t]["write"].cookies.session \notin live /\ jar'.session = 0
<1> DEFINE c == calls[t]["write"]
<1>kinds. "write" \in Kinds
  BY DEF Kinds
<1>c. c.stage = "answered" /\ calls'[t]["write"] = NoCall /\ c # NoCall
  BY DEF Arriving, NoCall
<1>fits. c.answer.session = 0 /\ c.cookies.session \notin live
  BY <1>c, <1>kinds DEF SessionInvariant, CallsFit, CallFits
<1>1. ASSUME NEW u \in Tabs, Open(u) \/ ReadToken(u) \/ SendWrite(u) \/ Refresh(u) PROVE FALSE
  BY <1>1 DEF Open, ReadToken, SendWrite, Refresh
<1>2. ASSUME NEW u \in Tabs, Bootstrap(u) PROVE FALSE
  <2>1. calls' = [Outdate(calls) EXCEPT ![u] =
                    [@ EXCEPT !["write"] = Ready(calls[u]["write"].op, issued.csrf + 1, "read")]]
    BY <1>2 DEF Bootstrap
  <2>2. u # t
    BY <1>2, <1>c DEF Bootstrap
  <2>3. calls'[t]["write"] = Outdated(c)
    BY <2>1, <2>2, <1>kinds, OutdateEach DEF SessionInvariant, WsTypeOK
  <2> QED BY <2>3, <1>c DEF Outdated
<1>3. ASSUME NEW u \in Tabs, NEW op \in WriteOp, Write(u, op) PROVE FALSE
  BY <1>3 DEF Write
<1>4. ASSUME NEW u \in Tabs, NEW k \in Kinds, Serve(u, k) \/ Fail(u, k) PROVE FALSE
  BY <1>4 DEF Serve, Fail
<1>6. ASSUME NEW s \in live, EndSession(s) PROVE FALSE
  BY <1>6 DEF EndSession
<1>7. ASSUME UNCHANGED wsVars PROVE FALSE
  BY <1>7 DEF wsVars
<1>8. PICK u \in Tabs, k \in Kinds : Receive(u, k)
  BY SessionActions, <1>1, <1>2, <1>3, <1>4, <1>6, <1>7
<1>9. u = t /\ k = "write"
  BY <1>8, <1>c, Received
<1>10. jar'.session = IF c.answer.session = Keep THEN jar.session ELSE c.answer.session
  BY <1>8, <1>9 DEF Receive
<1> QED BY <1>10, <1>fits DEF Keep

LEMMA SessionInit == WsInit => SessionInvariant
<1> SUFFICES ASSUME WsInit PROVE SessionInvariant
  OBVIOUS
<1>1. calls = [t \in Tabs |-> [k \in Kinds |-> NoCall]]
  BY DEF WsInit
<1>2. WsTypeOK
  BY <1>1 DEF WsInit, WsTypeOK, Jar, Call, TabState, Closed
<1>3. CallsFit
  BY <1>1 DEF CallsFit, CallFits, NoCall
<1>4. SessionsIssued
  BY DEF WsInit, SessionsIssued
<1> QED BY <1>2, <1>3, <1>4 DEF SessionInvariant

\* The types, the numbering of the sessions and what each call of a tab rests on
\* stay as SessionInvariant says in every state.
THEOREM SessionInvariantHolds == WsSpec => []SessionInvariant
<1> QED BY SessionInit, SessionStep, PTL DEF WsSpec

\* A write is only refused for its token when the token was replaced on the way
\* or the bootstrap call failed.
THEOREM CsrfRefusals == WsSpec => []CsrfRefusalExplained
<1>1. SessionInvariant => CsrfRefusalExplained
  BY DEF SessionInvariant, CallsFit, CallFits, CsrfRefusalExplained
<1> QED BY SessionInvariantHolds, <1>1, PTL

\* A tab is signed in by its own sign-in, or by an answer asked for while the
\* session it names was live and in the cookies.
THEOREM SignInsAreLive == WsSpec => NoSignInOnDeadSession
<1>1. SessionInvariant /\ [WsNext]_wsVars =>
        [\A t \in Tabs :
          tab'[t].status = "authenticated" /\ tab'[t] # tab[t] =>
              \E k \in Kinds :
                  LET c == calls[t][k]
                  IN  /\ Arriving(t, k) /\ c.answer.user = tab'[t].user
                      /\ c.op = "login" \/ (c.wasLive /\ c.cookies.session = tab'[t].user)]_wsVars
  BY SignedInStep
<1> QED BY SessionInvariantHolds, <1>1, PTL DEF WsSpec, NoSignInOnDeadSession

\* A sign-out the server answered has ended the session it was sent with, and
\* the cookie is gone.
THEOREM SignOutsEndSessions == WsSpec => ConfirmedSignOutEndsSession
<1>1. SessionInvariant /\ [WsNext]_wsVars =>
        [\A t \in Tabs :
          LET c == calls[t]["write"]
          IN  Arriving(t, "write") /\ c.op = "logout" /\ c.answer.code = "ok" /\ jar' # jar =>
                  /\ c.cookies.session \notin live
                  /\ jar'.session = 0
                  /\ tab[t].user \in live => c.cookies.session # tab[t].user]_wsVars
  BY SignedOutStep
<1> QED BY SessionInvariantHolds, <1>1, PTL DEF WsSpec, ConfirmedSignOutEndsSession

-----------------------------------------------------------------------------
(* Polling: types and the inductive invariant.                              *)

RunningRead == [target : Targets, stage : {"sent", "answered"}, version : Nat, late : BOOLEAN]
Read        == {NoRead} \cup RunningRead
Data        == {Nothing} \cup [target : Targets, version : Nat, late : BOOLEAN]
SentWrite   == [stage : {"sent", "written"}, target : Targets, version : Nat]
ReloadWrite == [stage : {"reloading"}, target : Targets, version : Nat, read : RunningRead]
OneWrite    == {NoWrite} \cup SentWrite \cup ReloadWrite

PlTypeOK ==
  /\ page \in {"list", "detail", "settings"} /\ failed \in BOOLEAN
  /\ target \in Targets \cup {NoTarget}
  /\ data \in Data
  /\ effect \in Read /\ reads \in [Reads -> Read]
  /\ writes \in [Writes -> OneWrite]
  /\ version \in [Targets -> Nat] /\ saved \in [Targets -> Nat]

\* A read x under the address a, the versions s written and read back, and the
\* writes w: one that is not late is of the address, and once answered it is no
\* older than what was saved, nor than what a reload under way will save.
ReadFits(x, a, s, w) ==
  x # NoRead =>
    /\ a # NoTarget
    /\ x.late \/ x.target = a
    /\ x.stage = "answered" /\ ~x.late =>
         /\ s[x.target] <= x.version
         /\ \A o \in Writes :
              w[o].stage = "reloading" /\ x.target = w[o].target => w[o].version <= x.version

\* The reads: the one of the effect is always of the address, the one of a reload
\* is of the write.
ReadsFit ==
  /\ ReadFits(effect, target, saved, writes)
  /\ effect # NoRead => effect.target = target
  /\ \A r \in Reads : ReadFits(reads[r], target, saved, writes)
  /\ \A o \in Writes : writes[o].stage = "reloading" =>
       /\ ReadFits(writes[o].read, target, saved, writes)
       /\ writes[o].read.target = writes[o].target

\* A write is of the one target of a page that stays on it, and what it wrote is
\* on the server; so is what was saved.
WriteFits(w) ==
  /\ w # NoWrite => target # NoTarget /\ (page # "detail" => w.target = target)
  /\ w.stage \in {"written", "reloading"} =>
       /\ w.version <= version[w.target]
       /\ page # "list" => saved[w.target] <= w.version

\* Only a list has several writes under way.
OneAtATime ==
  page # "list" => \A o, x \in Writes : writes[o] # NoWrite /\ writes[x] # NoWrite => o = x

WritesFit ==
  /\ \A o \in Writes : WriteFits(writes[o])
  /\ OneAtATime
  /\ \A t \in Targets : saved[t] <= version[t]

\* Nothing is shown before the page is opened.
Opened == data # Nothing \/ failed => target # NoTarget

PollingInvariant ==
  /\ PlTypeOK /\ ReadsFit /\ WritesFit /\ Opened
  /\ ShownIsCurrentOrRacing /\ OwnWriteStays

LEMMA PollingActions ==
  ASSUME [PlNext]_plVars
  PROVE  \/ \E t \in Targets : Show(t)
         \/ \E t \in Targets : Change(t)
         \/ \E r \in Reads : Poll(r) \/ Retry(r)
         \/ \E r \in Reads : OtherRead(r)
         \/ \E r \in Reads : OtherFails(r)
         \/ EffectRead \/ EffectFails
         \/ \E o \in Writes : StartWrite(o)
         \/ \E o \in Writes : ServerWrites(o)
         \/ \E o \in Writes : WriteFails(o)
         \/ \E o \in Writes : Reload(o)
         \/ \E o \in Writes : SetData(o)
         \/ \E o \in Writes : ReloadRead(o)
         \/ \E o \in Writes : ReloadFails(o)
         \/ UNCHANGED plVars
  BY Zenon DEF PlNext

LEMMA OvertakenRead ==
  ASSUME NEW x \in Read, NEW a, NEW s, NEW w, x # NoRead => a # NoTarget
  PROVE  /\ Overtaken(x) \in Read /\ ReadFits(Overtaken(x), a, s, w)
         /\ Overtaken(x).target = x.target
         /\ Overtaken(x) = NoRead <=> x = NoRead
<1>1. CASE x = NoRead
  BY <1>1 DEF Overtaken, ReadFits, Read
<1>2. CASE x # NoRead
  <2>1. x \in RunningRead /\ Overtaken(x) = [x EXCEPT !.late = TRUE]
    BY <1>2 DEF Overtaken, Read
  <2>2. /\ [x EXCEPT !.late = TRUE] \in RunningRead
        /\ [x EXCEPT !.late = TRUE].late /\ [x EXCEPT !.late = TRUE].target = x.target
    BY <2>1 DEF RunningRead
  <2>3. NoRead \notin RunningRead
    BY DEF NoRead, RunningRead
  <2> QED BY <1>2, <2>1, <2>2, <2>3 DEF ReadFits, Read
<1> QED BY <1>1, <1>2

\* A read that begins: late from the start when it is not of the address.
LEMMA FetchedRead ==
  ASSUME NEW t \in Targets, NEW a, NEW s, NEW w, target \in Targets \cup {NoTarget}
  PROVE  /\ Fetch(t) \in RunningRead /\ Fetch(t).target = t /\ Fetch(t).stage = "sent"
         /\ a = target /\ target # NoTarget => ReadFits(Fetch(t), a, s, w)
         /\ NewEffect(t) \in RunningRead /\ NewEffect(t).target = t
         /\ a = t => ReadFits(NewEffect(t), a, s, w)
<1>1. (t # target) \in BOOLEAN
  OBVIOUS
<1>2. /\ Fetch(t) \in RunningRead /\ Fetch(t).target = t /\ Fetch(t).stage = "sent"
      /\ Fetch(t).late = (t # target)
  BY <1>1 DEF Fetch, RunningRead
<1>3. /\ NewEffect(t) \in RunningRead /\ NewEffect(t).target = t /\ NewEffect(t).stage = "sent"
  BY <1>2 DEF NewEffect, RunningRead
<1>4. t # NoTarget
  BY PollingAssumption
<1> QED BY <1>2, <1>3, <1>4 DEF ReadFits

\* A read is answered with the version of the moment.
LEMMA AnsweredRead ==
  ASSUME PlTypeOK, WritesFit, NEW x \in RunningRead, ReadFits(x, target, saved, writes)
  PROVE  /\ Answered(x) \in RunningRead /\ Answered(x).target = x.target
         /\ ReadFits(Answered(x), target, saved, writes)
<1>1. Answered(x) \in RunningRead /\ Answered(x).target = x.target
  BY DEF Answered, RunningRead, PlTypeOK
<1>2. x # NoRead /\ Answered(x) # NoRead
  BY <1>1 DEF NoRead, RunningRead
<1>3. /\ Answered(x).late = x.late
      /\ Answered(x).version = version[x.target] /\ x.target \in Targets
  BY DEF Answered, RunningRead
<1>4. \A o \in Writes : writes[o].stage = "reloading" /\ x.target = writes[o].target =>
        writes[o].version <= version[x.target]
  BY DEF WritesFit, WriteFits
<1>5. saved[x.target] <= version[x.target]
  BY <1>3 DEF WritesFit
<1>6. target # NoTarget /\ (x.late \/ x.target = target)
  BY <1>2 DEF ReadFits
<1> QED BY <1>1, <1>2, <1>3, <1>4, <1>5, <1>6 DEF ReadFits

LEMMA WriteByStage ==
  ASSUME NEW w \in OneWrite
  PROVE  /\ w.stage \in {"sent", "written"} => w \in SentWrite
         /\ w.stage = "reloading" => w \in ReloadWrite
         /\ w.stage \in {"none", "sent", "written", "reloading"}
         /\ w.stage = "none" <=> w = NoWrite
  BY DEF OneWrite, NoWrite, SentWrite, ReloadWrite

LEMMA ReadByStage ==
  ASSUME NEW x \in Read
  PROVE  /\ x.stage \in {"sent", "answered"} <=> x # NoRead
         /\ x # NoRead <=> x \in RunningRead
  BY DEF Read, NoRead, RunningRead

\* A read that is not late is no older than what was saved, so what it shows stays.
LEMMA SettledData ==
  ASSUME NEW x \in RunningRead, NEW w, ReadFits(x, target, saved', w), x.stage = "answered",
         Settle(x), UNCHANGED target, saved' \in [Targets -> Nat]
  PROVE  /\ data' \in Data /\ data' # Nothing /\ target # NoTarget
         /\ failed' = FALSE
         /\ data'.target = x.target /\ data'.late = x.late
         /\ OwnWriteStays' /\ ShownIsCurrentOrRacing'
<1>1. data' = [target |-> x.target, version |-> x.version, late |-> x.late] /\ failed' = FALSE
  BY DEF Settle
<1>2. x.target \in Targets /\ x.version \in Nat /\ x.late \in BOOLEAN /\ x # NoRead
  BY DEF RunningRead, NoRead
<1>3. data' \in Data /\ data' # Nothing
  BY <1>1, <1>2, PollingAssumption DEF Data, Nothing
<1>4. data'.target = x.target /\ data'.late = x.late /\ data'.version = x.version
  BY <1>1
<1>5. target # NoTarget /\ (x.late \/ x.target = target) /\ (~x.late => saved'[x.target] <= x.version)
  BY <1>2 DEF ReadFits
<1>6. saved'[x.target] \in Nat
  BY <1>2
<1>7. OwnWriteStays'
  BY <1>2, <1>4, <1>5, <1>6 DEF OwnWriteStays
<1>8. ShownIsCurrentOrRacing'
  BY <1>4, <1>5 DEF ShownIsCurrentOrRacing
<1> QED BY <1>1, <1>3, <1>4, <1>5, <1>7, <1>8

\* Writes only matter to a read while they reload.
LEMMA WritesApart ==
  ASSUME NEW x, NEW a, NEW s, NEW w, NEW w2, ReadFits(x, a, s, w),
         \A o \in Writes : w2[o].stage = "reloading" =>
           w[o].stage = "reloading" /\ w2[o].target = w[o].target /\ w2[o].version = w[o].version
  PROVE  ReadFits(x, a, s, w2)
  BY DEF ReadFits

\* A write that reloads keeps what it is when its read is overtaken.
LEMMA PassedWrite ==
  ASSUME NEW w \in OneWrite, NEW a, NEW s, NEW ws, w.stage = "reloading" => a # NoTarget
  PROVE  /\ Passed(w) \in OneWrite
         /\ Passed(w).stage = w.stage
         /\ Passed(w) = NoWrite <=> w = NoWrite
         /\ w # NoWrite => Passed(w).target = w.target /\ Passed(w).version = w.version
         /\ w.stage = "reloading" =>
              /\ Passed(w).read.target = w.read.target
              /\ ReadFits(Passed(w).read, a, s, ws)
<1>1. CASE w.stage = "reloading"
  <2>1. w \in ReloadWrite
    BY <1>1, WriteByStage
  <2>2. w.read \in RunningRead
    BY <2>1 DEF ReloadWrite
  <2>3. w.read \in Read /\ w.read # NoRead
    BY <2>2, ReadByStage DEF Read
  <2>4. /\ Overtaken(w.read) \in RunningRead /\ Overtaken(w.read).target = w.read.target
        /\ ReadFits(Overtaken(w.read), a, s, ws)
    BY <1>1, <2>3, OvertakenRead, ReadByStage
  <2>5. Passed(w) = [w EXCEPT !.read = Overtaken(w.read)]
    BY <1>1 DEF Passed
  <2>6. Passed(w) = [stage |-> "reloading", target |-> w.target, version |-> w.version,
                     read |-> Overtaken(w.read)]
    BY <2>1, <2>5 DEF ReloadWrite
  <2> QED BY <1>1, <2>1, <2>4, <2>6 DEF ReloadWrite, OneWrite, NoWrite
<1>2. CASE w.stage # "reloading"
  BY <1>2 DEF Passed
<1> QED BY <1>1, <1>2

\* One write moves on to something that is not a reload, and all else that the
\* invariant speaks of stays, but for the versions, which grow.
LEMMA WriteGoesOn ==
  ASSUME PollingInvariant, UNCHANGED <<page, target, data, effect, reads, saved>>,
         failed' = failed \/ (failed' = TRUE /\ target # NoTarget),
         NEW o \in Writes, NEW w \in {NoWrite} \cup SentWrite, SetWrite(o, w),
         version' \in [Targets -> Nat], \A t \in Targets : version[t] <= version'[t],
         w # NoWrite => /\ target # NoTarget /\ (page # "detail" => w.target = target)
                        /\ page = "list" \/ \A x \in Writes \ {o} : writes[x] = NoWrite,
         w.stage = "written" => /\ w.version <= version'[w.target]
                                /\ saved[w.target] <= w.version
  PROVE  PollingInvariant'
<1> USE DEF PollingInvariant
<1>1. w \in OneWrite /\ w.stage # "reloading"
  BY DEF OneWrite, NoWrite, SentWrite
<1>2. writes' = [writes EXCEPT ![o] = w] /\ writes' \in [Writes -> OneWrite]
  BY <1>1 DEF SetWrite, PlTypeOK
<1>3. writes'[o] = w /\ \A x \in Writes \ {o} : writes'[x] = writes[x]
  BY <1>2 DEF PlTypeOK
<1>4. PlTypeOK'
  BY <1>2 DEF PlTypeOK
<1>5. \A x : ReadFits(x, target, saved, writes) => ReadFits(x, target, saved, writes')
  <2>1. \A x \in Writes : writes'[x].stage = "reloading" => writes'[x] = writes[x]
    BY <1>1, <1>3
  <2> QED BY <2>1, WritesApart
<1>6. ReadsFit'
  BY <1>1, <1>3, <1>5 DEF ReadsFit
<1>7. \A x \in Writes \ {o} : WriteFits(writes[x])'
  <2> SUFFICES ASSUME NEW x \in Writes \ {o} PROVE WriteFits(writes[x])'
    OBVIOUS
  <2>1. writes'[x] = writes[x] /\ WriteFits(writes[x]) /\ writes[x] \in OneWrite
    BY <1>3 DEF WritesFit, PlTypeOK
  <2>2. writes[x].stage \in {"written", "reloading"} =>
          writes[x].target \in Targets /\ writes[x].version \in Nat
    BY <2>1, WriteByStage DEF SentWrite, ReloadWrite
  <2>3. \A t \in Targets : version[t] \in Nat /\ version'[t] \in Nat
    BY DEF PlTypeOK
  <2> QED BY <2>1, <2>2, <2>3 DEF WriteFits
<1>8. WriteFits(writes[o])'
  BY <1>1, <1>3 DEF WriteFits, SentWrite, NoWrite
<1>9. OneAtATime'
  BY <1>3 DEF WritesFit, OneAtATime
<1>10. \A t \in Targets : saved'[t] <= version'[t]
  BY <1>4 DEF WritesFit, PlTypeOK
<1>11. WritesFit'
  BY <1>7, <1>8, <1>9, <1>10 DEF WritesFit
<1> QED BY <1>4, <1>6, <1>11 DEF Opened, ShownIsCurrentOrRacing, OwnWriteStays

LEMMA PollingStep ==
  ASSUME PollingInvariant, [PlNext]_plVars
  PROVE  PollingInvariant'
<1> USE PollingAssumption DEF PollingInvariant
<1>1. CASE \E t \in Targets : Show(t)
  <2>1. PICK t \in Targets : Show(t)
    BY <1>1
  <2>2. /\ t # target /\ target' = t /\ effect' = NewEffect(t) /\ t # NoTarget
        /\ page = "detail" \/ target = NoTarget
        /\ \A o \in Writes : writes'[o] = Passed(writes[o])
        /\ \A r \in Reads : reads'[r] = Overtaken(reads[r])
        /\ UNCHANGED <<page, data, failed, version, saved>>
    BY <2>1 DEF Show, OvertakeReads
  <2>3. \A x \in Read : Overtaken(x) \in Read /\ ReadFits(Overtaken(x), target', saved', writes')
    BY <2>2, OvertakenRead
  <2>4. /\ NewEffect(t) \in RunningRead /\ NewEffect(t).target = t
        /\ ReadFits(NewEffect(t), target', saved', writes') /\ NewEffect(t) # NoRead
    BY <2>2, FetchedRead, ReadByStage DEF PlTypeOK, Read
  <2>5. ASSUME NEW o \in Writes
        PROVE  /\ writes'[o] = Passed(writes[o]) /\ writes[o] \in OneWrite /\ writes'[o] \in OneWrite
               /\ writes'[o].stage = writes[o].stage
               /\ writes'[o] = NoWrite <=> writes[o] = NoWrite
               /\ writes[o] # NoWrite =>
                    writes'[o].target = writes[o].target /\ writes'[o].version = writes[o].version
               /\ writes[o].stage = "reloading" =>
                    /\ writes'[o].read.target = writes[o].read.target
                    /\ ReadFits(writes'[o].read, target', saved', writes')
    <3>1. writes[o] \in OneWrite /\ writes'[o] = Passed(writes[o])
      BY <2>2 DEF PlTypeOK
    <3> QED BY <2>2, <3>1, PassedWrite
  <2>6. PlTypeOK'
    <3>1. reads' \in [Reads -> Read]
      BY <2>1, <2>3 DEF Show, OvertakeReads, PlTypeOK
    <3>2. writes' \in [Writes -> OneWrite]
      BY <2>1, <2>5 DEF Show
    <3> QED BY <2>2, <2>4, <3>1, <3>2 DEF PlTypeOK, Read
  <2>7. ReadsFit'
    <3>1. \A r \in Reads : ReadFits(reads'[r], target', saved', writes')
      BY <2>2, <2>3 DEF PlTypeOK
    <3>2. \A o \in Writes : writes'[o].stage = "reloading" =>
            /\ ReadFits(writes'[o].read, target', saved', writes')
            /\ writes'[o].read.target = writes'[o].target
      BY <2>5 DEF ReadsFit, NoWrite
    <3> QED BY <2>2, <2>4, <3>1, <3>2 DEF ReadsFit
  <2>8. WritesFit'
    <3>1. \A o \in Writes : WriteFits(writes[o])'
      <4> SUFFICES ASSUME NEW o \in Writes PROVE WriteFits(writes[o])'
        OBVIOUS
      <4>1. WriteFits(writes[o])
        BY DEF WritesFit
      <4> QED BY <2>2, <2>5, <4>1 DEF WriteFits, NoWrite
    <3>2. OneAtATime'
      BY <2>2, <2>5 DEF WritesFit, OneAtATime
    <3> QED BY <2>2, <3>1, <3>2 DEF WritesFit
  <2>9. Opened' /\ ShownIsCurrentOrRacing' /\ OwnWriteStays'
    BY <2>2, <2>4 DEF Opened, ShownIsCurrentOrRacing, OwnWriteStays
  <2> QED BY <2>6, <2>7, <2>8, <2>9
<1>2. CASE \E t \in Targets : Change(t)
  <2>1. PICK t \in Targets : Change(t)
    BY <1>2
  <2>2. /\ version' = [version EXCEPT ![t] = @ + 1]
        /\ UNCHANGED <<page, target, data, failed, effect, reads, writes, saved>>
    BY <2>1 DEF Change
  <2>3. PlTypeOK'
    BY <2>2 DEF PlTypeOK
  <2>4. \A u \in Targets : version[u] \in Nat /\ version'[u] \in Nat /\ version[u] <= version'[u]
    BY <2>2 DEF PlTypeOK
  <2>5. WritesFit'
    <3>1. \A o \in Writes : WriteFits(writes[o])'
      <4> SUFFICES ASSUME NEW o \in Writes PROVE WriteFits(writes[o])'
        OBVIOUS
      <4>1. WriteFits(writes[o]) /\ writes[o] \in OneWrite
        BY DEF WritesFit, PlTypeOK
      <4>2. writes[o].stage \in {"written", "reloading"} =>
              writes[o].target \in Targets /\ writes[o].version \in Nat
        BY <4>1, WriteByStage DEF SentWrite, ReloadWrite
      <4> QED BY <2>2, <2>4, <4>1, <4>2 DEF WriteFits
    <3>2. \A u \in Targets : saved[u] \in Nat
      BY DEF PlTypeOK
    <3> QED BY <2>2, <2>4, <3>1, <3>2 DEF WritesFit, OneAtATime
  <2> QED BY <2>2, <2>3, <2>5 DEF ReadsFit, Opened, ShownIsCurrentOrRacing, OwnWriteStays
<1>3. CASE \E r \in Reads : Poll(r) \/ Retry(r)
  <2>1. PICK r \in Reads : BeginRead(r) /\ target # NoTarget
    BY <1>3 DEF Poll, Retry, PollDue, Opened
  <2>2. target \in Targets
    BY <2>1 DEF PlTypeOK
  <2>3. /\ Fetch(target) \in Read /\ ReadFits(Fetch(target), target, saved, writes)
    BY <2>2, <2>1, FetchedRead DEF Read, PlTypeOK
  <2>4. /\ reads' = [reads EXCEPT ![r] = Fetch(target)]
        /\ UNCHANGED <<page, target, data, failed, effect, writes, version, saved>>
    BY <2>1 DEF BeginRead
  <2>5. PlTypeOK' /\ ReadsFit'
    BY <2>3, <2>4 DEF PlTypeOK, ReadsFit
  <2> QED BY <2>4, <2>5 DEF WritesFit, WriteFits, OneAtATime, Opened, ShownIsCurrentOrRacing, OwnWriteStays
<1>4. CASE \E r \in Reads : OtherRead(r)
  <2>1. PICK r \in Reads : OtherRead(r)
    BY <1>4
  <2>2. /\ reads[r] \in RunningRead /\ ReadFits(reads[r], target, saved, writes)
        /\ UNCHANGED <<page, target, effect, writes, version, saved>>
    BY <2>1, ReadByStage DEF OtherRead, PlTypeOK, ReadsFit
  <2>3. CASE reads[r].stage = "sent"
    <3>1. reads' = [reads EXCEPT ![r] = Answered(reads[r])] /\ UNCHANGED <<data, failed>>
      BY <2>1, <2>3 DEF OtherRead
    <3>2. Answered(reads[r]) \in Read /\ ReadFits(Answered(reads[r]), target, saved, writes)
      BY <2>2, AnsweredRead DEF Read
    <3>3. PlTypeOK' /\ ReadsFit'
      BY <2>2, <3>1, <3>2 DEF PlTypeOK, ReadsFit
    <3> QED BY <2>2, <3>1, <3>3 DEF WritesFit, WriteFits, OneAtATime, Opened, ShownIsCurrentOrRacing, OwnWriteStays
  <2>4. CASE reads[r].stage = "answered"
    <3>1. reads' = [reads EXCEPT ![r] = NoRead] /\ Settle(reads[r])
      BY <2>1, <2>4 DEF OtherRead
    <3>2. /\ data' \in Data /\ target # NoTarget /\ failed' = FALSE
          /\ OwnWriteStays' /\ ShownIsCurrentOrRacing'
      BY <2>2, <2>4, <3>1, SettledData DEF PlTypeOK
    <3>3. PlTypeOK' /\ ReadsFit'
      BY <2>2, <3>1, <3>2 DEF PlTypeOK, ReadsFit, Read, ReadFits
    <3> QED BY <2>2, <3>2, <3>3 DEF WritesFit, WriteFits, OneAtATime, Opened
  <2> QED BY <2>1, <2>3, <2>4 DEF OtherRead
<1>5. CASE \E r \in Reads : OtherFails(r)
  <2>1. PICK r \in Reads : OtherFails(r)
    BY <1>5
  <2>2. /\ reads[r] # NoRead /\ reads' = [reads EXCEPT ![r] = NoRead]
        /\ failed' = TRUE
        /\ UNCHANGED <<page, target, data, effect, writes, version, saved>>
    BY <2>1 DEF OtherFails, SettleFailed
  <2>3. target # NoTarget
    BY <2>2 DEF ReadsFit, ReadFits
  <2>4. PlTypeOK' /\ ReadsFit'
    BY <2>2 DEF PlTypeOK, ReadsFit, Read, ReadFits
  <2> QED BY <2>2, <2>3, <2>4 DEF WritesFit, WriteFits, OneAtATime, Opened, ShownIsCurrentOrRacing, OwnWriteStays
<1>6. CASE EffectRead
  <2>1. /\ effect \in RunningRead /\ ReadFits(effect, target, saved, writes)
        /\ effect # NoRead /\ effect.target = target
        /\ UNCHANGED <<page, target, reads, writes, version, saved>>
    BY <1>6, ReadByStage DEF EffectRead, PlTypeOK, ReadsFit
  <2>2. CASE effect.stage = "sent"
    <3>1. effect' = Answered(effect) /\ UNCHANGED <<data, failed>>
      BY <1>6, <2>2 DEF EffectRead
    <3>2. /\ Answered(effect) \in RunningRead /\ ReadFits(Answered(effect), target, saved, writes)
          /\ Answered(effect).target = target
      BY <2>1, AnsweredRead
    <3>3. Answered(effect) # NoRead
      BY <3>2, ReadByStage DEF Read
    <3>4. PlTypeOK' /\ ReadsFit'
      BY <2>1, <3>1, <3>2 DEF PlTypeOK, ReadsFit, Read
    <3> QED BY <2>1, <3>1, <3>3, <3>4 DEF WritesFit, WriteFits, OneAtATime, Opened, ShownIsCurrentOrRacing, OwnWriteStays
  <2>3. CASE effect.stage = "answered"
    <3>1. effect' = NoRead /\ Settle(effect)
      BY <1>6, <2>3 DEF EffectRead
    <3>2. /\ data' \in Data /\ target # NoTarget /\ failed' = FALSE
          /\ OwnWriteStays' /\ ShownIsCurrentOrRacing'
      BY <2>1, <2>3, <3>1, SettledData DEF PlTypeOK
    <3>3. PlTypeOK' /\ ReadsFit'
      BY <2>1, <3>1, <3>2 DEF PlTypeOK, ReadsFit, Read, ReadFits
    <3> QED BY <2>1, <3>2, <3>3 DEF WritesFit, WriteFits, OneAtATime, Opened
  <2> QED BY <1>6, <2>2, <2>3 DEF EffectRead
<1>7. CASE EffectFails
  <2>1. /\ effect # NoRead /\ effect' = NoRead /\ failed' = TRUE
        /\ UNCHANGED <<page, target, data, reads, writes, version, saved>>
    BY <1>7 DEF EffectFails, SettleFailed
  <2>2. target # NoTarget
    BY <2>1 DEF ReadsFit, ReadFits
  <2>3. PlTypeOK' /\ ReadsFit'
    BY <2>1 DEF PlTypeOK, ReadsFit, Read, ReadFits
  <2> QED BY <2>1, <2>2, <2>3 DEF WritesFit, WriteFits, OneAtATime, Opened, ShownIsCurrentOrRacing, OwnWriteStays
<1>8. CASE \E o \in Writes : StartWrite(o)
  <2>1. PICK o \in Writes : StartWrite(o)
    BY <1>8
  <2> DEFINE w == [stage |-> "sent", target |-> target, version |-> 0]
  <2>2. target # NoTarget /\ target \in Targets
    BY <2>1 DEF StartWrite, Opened, PlTypeOK
  <2>3. w \in SentWrite /\ w.stage = "sent" /\ w.target = target
    BY <2>2 DEF SentWrite
  <2>4. /\ SetWrite(o, w) /\ (page = "list" \/ \A x \in Writes \ {o} : writes[x] = NoWrite)
        /\ UNCHANGED <<page, target, data, failed, effect, reads, version, saved>>
    BY <2>1 DEF StartWrite
  <2>5. version' \in [Targets -> Nat] /\ \A t \in Targets : version[t] <= version'[t]
    BY <2>4 DEF PlTypeOK
  <2> HIDE DEF w
  <2> QED BY <2>2, <2>3, <2>4, <2>5, WriteGoesOn
<1>9. CASE \E o \in Writes : ServerWrites(o)
  <2>1. PICK o \in Writes : ServerWrites(o)
    BY <1>9
  <2>2. writes[o] \in SentWrite /\ writes[o] # NoWrite /\ WriteFits(writes[o])
    BY <2>1, WriteByStage DEF ServerWrites, NoWrite, PlTypeOK, WritesFit
  <2> DEFINE t == writes[o].target
             w == [stage |-> "written", target |-> t, version |-> version[t] + 1]
  <2>3. t \in Targets /\ version[t] \in Nat /\ saved[t] \in Nat /\ saved[t] <= version[t]
    BY <2>2 DEF SentWrite, PlTypeOK, WritesFit
  <2>4. /\ version' = [version EXCEPT ![t] = @ + 1] /\ SetWrite(o, w)
        /\ UNCHANGED <<page, target, data, failed, effect, reads, saved>>
    BY <2>1 DEF ServerWrites
  <2>5. /\ version' \in [Targets -> Nat] /\ version'[t] = version[t] + 1
        /\ \A u \in Targets : version[u] <= version'[u]
    BY <2>3, <2>4 DEF PlTypeOK
  <2>6. w \in SentWrite /\ w.target = t /\ w.version = version[t] + 1
    BY <2>3 DEF SentWrite
  <2>7. /\ target # NoTarget /\ (page # "detail" => t = target)
        /\ page = "list" \/ \A x \in Writes \ {o} : writes[x] = NoWrite
    BY <2>2 DEF WriteFits, WritesFit, OneAtATime
  <2>8. w.version <= version'[w.target] /\ saved[w.target] <= w.version
    BY <2>3, <2>5, <2>6
  <2> HIDE DEF w
  <2> QED BY <2>4, <2>5, <2>6, <2>7, <2>8, WriteGoesOn
<1>10. CASE \E o \in Writes : WriteFails(o)
  <2>1. PICK o \in Writes : WriteFails(o)
    BY <1>10
  <2>2. SetWrite(o, NoWrite) /\ UNCHANGED <<page, target, data, failed, effect, reads, version, saved>>
    BY <2>1 DEF WriteFails
  <2>3. version' \in [Targets -> Nat] /\ \A t \in Targets : version[t] <= version'[t]
    BY <2>2 DEF PlTypeOK
  <2>4. NoWrite.stage # "written"
    BY DEF NoWrite
  <2> QED BY <2>2, <2>3, <2>4, WriteGoesOn
<1>11. CASE \E o \in Writes : Reload(o)
  <2>1. PICK o \in Writes : Reload(o)
    BY <1>11
  <2> DEFINE w == writes[o]
  <2>2. w \in SentWrite /\ w.stage = "written" /\ w # NoWrite /\ WriteFits(w)
    BY <2>1, WriteByStage DEF Reload, NoWrite, PlTypeOK, WritesFit
  <2>3. w.target \in Targets /\ w.version \in Nat /\ target # NoTarget
    BY <2>2 DEF SentWrite, WriteFits
  <2>4. /\ writes' = [x \in Writes |-> IF x = o THEN Reloading(w) ELSE Passed(writes[x])]
        /\ reads' = [r \in Reads |-> Overtaken(reads[r])] /\ effect' = Overtaken(effect)
        /\ UNCHANGED <<page, target, data, failed, version, saved>>
    BY <2>1 DEF Reload, OvertakeReads
  <2>5. /\ Fetch(w.target) \in RunningRead /\ Fetch(w.target).target = w.target
        /\ ReadFits(Fetch(w.target), target, saved, writes')
    BY <2>3, FetchedRead DEF PlTypeOK
  <2>6. /\ Reloading(w) \in ReloadWrite /\ Reloading(w).target = w.target
        /\ Reloading(w).version = w.version /\ Reloading(w).read = Fetch(w.target)
        /\ Reloading(w).stage = "reloading"
    BY <2>3, <2>5 DEF ReloadWrite, Reloading
  <2>7. \A x \in Read : Overtaken(x) \in Read /\ ReadFits(Overtaken(x), target, saved, writes')
    BY <2>3, OvertakenRead
  <2>8. effect' \in Read /\ effect'.target = effect.target /\ (effect' = NoRead <=> effect = NoRead)
    BY <2>3, <2>4, OvertakenRead DEF PlTypeOK
  <2>9. ASSUME NEW x \in Writes \ {o}
        PROVE  /\ writes'[x] \in OneWrite /\ writes'[x].stage = writes[x].stage
               /\ writes'[x] = NoWrite <=> writes[x] = NoWrite
               /\ writes[x] # NoWrite =>
                    writes'[x].target = writes[x].target /\ writes'[x].version = writes[x].version
               /\ writes[x].stage = "reloading" =>
                    /\ writes'[x].read.target = writes[x].read.target
                    /\ ReadFits(writes'[x].read, target, saved, writes')
    <3>1. writes[x] \in OneWrite /\ writes'[x] = Passed(writes[x])
      BY <2>4 DEF PlTypeOK
    <3> QED BY <2>3, <3>1, PassedWrite
  <2>10. writes'[o] = Reloading(w) /\ writes'[o] \in OneWrite
    BY <2>4, <2>6 DEF OneWrite
  <2> HIDE DEF w
  <2>11. PlTypeOK'
    BY <2>4, <2>7, <2>8, <2>9, <2>10 DEF PlTypeOK
  <2>12. ReadsFit'
    <3>1. \A x \in Writes : writes'[x].stage = "reloading" =>
            /\ ReadFits(writes'[x].read, target, saved, writes')
            /\ writes'[x].read.target = writes'[x].target
      BY <2>5, <2>6, <2>9, <2>10 DEF ReadsFit, NoWrite
    <3>2. \A r \in Reads : ReadFits(reads'[r], target, saved, writes')
      BY <2>4, <2>7 DEF PlTypeOK
    <3>3. ReadFits(effect', target, saved, writes')
      BY <2>4, <2>7 DEF PlTypeOK
    <3> QED BY <2>4, <2>8, <3>1, <3>2, <3>3 DEF ReadsFit
  <2>13. WritesFit'
    <3>1. \A x \in Writes \ {o} : WriteFits(writes[x])'
      <4> SUFFICES ASSUME NEW x \in Writes \ {o} PROVE WriteFits(writes[x])'
        OBVIOUS
      <4>1. WriteFits(writes[x])
        BY DEF WritesFit
      <4> QED BY <2>4, <2>9, <4>1 DEF WriteFits, NoWrite
    <3>2. WriteFits(writes[o])'
      BY <2>2, <2>3, <2>4, <2>6, <2>10 DEF WriteFits
    <3>3. OneAtATime'
      BY <2>2, <2>4, <2>9, <2>10 DEF w, WritesFit, OneAtATime
    <3> QED BY <2>4, <3>1, <3>2, <3>3 DEF WritesFit
  <2> QED BY <2>4, <2>8, <2>11, <2>12, <2>13 DEF Opened, ShownIsCurrentOrRacing, OwnWriteStays
<1>12. CASE \E o \in Writes : SetData(o)
  <2>1. PICK o \in Writes : SetData(o)
    BY <1>12
  <2> DEFINE w == writes[o]
  <2>2. /\ w \in SentWrite /\ w.stage = "written" /\ w # NoWrite /\ page = "settings"
        /\ WriteFits(w)
    BY <2>1, WriteByStage DEF SetData, NoWrite, PlTypeOK, WritesFit
  <2>3. /\ w.target \in Targets /\ w.version \in Nat /\ target # NoTarget /\ w.target = target
        /\ saved[target] \in Nat /\ saved[target] <= w.version /\ w.version <= version[target]
    BY <2>2 DEF SentWrite, WriteFits, PlTypeOK
  <2>4. /\ data' = [target |-> w.target, version |-> w.version, late |-> FALSE]
        /\ saved' = [saved EXCEPT ![w.target] = IF w.version > @ THEN w.version ELSE @]
        /\ writes' = [writes EXCEPT ![o] = NoWrite]
        /\ reads' = [r \in Reads |-> Overtaken(reads[r])] /\ effect' = Overtaken(effect)
        /\ UNCHANGED <<page, target, failed, version>>
    BY <2>1 DEF SetData, SetWrite, Confirm, OvertakeReads, WrittenData
  <2>5. \A x \in Read : Overtaken(x) \in Read /\ ReadFits(Overtaken(x), target, saved', writes')
    BY <2>3, OvertakenRead
  <2>6. effect' \in Read /\ effect'.target = effect.target /\ (effect' = NoRead <=> effect = NoRead)
    <3>1. effect \in Read /\ effect' = Overtaken(effect)
      BY <2>4 DEF PlTypeOK
    <3> HIDE DEF w
    <3> QED BY <2>3, <3>1, OvertakenRead
  <2>7. data' \in Data /\ data'.target = target /\ data'.version = w.version /\ data' # Nothing
    BY <2>3, <2>4 DEF Data, Nothing
  <2>8. saved' \in [Targets -> Nat] /\ saved'[target] = w.version
        /\ \A u \in Targets : saved'[u] <= version[u]
    BY <2>3, <2>4 DEF PlTypeOK, WritesFit
  <2>9. \A x \in Writes : writes'[x] = NoWrite
    BY <2>2, <2>4 DEF PlTypeOK, WritesFit, OneAtATime
  <2> HIDE DEF w
  <2>10. PlTypeOK'
    <3>1. writes' \in [Writes -> OneWrite]
      BY <2>4 DEF PlTypeOK, OneWrite
    <3> QED BY <2>4, <2>5, <2>6, <2>7, <2>8, <3>1 DEF PlTypeOK
  <2>11. ReadsFit'
    <3>1. \A r \in Reads : ReadFits(reads'[r], target, saved', writes')
      BY <2>4, <2>5 DEF PlTypeOK
    <3>2. ReadFits(effect', target, saved', writes')
      BY <2>4, <2>5 DEF PlTypeOK
    <3>3. \A x \in Writes : writes'[x].stage # "reloading"
      BY <2>9 DEF NoWrite
    <3>4. (effect # NoRead => effect.target = target) /\ target' = target
      BY <2>4 DEF ReadsFit
    <3> QED BY <2>6, <3>1, <3>2, <3>3, <3>4 DEF ReadsFit
  <2>12. WritesFit'
    BY <2>4, <2>8, <2>9 DEF WritesFit, WriteFits, OneAtATime, NoWrite
  <2>13. ShownIsCurrentOrRacing' /\ Opened'
    BY <2>3, <2>4, <2>7 DEF Opened, ShownIsCurrentOrRacing
  <2>14. OwnWriteStays'
    BY <2>3, <2>7, <2>8 DEF OwnWriteStays
  <2> QED BY <2>10, <2>11, <2>12, <2>13, <2>14
<1>13. CASE \E o \in Writes : ReloadRead(o)
  <2>1. PICK o \in Writes : ReloadRead(o)
    BY <1>13
  <2> DEFINE w == writes[o]
             t == w.target
             x == w.read
  <2>2. w \in ReloadWrite /\ w.stage = "reloading" /\ w # NoWrite /\ WriteFits(w)
    BY <2>1, WriteByStage DEF ReloadRead, NoWrite, PlTypeOK, WritesFit
  <2>3. /\ t \in Targets /\ w.version \in Nat /\ x \in RunningRead /\ x.target = t
        /\ ReadFits(x, target, saved, writes) /\ target # NoTarget /\ x # NoRead
        /\ w.version <= version[t]
    BY <2>2, ReadByStage DEF ReloadWrite, ReadsFit, WriteFits, Read
  <2>4. UNCHANGED <<page, target, effect, reads, version>>
    BY <2>1 DEF ReloadRead
  <2>5. CASE x.stage = "sent"
    <3> DEFINE v == [w EXCEPT !.read = Answered(x)]
    <3>1. writes' = [writes EXCEPT ![o] = v] /\ UNCHANGED <<data, failed, saved>>
      BY <2>1, <2>5 DEF ReloadRead, SetWrite
    <3>2. /\ Answered(x) \in RunningRead /\ Answered(x).target = t
          /\ ReadFits(Answered(x), target, saved, writes)
      BY <2>3, AnsweredRead
    <3>3. /\ v \in ReloadWrite /\ v.read = Answered(x) /\ v.target = t
          /\ v.version = w.version /\ v.stage = "reloading"
      BY <2>2, <3>2 DEF ReloadWrite
    <3>4. writes'[o] = v /\ \A y \in Writes \ {o} : writes'[y] = writes[y]
      BY <3>1 DEF PlTypeOK
    <3>5. writes' \in [Writes -> OneWrite]
      BY <3>1, <3>3 DEF PlTypeOK, OneWrite
    <3> HIDE DEF v, x
    <3>6. \A y \in Writes : writes'[y].stage = "reloading" =>
            /\ writes[y].stage = "reloading" /\ writes'[y].target = writes[y].target
            /\ writes'[y].version = writes[y].version
      BY <2>2, <3>3, <3>4
    <3>7. \A y : ReadFits(y, target, saved, writes) => ReadFits(y, target, saved, writes')
      BY <3>6, WritesApart
    <3>8. PlTypeOK'
      BY <2>4, <3>1, <3>5 DEF PlTypeOK
    <3>9. ReadsFit'
      BY <2>4, <3>1, <3>2, <3>3, <3>4, <3>7 DEF ReadsFit
    <3>10. WriteFits(writes[o])' /\ writes'[o] # NoWrite
      BY <2>2, <2>4, <3>1, <3>3, <3>4 DEF WriteFits, NoWrite
    <3>11. WritesFit'
      BY <2>2, <2>4, <3>1, <3>4, <3>10 DEF WritesFit, WriteFits, OneAtATime
    <3> QED BY <2>4, <3>1, <3>8, <3>9, <3>11 DEF Opened, ShownIsCurrentOrRacing, OwnWriteStays
  <2>6. CASE x.stage = "answered"
    <3>1. /\ writes' = [writes EXCEPT ![o] = NoWrite] /\ Settle(x)
          /\ saved' = [saved EXCEPT ![t] = IF w.version > @ THEN w.version ELSE @]
      BY <2>1, <2>6 DEF ReloadRead, SetWrite, Confirm
    <3>2. /\ saved' \in [Targets -> Nat] /\ saved'[t] \in {saved[t], w.version}
          /\ \A u \in Targets : u # t => saved'[u] = saved[u]
      BY <2>3, <3>1 DEF PlTypeOK
    <3>3. writes'[o] = NoWrite /\ \A y \in Writes \ {o} : writes'[y] = writes[y]
      BY <3>1 DEF PlTypeOK
    <3>4. writes' \in [Writes -> OneWrite]
      BY <3>1 DEF PlTypeOK, OneWrite
    <3>5. ASSUME NEW y \in Read, ReadFits(y, target, saved, writes)
          PROVE  ReadFits(y, target, saved', writes')
      <4>1. CASE y = NoRead
        BY <4>1 DEF ReadFits
      <4>2. CASE y # NoRead
        <5>1. y.target \in Targets
          BY <4>2 DEF Read, RunningRead
        <5>2. y.stage = "answered" /\ ~y.late => saved'[y.target] <= y.version
          BY <2>2, <3>2, <3>5, <4>2, <5>1 DEF ReadFits
        <5>3. \A z \in Writes : writes'[z].stage = "reloading" => writes'[z] = writes[z]
          BY <3>3 DEF NoWrite
        <5> QED BY <3>5, <4>2, <5>2, <5>3 DEF ReadFits
      <4> QED BY <4>1, <4>2
    <3>6. /\ data' \in Data /\ failed' = FALSE /\ OwnWriteStays' /\ ShownIsCurrentOrRacing'
      <4>1. ReadFits(x, target, saved', writes')
        BY <2>3, <3>5 DEF Read
      <4> HIDE DEF x
      <4> QED BY <2>3, <2>4, <2>6, <3>1, <3>2, <4>1, SettledData
    <3> HIDE DEF x
    <3>7. PlTypeOK'
      BY <2>4, <3>2, <3>4, <3>6 DEF PlTypeOK
    <3>8. ReadsFit'
      <4>1. \A y \in Writes : writes'[y].stage = "reloading" =>
              writes'[y] = writes[y] /\ writes[y].read \in Read
        BY <3>3, WriteByStage DEF NoWrite, PlTypeOK, ReloadWrite, Read
      <4> QED BY <2>4, <3>5, <4>1 DEF ReadsFit, PlTypeOK
    <3>9. WritesFit'
      <4>1. \A u \in Targets : saved'[u] <= version'[u]
        BY <2>3, <2>4, <3>2 DEF WritesFit
      <4>2. WriteFits(writes[o])'
        BY <3>3 DEF WriteFits, NoWrite
      <4>3. \A y \in Writes \ {o} : WriteFits(writes[y])'
        <5> SUFFICES ASSUME NEW y \in Writes \ {o} PROVE WriteFits(writes[y])'
          OBVIOUS
        <5>1. WriteFits(writes[y]) /\ writes'[y] = writes[y]
          BY <3>3 DEF WritesFit
        <5>2. page # "list" => writes[y] = NoWrite
          BY <2>2 DEF WritesFit, OneAtATime
        <5> QED BY <2>4, <5>1, <5>2 DEF WriteFits, NoWrite
      <4>4. OneAtATime'
        BY <2>4, <3>3 DEF WritesFit, OneAtATime
      <4> QED BY <4>1, <4>2, <4>3, <4>4 DEF WritesFit
    <3> QED BY <2>3, <2>4, <3>6, <3>7, <3>8, <3>9 DEF Opened
  <2> QED BY <2>1, <2>5, <2>6 DEF ReloadRead
<1>14. CASE \E o \in Writes : ReloadFails(o)
  <2>1. PICK o \in Writes : ReloadFails(o)
    BY <1>14
  <2>2. /\ SetWrite(o, NoWrite) /\ failed' = TRUE /\ writes[o] # NoWrite
        /\ UNCHANGED <<page, target, data, effect, reads, version, saved>>
    BY <2>1 DEF ReloadFails, SettleFailed, NoWrite
  <2>3. target # NoTarget
    BY <2>2 DEF WritesFit, WriteFits
  <2>4. version' \in [Targets -> Nat] /\ \A t \in Targets : version[t] <= version'[t]
    BY <2>2 DEF PlTypeOK
  <2>5. NoWrite.stage # "written"
    BY DEF NoWrite
  <2> QED BY <2>2, <2>3, <2>4, <2>5, WriteGoesOn
<1>15. CASE UNCHANGED plVars
  BY <1>15 DEF plVars, PlTypeOK, ReadsFit, WritesFit, WriteFits, OneAtATime, Opened,
     ShownIsCurrentOrRacing, OwnWriteStays
<1> QED
  BY PollingActions, <1>1, <1>2, <1>3, <1>4, <1>5, <1>6, <1>7, <1>8, <1>9, <1>10, <1>11, <1>12, <1>13,
     <1>14, <1>15

LEMMA PollingInit == PlInit => PollingInvariant
<1> SUFFICES ASSUME PlInit PROVE PollingInvariant
  OBVIOUS
<1>1. PlTypeOK
  BY DEF PlInit, PlTypeOK, Data, Read, OneWrite
<1>2. ReadsFit
  BY DEF PlInit, ReadsFit, ReadFits, NoWrite
<1>3. WritesFit
  BY DEF PlInit, WritesFit, WriteFits, OneAtATime, NoWrite
<1>4. Opened /\ ShownIsCurrentOrRacing /\ OwnWriteStays
  BY DEF PlInit, Opened, ShownIsCurrentOrRacing, OwnWriteStays, Nothing
<1> QED BY <1>1, <1>2, <1>3, <1>4 DEF PollingInvariant

\* The reads under way and the write of a page stay as PollingInvariant says in
\* every state.
THEOREM PollingInvariantHolds == PlSpec => []PollingInvariant
<1> QED BY PollingInit, PollingStep, PTL DEF PlSpec

\* A screen that has loaded without an error shows what its address names, unless
\* a late read brought the former target back.
THEOREM ScreensShowTheirTarget == PlSpec => []ShownIsCurrentOrRacing
<1>1. PollingInvariant => ShownIsCurrentOrRacing
  BY DEF PollingInvariant
<1> QED BY PollingInvariantHolds, <1>1, PTL

\* After a write was read back the page does not show the state before it, unless
\* a read from before the reload brought it back.
THEOREM OwnWritesAreShown == PlSpec => []OwnWriteStays
<1>1. PollingInvariant => OwnWriteStays
  BY DEF PollingInvariant
<1> QED BY PollingInvariantHolds, <1>1, PTL
=============================================================================
