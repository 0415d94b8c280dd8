----------------------------- MODULE HttpCheck ------------------------------
(***************************************************************************)
(* One outbound check (monitoring/httpCheck.ts) behind the target guard    *)
(* (monitoring/urlGuard.ts): shape of the URL, resolution, one pinned      *)
(* connection, response headers, bounded drain of the body.                *)
(*                                                                         *)
(* The resolver, the network and the monitored site are the environment:   *)
(* DNS answers change at any time, the connection or the request fails     *)
(* with any chain of error codes, the body comes in chunks of any size and *)
(* with any delay.  Time is counted in ticks; the budget timer of the      *)
(* check is punctual, that is, the event loop is not blocked for a tick.   *)
(***************************************************************************)
EXTENDS IpRanges

CONSTANTS
    Urls,          \* URLs: [parses, protocol, credentials, port, host, literal]
    DnsAnswers,    \* what the resolver may answer: sets of addresses, {} for none
    ErrorChains,   \* error chains: [refused, codes]
    Statuses,      \* response status codes
    Chunks,        \* sizes of body chunks
    MaxBytes,      \* maxResponseBytes
    Budget,        \* timeoutMs, in ticks
    MaxResolve     \* bound on the ticks one resolution takes

ASSUME BudgetAssumption ==
    Budget \in Nat \ {0} /\ MaxBytes \in Nat \ {0} /\ MaxResolve \in Nat /\ Chunks \subseteq Nat

\* The URL parser yields the octets of an IPv4 host or a well-formed IPv6 text, and
\* the resolver yields addresses.
ASSUME AddressAssumption ==
    /\ \A u \in Urls : u.host = "literal" =>
          \/ u.literal.octets \in IPv4Address
          \/ u.literal.octets = <<>> /\ IsIPv6(u.literal.text)
    /\ DnsAnswers \subseteq SUBSET Address

NoAddress == <<>>
NoVerdict == [outcome |-> "none"]

VARIABLES
    dns,        \* what the resolver answers now (it may change before each use)
    url,        \* the URL being checked
    phase,      \* idle, resolving, connecting, waiting (for headers), draining, done
    approved,   \* approval.addresses
    peer,       \* the address the socket is connected to
    elapsed,    \* ticks since startedAt
    armedAt,    \* when the budget timer was armed
    response,   \* [status, time] once the headers are there
    seen,       \* bytes of the body received
    verdict     \* the result of runHttpCheck

hcVars == <<dns, url, phase, approved, peer, elapsed, armedAt, response, seen, verdict>>

-----------------------------------------------------------------------------
(* The guard.                                                               *)

ALLOWED_PROTOCOLS == {"http:", "https:"}
DEFAULT_PORTS == [p \in ALLOWED_PROTOCOLS |-> IF p = "http:" THEN 80 ELSE 443]

\* A host is a literal address or a name; a name is one of the blocked names,
\* ends in a blocked suffix, has no dot, or is an ordinary public name ("name").
BlockedNames == {"exact", "suffix", "dotless"}
IsLiteral(u) == u.host = "literal"

\* The address a literal host spells: its octets, or the groups it expands to.
LiteralAddress(u) ==
    IF u.literal.octets # <<>> THEN u.literal.octets ELSE expandIPv6(u.literal.text)

\* checkShape: the first rule the URL breaks.  port 0 stands for an URL without one.
checkShape(u) ==
    LET rules ==
          << <<"invalid_url",        ~u.parses>>,
             <<"unsupported_scheme", u.protocol \notin ALLOWED_PROTOCOLS>>,
             <<"credentials_in_url", u.credentials>>,
             <<"non_standard_port",  u.port # 0 /\ u.protocol \in ALLOWED_PROTOCOLS
                                        /\ u.port # DEFAULT_PORTS[u.protocol]>>,
             <<"internal_hostname",  u.host \in BlockedNames>>,
             <<"blocked_address",    IsLiteral(u) /\ ~isPubliclyRoutable(LiteralAddress(u))>> >>
        broken == SelectSeq(rules, LAMBDA r : r[2])
    IN  IF broken = <<>> THEN "ok" ELSE Head(broken)[1]

GUARD_CODE_TO_FAILURE(code) ==
    CASE code \in {"internal_hostname", "blocked_address"} -> "BLOCKED_ADDRESS"
      [] code = "dns_failure" -> "DNS_ERROR"
      [] OTHER -> "INVALID_URL"

\* A single answer that is not public refuses the whole host.
\* mutant: one public answer approves it.
checkAnyAnswer(answers) ==
    IF answers = {} THEN "dns_failure"
    ELSE IF \A a \in answers : ~isPubliclyRoutable(a) THEN "blocked_address" ELSE "ok"
checkAnswers(answers) ==
    IF answers = {} THEN "dns_failure"
    ELSE IF \E a \in answers : ~isPubliclyRoutable(a) THEN "blocked_address" ELSE "ok"

Family(a) == IF IsIPv4(a) THEN 4 ELSE 6

\* The lookup the socket is given: it never asks the resolver again.
pinnedLookup(addresses, family) ==
    IF family \in {4, 6} THEN { a \in addresses : Family(a) = family } ELSE addresses

-----------------------------------------------------------------------------
(* Verdicts.                                                                *)

Down(kind, status) == [outcome |-> "DOWN", kind |-> kind, status |-> status, at |-> elapsed]

\* The codes of a chain are listed by the set they belong to; the first one
\* that belongs to a set decides.
classifyTransportError(chain) ==
    LET known == SelectSeq(chain.codes,
                     LAMBDA c : c \in {"TIMEOUT", "TLS_ERROR", "DNS_ERROR", "CONNECTION_ERROR"})
    IN  IF chain.refused THEN "BLOCKED_ADDRESS"
        ELSE IF known = <<>> THEN "UNKNOWN_ERROR" ELSE Head(known)

StatusVerdict(status) ==
    CASE status \in 200..299 -> [outcome |-> "UP", kind |-> "none", status |-> status, at |-> elapsed]
      [] status \in 300..399 -> Down("REDIRECT", status)
      [] OTHER -> Down("HTTP_ERROR", status)

\* Every return of runHttpCheck; the finally block clears the timer and closes the socket.
Conclude(v) ==
    /\ phase' = "done" /\ verdict' = v /\ armedAt' = -1
    /\ UNCHANGED <<dns, url, approved, peer, elapsed, response>>
Return(v) == Conclude(v) /\ UNCHANGED seen

-----------------------------------------------------------------------------
HcInit ==
    /\ dns = {} /\ url = [host |-> "none"] /\ phase = "idle"
    /\ approved = {} /\ peer = NoAddress
    /\ elapsed = 0 /\ armedAt = -1 /\ response = [status |-> 0, time |-> 0]
    /\ seen = 0 /\ verdict = NoVerdict

\* runHttpCheck is called; guard.check refuses by shape or starts to resolve.
Check(u) ==
    /\ phase = "idle"
    /\ url' = u
    /\ LET code == checkShape(u)
       IN  IF code = "ok"
           THEN phase' = "resolving" /\ UNCHANGED verdict
           ELSE phase' = "done" /\ verdict' = Down(GUARD_CODE_TO_FAILURE(code), 0)
    /\ UNCHANGED <<dns, approved, peer, elapsed, armedAt, response, seen>>

\* A literal address is its own answer and is never resolved.
Answers == IF IsLiteral(url) THEN {LiteralAddress(url)} ELSE dns

\* The resolver answers: the guard judges every address and the budget timer starts.
Resolved ==
    /\ phase = "resolving"
    /\ LET code == checkAnswers(Answers)
       IN  IF code = "ok"
           THEN /\ phase' = "connecting" /\ approved' = Answers /\ armedAt' = elapsed
                /\ UNCHANGED <<dns, url, peer, elapsed, response, seen, verdict>>
           ELSE Return(Down(GUARD_CODE_TO_FAILURE(code), 0))

ResolutionFails ==
    /\ phase = "resolving" /\ ~IsLiteral(url)
    /\ Return(Down("DNS_ERROR", 0))

\* The socket connects to one of the addresses the pinned lookup gives for the
\* family it asks (0: any).
Connect(family) ==
    /\ phase = "connecting"
    /\ \E a \in pinnedLookup(approved, family) : peer' = a
    /\ phase' = "waiting"
    /\ UNCHANGED <<dns, url, approved, elapsed, armedAt, response, seen, verdict>>

\* client.request rejects before the headers, the budget not being spent.
RequestFails(chain) ==
    /\ phase \in {"connecting", "waiting"}
    /\ chain.refused => pinnedLookup(approved, 4) = {} \/ pinnedLookup(approved, 6) = {}
    /\ Return(Down(classifyTransportError(chain), 0))

Headers(status) ==
    /\ phase = "waiting"
    /\ response' = [status |-> status, time |-> elapsed]
    /\ phase' = "draining"
    /\ UNCHANGED <<dns, url, approved, peer, elapsed, armedAt, seen, verdict>>

TooLargeBefore(n) == seen > MaxBytes  \* mutant: compared before the chunk is added
TooLarge(n) == seen + n > MaxBytes

\* A chunk arrives.  Past the cap drainBounded destroys the body, or undici's own
\* maxResponseSize has already failed it with the code that is told apart.
Chunk(n) ==
    /\ phase = "draining"
    /\ seen' = seen + n
    /\ IF TooLarge(n)
       THEN Conclude(Down("RESPONSE_TOO_LARGE", response.status))
       ELSE UNCHANGED <<dns, url, phase, approved, peer, elapsed, armedAt, response, verdict>>

\* The body ends, or fails midway: the status line decides either way.
BodyEnds ==
    /\ phase = "draining"
    /\ Return(StatusVerdict(response.status))

\* mutant: the timer is cleared once the headers are there.
BudgetForHeaders ==
    /\ phase # "draining" /\ armedAt # -1 /\ elapsed = armedAt + Budget
    /\ Return(Down("TIMEOUT", 0))

\* The budget timer aborts the request: before the headers the check times out,
\* after them the abort only ends the drain.
BudgetSpent ==
    /\ armedAt # -1 /\ elapsed = armedAt + Budget
    /\ Return(IF phase = "draining" THEN StatusVerdict(response.status) ELSE Down("TIMEOUT", 0))

\* A tick passes; never past the moment an armed timer is due.
TimePasses ==
    /\ phase \notin {"idle", "done"}
    /\ phase = "resolving" => ~IsLiteral(url) /\ elapsed < MaxResolve
    /\ armedAt # -1 => elapsed < armedAt + Budget
    /\ elapsed' = elapsed + 1
    /\ UNCHANGED <<dns, url, phase, approved, peer, armedAt, response, seen, verdict>>

\* The records of the host change.
Rebind ==
    /\ phase \notin {"idle", "done"} /\ ~IsLiteral(url)
    /\ dns' \in DnsAnswers
    /\ UNCHANGED <<url, phase, approved, peer, elapsed, armedAt, response, seen, verdict>>

HcNext ==
    \/ phase = "idle" /\ \E u \in Urls : Check(u)
    \/ Resolved
    \/ ResolutionFails
    \/ \E family \in {0, 4, 6} : Connect(family)
    \/ \E chain \in ErrorChains : RequestFails(chain)
    \/ \E status \in Statuses : Headers(status)
    \/ \E n \in Chunks : Chunk(n)
    \/ BodyEnds
    \/ BudgetSpent
    \/ TimePasses
    \/ Rebind

HcSpec == HcInit /\ [][HcNext]_hcVars

\* Time passes, the timer fires and the resolver settles.  Nothing is assumed
\* of the monitored site.
HcFairness ==
    /\ WF_hcVars(TimePasses)
    /\ WF_hcVars(BudgetSpent)
    /\ WF_hcVars(Resolved \/ ResolutionFails)

-----------------------------------------------------------------------------
(* Properties.                                                              *)

\* urlGuard.ts:12-20: whatever the resolver answers later, the socket only
\* reaches an address that was vetted with all the others of its answer, and
\* none of those is private, in whatever family it is written.
SocketReachesVettedAddress ==
    peer # NoAddress =>
        /\ peer \in approved
        /\ \A a \in approved, range \in ReservedRanges : ~Between(a, range)
        /\ IsLiteral(url) => \/ url.literal.octets = peer
                             \/ ~IsIPv4(peer) /\ url.literal.text \in Spellings(peer)

\* httpCheck.ts:170-250: an UP verdict and the verdicts that carry a status code
\* rest on headers that a vetted peer sent, and among them exactly those of a
\* body that went past the cap say so; and every verdict is there within the
\* budget once the target was resolved, however the site trickles its body (the
\* timer is armed after the resolution: the time the resolver takes comes on top).
VerdictRestsOnAnswer ==
    verdict # NoVerdict =>
        /\ verdict.outcome = "UP" \/ verdict.status # 0 =>
               /\ peer # NoAddress
               /\ verdict.status = response.status
               /\ seen > MaxBytes <=> verdict.kind = "RESPONSE_TOO_LARGE"
        /\ verdict.outcome = "UP" => response.status \in 200..299
        /\ verdict.at <= MaxResolve + Budget

\* httpCheck.ts:195-196: a check ends whatever the site does, so that it cannot
\* hold its worker slot.
EveryCheckEnds == [](phase # "idle" => <>(phase = "done"))
=============================================================================
