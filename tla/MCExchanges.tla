----------------------------- MODULE MCExchanges -----------------------------
(* Exchanges over the network: instances of HttpCheck, WebSession and Polling *)
(* for TLC.  The parts share nothing; a behaviour runs one of them.           *)
EXTENDS HttpCheck, WebSession, Polling, FiniteSets

CONSTANT MaxInFlight   \* bound on the calls of two tabs under way at once

VARIABLE part
  \* "check": one HTTP check; "tab" and "tabs": one or two tabs; "page": a page.

-----------------------------------------------------------------------------
(* The edges of every reserved range, and the addresses next to them.         *)

Before(a) ==
  LET k == CHOOSE k \in 1..Len(a) : \A i \in 1..Len(a) : (i > k => a[i] = 0) /\ (i = k => a[i] # 0)
      top == 2 ^ PartBits(a) - 1
  IN  IF \A i \in 1..Len(a) : a[i] = 0 THEN a
      ELSE [i \in 1..Len(a) |-> IF i < k THEN a[i] ELSE IF i = k THEN a[i] - 1 ELSE top]

After(a) ==
  LET top == 2 ^ PartBits(a) - 1
      k == CHOOSE k \in 1..Len(a) : \A i \in 1..Len(a) : (i > k => a[i] = top) /\ (i = k => a[i] # top)
  IN  IF \A i \in 1..Len(a) : a[i] = top THEN a
      ELSE [i \in 1..Len(a) |-> IF i < k THEN a[i] ELSE IF i = k THEN a[i] + 1 ELSE 0]

Edges ==
  UNION {{r[1], LastOf(r), Before(r[1]), After(LastOf(r))} : r \in ReservedRanges}
    \cup {V6(<<8194, 2056, 2056>>, <<>>), V6(<<>>, <<65535, 2570, 1>>), V6(<<9734, 10240>>, <<1>>)}

NoText == [head |-> <<>>, tail |-> <<>>, elided |-> FALSE, dotted |-> <<>>]
NoLiteral == [octets |-> <<>>, text |-> NoText]

\* Public IPv6 addresses in one spelling, the others in all of them.
Texts(a) == IF isPubliclyRoutable(a) THEN {CHOOSE t \in Spellings(a) : TRUE} ELSE Spellings(a)

Literals ==
  {[octets |-> a, text |-> NoText] : a \in {e \in Edges : IsIPv4(e)}}
    \cup {[octets |-> <<>>, text |-> t] : t \in UNION {Texts(e) : e \in {e \in Edges : ~IsIPv4(e)}}}

Url(parses, protocol, credentials, port, host) ==
  [parses |-> parses, protocol |-> protocol, credentials |-> credentials, port |-> port,
   host |-> host, literal |-> NoLiteral]

MCUrls ==
  {Url(TRUE, p, c, port, h) : p \in {"http:", "https:", "ftp:"}, c \in BOOLEAN,
                              port \in {0, 80, 8080}, h \in {"name", "suffix"}}
    \cup {Url(FALSE, "https:", FALSE, 0, "name")}
    \cup {Url(TRUE, "http:", FALSE, 0, h) : h \in {"exact", "dotless"}}
    \cup {[Url(TRUE, "https:", FALSE, 0, "literal") EXCEPT !.literal = l] : l \in Literals}

Public4 == <<93, 184, 216, 34>>
Public6 == V6(<<9734, 10240>>, <<1>>)

\* No answer, one or two public addresses, a private one among them, a private one
\* written as IPv4-mapped IPv6.
MCDnsAnswers ==
  {{}, {Public4}, {Public4, Public6}, {Public4, <<10, 0, 0, 1>>},
   {V6(<<>>, <<65535, 23736, 55330>>)}}

MCErrorChains ==
  {[refused |-> TRUE, codes |-> <<>>]} \cup
  {[refused |-> FALSE, codes |-> c] : c \in
     {<<"other">>, <<"other", "TLS_ERROR", "CONNECTION_ERROR">>, <<"TIMEOUT">>,
      <<"DNS_ERROR">>, <<"CONNECTION_ERROR">>}}

-----------------------------------------------------------------------------
InFlight == {call \in Tabs \X Kinds : calls[call[1]][call[2]] # NoCall}
Confirming == {t \in Tabs : calls[t]["write"] # NoCall /\ calls[t]["write"].op = "verify"}
FirstTab == CHOOSE t \in Tabs : TRUE

\* One tab does all there is to do; two tabs sign in and out.
BrowserStep ==
  /\ WsNext
  /\ part = "tab" => \A t \in Tabs : tab'[t] # Closed => t = FirstTab
  /\ part = "tabs" =>
       /\ Cardinality(InFlight') <= MaxInFlight
       /\ spent'.ends = 0
       /\ Confirming' = {}

-----------------------------------------------------------------------------
FirstTarget == CHOOSE t \in Targets : TRUE
FirstWrite == CHOOSE o \in Writes : TRUE

\* The first target changes, twice on a list; a page of one target shows it; and two
\* writes of a list are told apart by which began first, and meet no failed read.
PageStep ==
  /\ PlNext
  /\ \A t \in Targets \ {FirstTarget} : version'[t] = 0 /\ (target' = t => page = "detail")
  /\ page = "detail" => version'[FirstTarget] <= 1
  /\ \A o \in Writes \ {FirstWrite} :
       /\ writes[o] = NoWrite /\ writes'[o] # NoWrite => writes[FirstWrite] # NoWrite
       /\ writes'[o] # NoWrite => used'.failures = 0

-----------------------------------------------------------------------------
MCInit ==
  /\ part \in {"check", "tab", "tabs", "page"}
  /\ HcInit /\ WsInit /\ PlInit
  /\ part # "page" => page = "list"

MCNext ==
  /\ UNCHANGED part
  /\ \/ part = "check" /\ HcNext /\ UNCHANGED <<wsVars, plVars>>
     \/ part \in {"tab", "tabs"} /\ BrowserStep /\ UNCHANGED <<hcVars, plVars>>
     \/ part = "page" /\ PageStep /\ UNCHANGED <<hcVars, wsVars>>

MCSpec ==
  /\ MCInit /\ [][MCNext]_<<part, hcVars, wsVars, plVars>>
  /\ HcFairness /\ WsFairness /\ PlFairness
=============================================================================
