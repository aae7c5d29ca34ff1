---------------------------- MODULE HostnameLookup ----------------------------
(***************************************************************************)
(* MuteNet::HostnameLookup, IPLookup and TCPLinkImpl::Connect: what a name  *)
(* or an address is resolved to, and the callbacks that tell of it.         *)
(*                                                                          *)
(* A lookup runs on a thread of std::async whose future is destroyed at     *)
(* once, so the caller waits for it; what a callback throws stays in the    *)
(* future.  A step is one callback.  The resolver is external: it fails, or *)
(* answers a list of addresses of some families.                            *)
(*                                                                          *)
(* An address as text is a sequence of symbols: brackets, colon, percent    *)
(* sign, "h" for the digit 1, "m" and "b" for the digits of 65535, the last *)
(* port, and 65536, "d" for the dotted quad 255.0.0.255, which no digit can *)
(* join, and "x" for text of no meaning here (no network interface is named *)
(* by any of them).  So a text has no sign and no leading zero or space.    *)
(*                                                                          *)
(* The parser copies an address into 128 bytes and refuses one that does    *)
(* not fit, which only a zone of a hundred digits or so could be; this      *)
(* limit is left out.                                                       *)
(***************************************************************************)
EXTENDS Integers, Sequences, FiniteSets

CONSTANTS MaxAddresses,  \* bound on the addresses of a name
          MaxText        \* bound on the symbols of a text

ASSUME MaxAddressesAssumption == MaxAddresses \in Nat
ASSUME MaxTextAssumption == MaxText \in Nat

VARIABLES asked,         \* what the caller asks for
          caller,        \* where it is
          text,          \* the address whose name is asked for
          lookup,        \* where the thread is
          rest,          \* the addresses from Addr on
          Resolved,
          isConnecting,  \* DomainCallbacks::_isConnecting
          connects,      \* history: the calls of SocketDescriptorHelper::Connect
          calls,         \* history: the callbacks, in order
          usable,        \* history: the answer had an address of a known family
          threw          \* history: a callback has thrown

lookupVars == <<asked, caller, text, lookup, rest, Resolved, isConnecting, connects, calls,
                usable, threw>>

Families == {"v4", "v6", "other"}
Upto(max, S) == UNION {[1..n -> S] : n \in 0..max}

LookupInit == /\ asked = "nothing" /\ caller = "calling" /\ text = <<>>
              /\ lookup = "none" /\ rest = <<>>
              /\ Resolved = FALSE /\ isConnecting = FALSE /\ connects = 0
              /\ calls = <<>> /\ usable = FALSE /\ threw = FALSE

-------------------------------------------------------------------------------
(* SocketDescriptorHelper::ParseSockaddrPort.                                *)

Digits == {"h", "m", "b"}
Symbols == Digits \cup {"[", "]", ":", "%", "d", "x"}

Has(s, c) == \E i \in 1..Len(s) : s[i] = c
Twice(s, c) == \E i, j \in 1..Len(s) : i < j /\ s[i] = c /\ s[j] = c
Found(s, c, i) == s[i] = c /\ \A j \in 1..(i - 1) : s[j] # c
Until(s, i) == SubSeq(s, 1, i - 1)
From(s, i) == SubSeq(s, i, Len(s))

\* inet_pton: eight groups of one to four digits, the quad standing for two, or
\* fewer and one run of zeroes left out.
V4(s) == s = <<"d">>

Gap(s, i) == s[i] = ":" /\ s[i + 1] = ":"
Groups(s) == LET starts == {i \in 1..Len(s) : s[i] = "h" /\ (i = 1 \/ s[i - 1] = ":")}
             IN  Cardinality(starts) + (IF s[Len(s)] = "d" THEN 2 ELSE 0)

V6(s) == LET n == Len(s)
             gaps == {i \in 1..(n - 1) : Gap(s, i)}
         IN  /\ n >= 2
             /\ \A i \in 1..n : s[i] \in {"h", ":"} \/ (s[i] = "d" /\ i = n /\ s[n - 1] = ":")
             /\ \A i \in 1..(n - 4) : \E j \in i..(i + 4) : s[j] # "h"
             /\ s[1] = ":" => Gap(s, 1)
             /\ s[n] = ":" => Gap(s, n - 1)
             /\ \/ gaps = {} /\ Groups(s) = 8
                \/ \E i \in gaps : gaps = {i} /\ Groups(s) <= 7

\* InetPtonScope: the zone after a percent sign is a number, which an empty one
\* counts as.
V6Scope(s) == \/ ~Has(s, "%") /\ V6(s)
              \/ \E i \in 1..Len(s) : /\ Found(s, "%", i)
                                      /\ V6(Until(s, i))
                                      /\ \A j \in (i + 1)..Len(s) : s[j] \in Digits

\* n ones; the last number stands for itself and every larger one.
Ones(n) == IF n \in 1..5 THEN <<1, 11, 111, 1111, 11111>>[n] ELSE IF n = 0 THEN 0 ELSE 111111

\* What atoi reads of a text that begins with n symbols of digits, and then the
\* 255 of a quad if one follows; 65536 stands for every larger number as well.
\* Of those that overflow an int or a long none is read as a port, in whichever
\* way they wrap or saturate.
Atoi(s, n) ==
    LET quad == n < Len(s) /\ s[n + 1] = "d" IN
    IF \A i \in 1..n : s[i] = "h" THEN IF quad THEN 1000 * Ones(n) + 255 ELSE Ones(n)
    ELSE IF n = 1 /\ s[1] = "m" /\ ~quad THEN 65535
    ELSE 65536

\* (Mutant: the upper bound not tested.)
PortUnbounded(s) == \E n \in 0..Len(s) :
                       /\ \A i \in 1..n : s[i] \in Digits
                       /\ n < Len(s) => s[n + 1] \notin Digits
                       /\ 0 < Atoi(s, n)

Port(s) == \E n \in 0..Len(s) :
              /\ \A i \in 1..n : s[i] \in Digits
              /\ n < Len(s) => s[n + 1] \notin Digits
              /\ 0 < Atoi(s, n) /\ Atoi(s, n) <= 65535

InBrackets(s) == \E i \in 1..Len(s) :
                    /\ Found(s, "]", i)
                    /\ V6Scope(SubSeq(s, 2, i - 1))
                    /\ i < Len(s) /\ s[i + 1] = ":" => Port(From(s, i + 2))

Opens(s) == s # <<>> /\ s[1] = "["

\* (Mutant: one colon is enough for the text to be an IPv6 address.)
ParseAnyColon(s) ==
    \/ Opens(s) /\ InBrackets(s)
    \/ ~Opens(s) /\ (IF Has(s, ":") THEN V6Scope(s) ELSE V4(s))

ParseSockaddrPort(s) ==
    \/ Opens(s) /\ InBrackets(s)
    \/ ~Opens(s) /\ Twice(s, ":") /\ V6Scope(s)
    \/ /\ ~Opens(s) /\ ~Twice(s, ":")
       /\ \E i \in 1..Len(s) : s[i] = ":" /\ V4(Until(s, i)) /\ Port(From(s, i + 1))
    \/ ~Opens(s) /\ ~Has(s, ":") /\ V4(s)

-------------------------------------------------------------------------------
(* The caller.                                                               *)

\* HostnameToIP, also for TCPLinkImpl::Connect, and IPToHostName.
Ask(what, s) == /\ caller = "calling" /\ caller' = "waiting"
                /\ asked' = what /\ text' = s /\ lookup' = "resolving"
                /\ UNCHANGED <<rest, Resolved, isConnecting, connects, calls, usable, threw>>

\* std::async finds no thread and throws: nobody is called back.
AskThrows == /\ caller = "calling" /\ caller' = "returned"
             /\ UNCHANGED <<asked, text, lookup, rest, Resolved, isConnecting, connects, calls,
                            usable, threw>>

\* (Mutant: a future that does not wait.)
ReturnAtOnce == /\ caller = "waiting"
                /\ caller' = "returned"
                /\ UNCHANGED <<asked, text, lookup, rest, Resolved, isConnecting, connects, calls,
                               usable, threw>>

Return == /\ caller = "waiting" /\ lookup = "done"
          /\ caller' = "returned"
          /\ UNCHANGED <<asked, text, lookup, rest, Resolved, isConnecting, connects, calls,
                         usable, threw>>

-------------------------------------------------------------------------------
(* The lookup.                                                               *)

Ends(callbacks) == calls' = calls \o callbacks /\ lookup' = "done"

ResolveFails == /\ lookup = "resolving" /\ asked # "name"
                /\ Ends(<<"OnError">>)
                /\ UNCHANGED <<asked, caller, text, rest, Resolved, isConnecting, connects, usable,
                               threw>>

Resolve(addresses) ==
    /\ lookup = "resolving" /\ asked # "name" /\ addresses # <<>>
    /\ rest' = addresses /\ lookup' = "walking"
    /\ usable' = \E i \in 1..Len(addresses) : addresses[i] # "other"
    /\ UNCHANGED <<asked, caller, text, Resolved, isConnecting, connects, calls, threw>>

\* DomainCallbacks::Connect, whose SocketDescriptorHelper::Connect answers 0.
\* (Mutant: every address is connected to.)
ConnectEach == /\ connects' = connects + 1
               /\ isConnecting' = TRUE

Connect == /\ connects' = IF isConnecting THEN connects ELSE connects + 1
           /\ isConnecting' = TRUE

Resolves(family) == <<IF family = "v4" THEN "OnNameResolvedIPv4" ELSE "OnNameResolvedIPv6">>

\* (Mutant: an address the callback has taken as it is does not count.)
TakesAddressUncounted == /\ calls' = calls \o Resolves(Head(rest))
                         /\ UNCHANGED Resolved

\* The callback answers false: the address is not to be turned into a string.
TakesAddress == /\ calls' = calls \o Resolves(Head(rest))
                /\ Resolved' = TRUE

TakesString == /\ calls' = calls \o Resolves(Head(rest)) \o <<"OnNameResolved">>
               /\ Resolved' = TRUE

\* One address: a connecting link answers false, others as they like.
Walk == /\ lookup = "walking" /\ rest # <<>> /\ rest' = Tail(rest)
        /\ \/ Head(rest) = "other" /\ UNCHANGED <<Resolved, isConnecting, connects, calls>>
           \/ /\ Head(rest) # "other"
              /\ \/ asked = "connect" /\ Connect /\ TakesAddress
                 \/ /\ asked = "host" /\ UNCHANGED <<isConnecting, connects>>
                    /\ TakesAddress \/ TakesString
        /\ UNCHANGED <<asked, caller, text, lookup, usable, threw>>

WalkEnds == /\ lookup = "walking" /\ rest = <<>>
            /\ Ends(IF Resolved THEN <<"OnFinished">> ELSE <<"OnError">>)
            /\ UNCHANGED <<asked, caller, text, rest, Resolved, isConnecting, connects, usable,
                           threw>>

\* IPLookup: a text that does not parse, or an address without a name, is an error.
ResolveName == /\ lookup = "resolving" /\ asked = "name"
               /\ \/ Ends(<<"OnError">>) /\ UNCHANGED usable
                  \/ /\ ParseSockaddrPort(text)
                     /\ Ends(<<"OnNameResolved", "OnFinished">>)
                     /\ usable' = TRUE
               /\ UNCHANGED <<asked, caller, text, rest, Resolved, isConnecting, connects, threw>>

\* A callback throws out of the lookup; the list of addresses is not freed.
CallbackThrows == /\ lookup \in {"resolving", "walking"}
                  /\ threw' = TRUE /\ lookup' = "done"
                  /\ UNCHANGED <<asked, caller, text, rest, Resolved, isConnecting, connects,
                                 calls, usable>>

LookupNext == \/ Ask("host", <<>>) \/ Ask("connect", <<>>)
              \/ caller = "calling" /\ \E s \in Upto(MaxText, Symbols) : Ask("name", s)
              \/ AskThrows \/ Return
              \/ ResolveFails
              \/ /\ lookup = "resolving"
                 /\ \E addresses \in Upto(MaxAddresses, Families) : Resolve(addresses)
              \/ Walk \/ WalkEnds \/ ResolveName \/ CallbackThrows

LookupSpec == LookupInit /\ [][LookupNext]_lookupVars

-------------------------------------------------------------------------------
LookupTypeOK == /\ asked \in {"nothing", "host", "connect", "name"}
                /\ caller \in {"calling", "waiting", "returned"}
                /\ text \in Seq(Symbols)
                /\ lookup \in {"none", "resolving", "walking", "done"}
                /\ rest \in Seq(Families)
                /\ calls \in Seq({"OnNameResolvedIPv4", "OnNameResolvedIPv6", "OnNameResolved",
                                  "OnFinished", "OnError"})
                /\ connects \in Nat
                /\ Resolved \in BOOLEAN /\ isConnecting \in BOOLEAN
                /\ usable \in BOOLEAN /\ threw \in BOOLEAN

\* A lookup ends with one of OnFinished and OnError, called once and last, and
\* it is OnFinished if and only if there was an address of a known family (or a
\* name), whatever its callbacks answered; unless a callback has thrown.  The
\* caller is back only after that, so a link it gets has heard all of it.
Terminal == {"OnFinished", "OnError"}

EndsOnce ==
    /\ caller = "returned" => lookup \in {"none", "done"}
    /\ \A i \in 1..Len(calls) : calls[i] \in Terminal => i = Len(calls) /\ lookup = "done"
    /\ lookup = "done" /\ ~threw =>
          /\ calls # <<>> /\ calls[Len(calls)] \in Terminal
          /\ (calls[Len(calls)] = "OnFinished") <=> usable

\* A link is connected to one address at most, and to none only if the lookup
\* brought none: the guard on _isConnecting holds over a list of addresses of
\* both families.
ConnectsOnce ==
    /\ connects <= 1
    /\ asked = "connect" /\ lookup = "done" /\ ~threw => (connects = 1 <=> usable)

\* The texts the parser accepts, said another way: a dotted quad with or without
\* a port, an IPv6 address with or without a zone, or one in brackets, followed
\* by a port or by anything that does not begin with a colon.  A port is one to
\* five ones or 65535, not followed by a digit, or at most two ones before a
\* quad, whose 255 is read with them: a number from 1 to 65535, which any other
\* text may follow.
Zone(s) == s # <<>> /\ s[1] = "%" /\ \A i \in 2..Len(s) : s[i] \in Digits

Stops(s, n) == n = Len(s) \/ s[n + 1] \notin Digits \cup {"d"}
AllOnes(s, n) == n <= Len(s) /\ \A i \in 1..n : s[i] = "h"

PortText(s) == \/ \E n \in 1..5 : AllOnes(s, n) /\ Stops(s, n)
               \/ s # <<>> /\ s[1] = "m" /\ Stops(s, 1)
               \/ \E n \in 0..2 : AllOnes(s, n) /\ n < Len(s) /\ s[n + 1] = "d"

Ported(s) == s # <<>> /\ s[1] = ":" /\ PortText(Tail(s))

Zoned(s) == \E i \in 1..(Len(s) + 1) :
               V6(Until(s, i)) /\ (From(s, i) = <<>> \/ Zone(From(s, i)))

Bracketed(s) == \E i \in 2..Len(s) :
                   /\ s[1] = "[" /\ s[i] = "]" /\ Zoned(SubSeq(s, 2, i - 1))
                   /\ LET t == From(s, i + 1) IN t = <<>> \/ t[1] # ":" \/ Ported(t)

Grammar(s) == \/ V4(s) \/ Zoned(s) \/ Bracketed(s)
              \/ \E i \in 1..Len(s) : /\ V4(Until(s, i)) /\ Ported(From(s, i))
                                      /\ ~Has(Tail(From(s, i)), ":")

\* ParseSockaddrPort accepts these texts and no others: the search for brackets
\* and colons takes no text apart in two ways.
ParsesGrammar ==
    asked = "name" /\ lookup = "resolving" => (ParseSockaddrPort(text) <=> Grammar(text))
===============================================================================
