----------------------------- MODULE NetworkProofs -----------------------------
(***************************************************************************)
(* Theorems of HostnameLookup: for lists of addresses and texts of any      *)
(* length, a lookup ends with one last callback, the right one, a link      *)
(* connects once, and the parser accepts the texts of its grammar.          *)
(* Theorems of ServerHandle, for any number of connections, workers, frames *)
(* of Accept and calls of Close.                                            *)
(***************************************************************************)
EXTENDS HostnameLookup, ServerHandle, FiniteSetTheorems, SequenceTheorems, TLAPS

USE DEF lookupVars

Callbacks == {"OnNameResolvedIPv4", "OnNameResolvedIPv6", "OnNameResolved", "OnFinished", "OnError"}

\* What one more element does to a sequence.
LEMMA OneMore ==
    ASSUME NEW S, NEW s \in Seq(S), NEW e \in S
    PROVE  /\ s \o <<e>> \in Seq(S) /\ Len(s \o <<e>>) = Len(s) + 1
           /\ \A i \in 1..Len(s) : (s \o <<e>>)[i] = s[i]
           /\ (s \o <<e>>)[Len(s) + 1] = e
OBVIOUS

\* Lists of bounded length are lists.
LEMMA UptoSeq ==
    ASSUME NEW max \in Nat, NEW S, NEW s \in Upto(max, S)
    PROVE  s \in Seq(S)
<1>1. PICK n \in 0..max : s \in [1..n -> S]
  BY DEF Upto
<1>2. n \in Nat
  BY <1>1
<1> QED
  BY <1>1, <1>2

-------------------------------------------------------------------------------
(* What may still be resolved, by where the lookup is.                       *)
Quiet == \A i \in 1..Len(calls) : calls[i] \notin Terminal

Known(addresses) == \E i \in 1..Len(addresses) : addresses[i] # "other"

Shape ==
    /\ caller \in {"calling", "waiting", "returned"}
    /\ lookup \in {"none", "resolving", "walking", "done"}
    /\ asked \in {"nothing", "host", "connect", "name"}
    /\ calls \in Seq(Callbacks) /\ rest \in Seq(Families)
    /\ caller = "calling" => lookup = "none"
    /\ caller = "returned" => lookup \in {"none", "done"}

Untouched ==
    lookup \in {"none", "resolving"} =>
        calls = <<>> /\ ~usable /\ ~Resolved /\ ~isConnecting /\ connects = 0 /\ ~threw

Walking ==
    lookup = "walking" => /\ Quiet /\ ~threw /\ asked # "name"
                          /\ usable <=> (Resolved \/ Known(rest))

Ended ==
    lookup = "done" =>
        /\ \A i \in 1..Len(calls) : calls[i] \in Terminal => i = Len(calls)
        /\ ~threw => /\ Len(calls) > 0 /\ calls[Len(calls)] \in Terminal
                     /\ (calls[Len(calls)] = "OnFinished") <=> usable

Connecting ==
    /\ connects = 0 \/ connects = 1
    /\ isConnecting <=> connects = 1
    /\ asked # "connect" => connects = 0
    /\ asked = "connect" /\ lookup = "walking" => (connects = 1 <=> Resolved)
    /\ asked = "connect" /\ lookup = "done" /\ ~threw => (connects = 1 <=> usable)

LookupInv == Shape /\ Untouched /\ Walking /\ Ended /\ Connecting

LEMMA LookupInvInit == LookupInit => LookupInv
BY DEF LookupInit, LookupInv, Shape, Untouched, Walking, Ended, Connecting

\* Ending with one callback, after calls none of which was an end.
LEMMA EndsWith ==
    ASSUME calls \in Seq(Callbacks), Quiet, NEW e \in Terminal, Ends(<<e>>)
    PROVE  /\ calls' \in Seq(Callbacks) /\ lookup' = "done"
           /\ \A i \in 1..Len(calls') : calls'[i] \in Terminal => i = Len(calls')
           /\ Len(calls') > 0 /\ calls'[Len(calls')] = e
<1>1. e \in Callbacks
  BY DEF Terminal, Callbacks
<1>2. calls' = calls \o <<e>> /\ lookup' = "done"
  BY DEF Ends
<1> QED
  BY <1>1, <1>2, OneMore DEF Quiet

\* A callback that is no end keeps the calls quiet.
LEMMA QuietStill ==
    ASSUME calls \in Seq(Callbacks), Quiet, NEW e \in Callbacks \ Terminal,
           NEW s, s = calls \o <<e>>
    PROVE  s \in Seq(Callbacks) /\ \A i \in 1..Len(s) : s[i] \notin Terminal
BY OneMore DEF Quiet

\* An address less: what is known is at its head or in the rest.
LEMMA KnownTail ==
    ASSUME NEW s \in Seq(Families), s # <<>>
    PROVE  /\ Tail(s) \in Seq(Families)
           /\ Known(s) <=> (Head(s) # "other" \/ Known(Tail(s)))
<1>1. /\ Tail(s) \in Seq(Families) /\ Len(s) \in Nat /\ Len(s) >= 1
      /\ Len(Tail(s)) = Len(s) - 1 /\ Head(s) = s[1]
      /\ \A i \in 1..Len(Tail(s)) : Tail(s)[i] = s[i + 1]
  OBVIOUS
<1>2. ASSUME NEW i \in 1..Len(s), s[i] # "other" PROVE Head(s) # "other" \/ Known(Tail(s))
  <2>1. CASE i = 1
    BY <1>1, <1>2, <2>1
  <2>2. CASE i # 1
    <3>1. i - 1 \in 1..Len(Tail(s)) /\ Tail(s)[i - 1] = s[i]
      BY <1>1, <2>2
    <3> QED
      BY <1>2, <3>1 DEF Known
  <2> QED
    BY <2>1, <2>2
<1>3. ASSUME Head(s) # "other" PROVE Known(s)
  BY <1>1, <1>3 DEF Known
<1>4. ASSUME Known(Tail(s)) PROVE Known(s)
  <2>1. PICK i \in 1..Len(Tail(s)) : Tail(s)[i] # "other"
    BY <1>4 DEF Known
  <2>2. i + 1 \in 1..Len(s) /\ s[i + 1] # "other"
    BY <1>1, <2>1
  <2> QED
    BY <2>2 DEF Known
<1> QED
  BY <1>1, <1>2, <1>3, <1>4 DEF Known

-------------------------------------------------------------------------------
\* The lookup walks over one address, whatever the callback answers.
LEMMA WalkStep == LookupInv /\ Walk => LookupInv'
<1> SUFFICES ASSUME LookupInv, Walk
             PROVE  LookupInv'
  OBVIOUS
<1>1. /\ lookup = "walking" /\ rest # <<>> /\ rest' = Tail(rest)
      /\ UNCHANGED <<asked, caller, text, lookup, usable, threw>>
  BY DEF Walk
<1>2. /\ rest' \in Seq(Families)
      /\ Known(rest) <=> (Head(rest) # "other" \/ Known(rest'))
  BY <1>1, KnownTail DEF LookupInv, Shape
<1>3. CASE Head(rest) = "other" /\ UNCHANGED <<Resolved, isConnecting, connects, calls>>
  BY <1>1, <1>2, <1>3 DEF LookupInv, Shape, Untouched, Walking, Ended, Connecting, Quiet, Known
<1>4. CASE Head(rest) # "other" /\ (TakesAddress \/ TakesString)
  <2>1. calls \in Seq(Callbacks) /\ Quiet
    BY <1>1 DEF LookupInv, Shape, Walking
  <2>2. PICK e \in Callbacks \ Terminal : Resolves(Head(rest)) = <<e>>
    BY DEF Resolves, Callbacks, Terminal
  <2>3. DEFINE s == calls \o <<e>>
  <2>4. s \in Seq(Callbacks) /\ \A i \in 1..Len(s) : s[i] \notin Terminal
    BY <2>1, <2>2, QuietStill
  <2>5. calls' \in Seq(Callbacks) /\ Quiet'
    <3>1. CASE calls' = s
      BY <2>4, <3>1 DEF Quiet
    <3>2. CASE calls' = s \o <<"OnNameResolved">>
      <4>1. "OnNameResolved" \in Callbacks /\ "OnNameResolved" \notin Terminal
        BY DEF Callbacks, Terminal
      <4> HIDE DEF s
      <4> QED
        BY <2>4, <3>2, <4>1, OneMore DEF Quiet
    <3> QED
      BY <1>4, <2>2, <3>1, <3>2 DEF TakesAddress, TakesString
  <2>6. Resolved'
    BY <1>4 DEF TakesAddress, TakesString
  <2>7. usable
    BY <1>1, <1>2, <1>4 DEF LookupInv, Walking
  <2>8. Connecting'
    <3>1. \/ asked = "connect" /\ Connect
          \/ asked = "host" /\ UNCHANGED <<isConnecting, connects>>
      BY <1>4 DEF Walk
    <3> QED
      BY <1>1, <2>6, <3>1 DEF LookupInv, Connecting, Connect
  <2>9. Shape'
    BY <1>1, <1>2, <2>5 DEF LookupInv, Shape
  <2> QED
    BY <1>1, <2>5, <2>6, <2>7, <2>8, <2>9 DEF LookupInv, Untouched, Walking, Ended
<1> QED
  BY <1>3, <1>4 DEF Walk

LEMMA LookupInvStep == LookupInv /\ [LookupNext]_lookupVars => LookupInv'
<1> SUFFICES ASSUME LookupInv, [LookupNext]_lookupVars
             PROVE  LookupInv'
  OBVIOUS
<1> USE DEF LookupInv
<1>1. CASE UNCHANGED lookupVars
  BY <1>1 DEF Shape, Untouched, Walking, Ended, Connecting, Quiet
<1>2. ASSUME NEW what \in {"host", "connect", "name"}, NEW s, Ask(what, s)
      PROVE  LookupInv'
  BY <1>2 DEF Ask, Shape, Untouched, Walking, Ended, Connecting
<1>3. CASE AskThrows \/ Return
  BY <1>3 DEF AskThrows, Return, Shape, Untouched, Walking, Ended, Connecting, Quiet
<1>4. CASE ResolveFails
  <2>1. Quiet /\ calls \in Seq(Callbacks)
    BY <1>4 DEF ResolveFails, Shape, Untouched, Quiet
  <2>2. Ends(<<"OnError">>) /\ "OnError" \in Terminal
    BY <1>4 DEF ResolveFails, Terminal
  <2>3. /\ calls' \in Seq(Callbacks) /\ lookup' = "done"
        /\ \A i \in 1..Len(calls') : calls'[i] \in Terminal => i = Len(calls')
        /\ Len(calls') > 0 /\ calls'[Len(calls')] = "OnError"
    BY <2>1, <2>2, EndsWith
  <2> QED
    BY <1>4, <2>2, <2>3 DEF ResolveFails, Shape, Untouched, Walking, Ended, Connecting
<1>5. ASSUME NEW addresses \in Upto(MaxAddresses, Families), Resolve(addresses)
      PROVE  LookupInv'
  <2>1. addresses \in Seq(Families)
    BY UptoSeq, MaxAddressesAssumption
  <2> QED
    BY <1>5, <2>1 DEF Resolve, Shape, Untouched, Walking, Ended, Connecting, Quiet, Known
<1>6. CASE Walk
  BY <1>6, WalkStep
<1>7. CASE WalkEnds
  <2>1. PICK e \in Terminal : Ends(<<e>>) /\ (e = "OnFinished" <=> Resolved)
    BY <1>7 DEF WalkEnds, Terminal
  <2>2. Quiet /\ calls \in Seq(Callbacks)
    BY <1>7 DEF WalkEnds, Shape, Walking
  <2>3. /\ calls' \in Seq(Callbacks) /\ lookup' = "done"
        /\ \A i \in 1..Len(calls') : calls'[i] \in Terminal => i = Len(calls')
        /\ Len(calls') > 0 /\ calls'[Len(calls')] = e
    BY <2>1, <2>2, EndsWith
  <2>4. usable <=> Resolved
    BY <1>7 DEF WalkEnds, Walking, Known
  <2> QED
    BY <1>7, <2>1, <2>3, <2>4 DEF WalkEnds, Shape, Untouched, Walking, Ended, Connecting
<1>8. CASE ResolveName
  <2>1. calls = <<>> /\ lookup = "resolving" /\ lookup' = "done"
    BY <1>8 DEF ResolveName, Untouched, Ends
  <2>2. \/ calls' = <<"OnError">> /\ ~usable'
        \/ calls' = <<"OnNameResolved", "OnFinished">> /\ usable'
    BY <1>8, <2>1 DEF ResolveName, Ends, Untouched
  <2>3. calls' \in Seq(Callbacks) /\ Ended'
    <3>1. CASE calls' = <<"OnError">> /\ ~usable'
      BY <3>1 DEF Callbacks, Terminal, Ended
    <3>2. CASE calls' = <<"OnNameResolved", "OnFinished">> /\ usable'
      <4>1. calls' \in Seq(Callbacks) /\ Len(calls') = 2
        BY <3>2 DEF Callbacks
      <4>2. calls'[1] = "OnNameResolved" /\ calls'[2] = "OnFinished"
        BY <3>2
      <4> QED
        BY <3>2, <4>1, <4>2 DEF Terminal, Ended
    <3> QED
      BY <2>2, <3>1, <3>2
  <2> QED
    BY <1>8, <2>1, <2>3 DEF ResolveName, Shape, Untouched, Walking, Connecting
<1>9. CASE CallbackThrows
  BY <1>9 DEF CallbackThrows, Shape, Untouched, Walking, Ended, Connecting, Quiet
<1> QED
  BY <1>1, <1>2, <1>3, <1>4, <1>5, <1>6, <1>7, <1>8, <1>9 DEF LookupNext

LEMMA LookupAlways == LookupSpec => []LookupInv
BY LookupInvInit, LookupInvStep, PTL DEF LookupSpec

\* A lookup's last callback, and no other, is OnFinished or OnError, the one that
\* tells whether there was an answer; the caller is back only after it.
THEOREM LookupEndsOnce == LookupSpec => []EndsOnce
<1>1. LookupInv => EndsOnce
  <2> SUFFICES ASSUME LookupInv
               PROVE  EndsOnce
    OBVIOUS
  <2>1. \A i \in 1..Len(calls) : calls[i] \in Terminal => i = Len(calls) /\ lookup = "done"
    BY DEF LookupInv, Shape, Untouched, Walking, Ended, Quiet
  <2>2. lookup = "done" /\ ~threw => calls # <<>>
    BY DEF LookupInv, Ended
  <2> QED
    BY <2>1, <2>2 DEF LookupInv, Shape, Ended, EndsOnce
<1> QED
  BY <1>1, LookupAlways, PTL

\* A link that is being connected connects once, if there is an address for it.
THEOREM LookupConnectsOnce == LookupSpec => []ConnectsOnce
<1>1. LookupInv => ConnectsOnce
  BY DEF LookupInv, Connecting, ConnectsOnce
<1> QED
  BY <1>1, LookupAlways, PTL

-------------------------------------------------------------------------------
(* The parser.  No text is taken apart in two ways because an address has no  *)
(* bracket and no percent sign in it, an IPv6 address has two colons and a    *)
(* quad has none.                                                             *)
LEMMA PartOf ==
    ASSUME NEW S, NEW s \in Seq(S), NEW i \in 1..(Len(s) + 1), NEW j \in (i - 1)..Len(s)
    PROVE  /\ SubSeq(s, i, j) \in Seq(S) /\ Len(SubSeq(s, i, j)) = j - i + 1
           /\ \A k \in 1..(j - i + 1) : SubSeq(s, i, j)[k] = s[i + k - 1]
<1>1. \A k \in i..j : s[k] \in S
  OBVIOUS
<1>2. i \in Int /\ j \in Int
  OBVIOUS
<1>3. /\ SubSeq(s, i, j) \in Seq(S)
      /\ Len(SubSeq(s, i, j)) = IF i <= j THEN j - i + 1 ELSE 0
      /\ \A k \in 1..(j - i + 1) : SubSeq(s, i, j)[k] = s[i + k - 1]
  BY <1>1, <1>2, SubSeqProperties
<1> QED
  BY <1>2, <1>3

LEMMA UntilPart ==
    ASSUME NEW S, NEW s \in Seq(S), NEW i \in 1..(Len(s) + 1)
    PROVE  /\ Until(s, i) \in Seq(S) /\ Len(Until(s, i)) = i - 1
           /\ \A k \in 1..(i - 1) : Until(s, i)[k] = s[k]
<1>1. i - 1 \in 0..Len(s) /\ Len(s) \in Nat
  OBVIOUS
<1> DEFINE u == SubSeq(s, 1, i - 1)
<1>2. /\ u \in Seq(S) /\ Len(u) = i - 1 - 1 + 1
      /\ \A k \in 1..(i - 1 - 1 + 1) : u[k] = s[1 + k - 1]
  BY <1>1, PartOf
<1> HIDE DEF u
<1>3. u \in Seq(S) /\ Len(u) = i - 1 /\ \A k \in 1..(i - 1) : u[k] = s[k]
  BY <1>1, <1>2
<1> QED
  BY <1>3 DEF u, Until

LEMMA FromPart ==
    ASSUME NEW S, NEW s \in Seq(S), NEW i \in 1..(Len(s) + 1)
    PROVE  /\ From(s, i) \in Seq(S) /\ Len(From(s, i)) = Len(s) - i + 1
           /\ \A k \in 1..(Len(s) - i + 1) : From(s, i)[k] = s[i + k - 1]
<1>1. Len(s) \in (i - 1)..Len(s)
  OBVIOUS
<1> QED
  BY <1>1, PartOf DEF From

\* An empty rest, the first symbol of another, and what comes after it.
LEMMA FromHead ==
    ASSUME NEW S, NEW s \in Seq(S), NEW i \in 1..(Len(s) + 1)
    PROVE  /\ From(s, i) = <<>> <=> i = Len(s) + 1
           /\ i \in 1..Len(s) => From(s, i)[1] = s[i] /\ Tail(From(s, i)) = From(s, i + 1)
<1> DEFINE f == From(s, i)
<1>1. f \in Seq(S) /\ Len(f) = Len(s) - i + 1 /\ \A k \in 1..(Len(s) - i + 1) : f[k] = s[i + k - 1]
  BY FromPart
<1>2. Len(s) \in Nat
  OBVIOUS
<1>3. f = <<>> <=> i = Len(s) + 1
  <2> HIDE DEF f
  <2> QED
    BY <1>1, <1>2
<1>4. ASSUME i \in 1..Len(s) PROVE f[1] = s[i] /\ Tail(f) = From(s, i + 1)
  <2>1. f[1] = s[i]
    <3> HIDE DEF f
    <3> QED
      BY <1>1, <1>2, <1>4
  <2> DEFINE g == From(s, i + 1)
             t == Tail(f)
  <2>2. i + 1 \in 1..(Len(s) + 1)
    BY <1>2, <1>4
  <2>3. /\ g \in Seq(S) /\ Len(g) = Len(s) - (i + 1) + 1
        /\ \A k \in 1..(Len(s) - (i + 1) + 1) : g[k] = s[(i + 1) + k - 1]
    BY <2>2, FromPart
  <2>4. f # <<>>
    <3> HIDE DEF f
    <3> QED
      BY <1>2, <1>3, <1>4
  <2>5. t \in Seq(S) /\ Len(t) = Len(f) - 1 /\ \A k \in 1..Len(t) : t[k] = f[k + 1]
    BY <1>1, <2>4, HeadTailProperties
  <2> HIDE DEF f, g, t
  <2>6. Len(t) = Len(g)
    BY <1>1, <1>2, <2>3, <2>5
  <2>7. ASSUME NEW k \in 1..Len(t) PROVE t[k] = g[k]
    <3>1. t[k] = f[k + 1] /\ k + 1 \in 1..(Len(s) - i + 1) /\ k \in 1..(Len(s) - (i + 1) + 1)
      BY <1>1, <1>2, <2>5, <2>7
    <3>2. f[k + 1] = s[i + (k + 1) - 1] /\ g[k] = s[(i + 1) + k - 1]
      BY <1>1, <2>3, <3>1
    <3>3. i + (k + 1) - 1 = (i + 1) + k - 1
      BY <2>7
    <3> QED
      BY <3>1, <3>2, <3>3
  <2>8. t = g
    BY <2>3, <2>5, <2>6, <2>7, SeqEqual
  <2> QED
    BY <2>1, <2>8 DEF t, g
<1> QED
  BY <1>3, <1>4 DEF f

\* What an IPv6 address has in it, and a quad.
LEMMA TwoColons ==
    ASSUME NEW s \in Seq(Symbols), V6(s)
    PROVE  /\ \A i \in 1..Len(s) : s[i] \in {"h", ":", "d"}
           /\ \E i, j \in 1..Len(s) : i < j /\ s[i] = ":" /\ s[j] = ":"
<1> DEFINE n == Len(s)
           starts == {i \in 1..Len(s) : s[i] = "h" /\ (i = 1 \/ s[i - 1] = ":")}
           gaps == {i \in 1..(n - 1) : Gap(s, i)}
<1>1. /\ n \in Nat
      /\ \A i \in 1..n : s[i] \in {"h", ":", "d"}
      /\ gaps # {} \/ Groups(s) = 8
  BY DEF V6
<1>2. CASE gaps # {}
  <2>1. PICK i \in 1..(n - 1) : Gap(s, i)
    BY <1>2
  <2>2. i \in 1..n /\ i + 1 \in 1..n /\ i < i + 1
    BY <1>1
  <2> QED
    BY <1>1, <2>1, <2>2 DEF Gap
<1>3. CASE Groups(s) = 8
  <2>1. SUFFICES ASSUME \A i, j \in 1..n : s[i] = ":" /\ s[j] = ":" => i = j
                 PROVE  FALSE
    <3>1. \A i, j \in 1..n : i # j => i < j \/ j < i
      OBVIOUS
    <3> QED
      BY <1>1, <2>1, <3>1
  <2>2. PICK c \in Nat : \A i \in 1..n : s[i] = ":" => i = c
    <3>1. ASSUME NEW d \in 1..n, s[d] = ":"
          PROVE  \E c \in Nat : \A i \in 1..n : s[i] = ":" => i = c
      <4>1. d \in Nat /\ \A i \in 1..n : s[i] = ":" => i = d
        BY <2>1, <3>1
      <4> QED
        BY <4>1
    <3>2. CASE ~ \E d \in 1..n : s[d] = ":"
      <4>1. 0 \in Nat /\ \A i \in 1..n : s[i] = ":" => i = 0
        BY <3>2
      <4> QED
        BY <4>1
    <3> QED
      BY <3>1, <3>2
  <2>3. starts \subseteq {1, c + 1}
    <3> SUFFICES ASSUME NEW i \in starts, i # 1 PROVE i = c + 1
      OBVIOUS
    <3>1. i \in 1..n /\ s[i - 1] = ":" /\ i - 1 \in 1..n
      BY <1>1
    <3> QED
      BY <2>2, <3>1
  <2>4. IsFiniteSet({1, c + 1}) /\ Cardinality({1, c + 1}) <= 2
    <3>1. IsFiniteSet({1}) /\ Cardinality({1}) = 1
      BY FS_Singleton
    <3>2. IsFiniteSet({1} \cup {c + 1}) /\ (Cardinality({1} \cup {c + 1}) = 1
             \/ Cardinality({1} \cup {c + 1}) = 1 + 1)
      BY <3>1, FS_AddElement
    <3>3. {1, c + 1} = {1} \cup {c + 1}
      OBVIOUS
    <3> QED
      BY <3>2, <3>3
  <2>5. IsFiniteSet(starts) /\ Cardinality(starts) <= Cardinality({1, c + 1})
    BY <2>3, <2>4, FS_Subset
  <2>6. Cardinality(starts) \in Nat /\ Cardinality({1, c + 1}) \in Nat
    BY <2>4, <2>5, FS_CardinalityType
  <2>7. Groups(s) = Cardinality(starts) + (IF s[n] = "d" THEN 2 ELSE 0)
    BY DEF Groups
  <2> HIDE DEF starts, n
  <2> QED
    BY <1>3, <2>4, <2>5, <2>6, <2>7
<1> QED
  BY <1>1, <1>2, <1>3

LEMMA QuadAlone ==
    ASSUME NEW s, V4(s)
    PROVE  Len(s) = 1 /\ s[1] = "d" /\ s # <<>> /\ ~Has(s, ":")
BY DEF V4, Has

\* The zone begins at the first percent sign, and there is no other.
LEMMA ZoneParsed ==
    ASSUME NEW s \in Seq(Symbols)
    PROVE  V6Scope(s) <=> Zoned(s)
<1>1. Len(s) \in Nat
  OBVIOUS
<1>2. Until(s, Len(s) + 1) = s
  <2>1. SUFFICES ASSUME NEW i \in 1..(Len(s) + 1), i = Len(s) + 1
                 PROVE  Until(s, i) = s
    BY <1>1
  <2> DEFINE u == Until(s, i)
  <2>2. u \in Seq(Symbols) /\ Len(u) = i - 1 /\ \A k \in 1..(i - 1) : u[k] = s[k]
    BY UntilPart
  <2> HIDE DEF u
  <2>3. Len(u) = Len(s) /\ \A k \in 1..Len(u) : u[k] = s[k]
    BY <1>1, <2>1, <2>2
  <2>4. u = s
    BY <2>2, <2>3, SeqEqual
  <2> QED
    BY <2>4 DEF u
<1>3. ASSUME ~Has(s, "%"), V6(s) PROVE Zoned(s)
  <2>1. Len(s) + 1 \in 1..(Len(s) + 1) /\ From(s, Len(s) + 1) = <<>>
    BY <1>1, FromHead
  <2> QED
    BY <1>2, <1>3, <2>1 DEF Zoned
<1>4. ASSUME NEW i \in 1..Len(s), s[i] = "%", V6(Until(s, i)), \A j \in (i + 1)..Len(s) : s[j] \in Digits
      PROVE  Zoned(s)
  <2> DEFINE f == From(s, i)
  <2>1. i \in 1..(Len(s) + 1)
    BY <1>1
  <2>2. f # <<>> /\ f[1] = "%"
    BY <1>1, <1>4, <2>1, FromHead
  <2>3. Len(f) = Len(s) - i + 1 /\ \A k \in 1..(Len(s) - i + 1) : f[k] = s[i + k - 1]
    BY <2>1, FromPart
  <2> HIDE DEF f
  <2>4. \A k \in 2..Len(f) : k \in 1..(Len(s) - i + 1) /\ i + k - 1 \in (i + 1)..Len(s)
    BY <1>1, <2>3
  <2>5. \A k \in 2..Len(f) : f[k] \in Digits
    BY <1>4, <2>3, <2>4
  <2> QED
    BY <1>4, <2>1, <2>2, <2>5 DEF Zoned, Zone, f
<1>5. ASSUME NEW i \in 1..(Len(s) + 1), V6(Until(s, i)), From(s, i) = <<>> \/ Zone(From(s, i))
      PROVE  V6Scope(s)
  <2> DEFINE u == Until(s, i)
             f == From(s, i)
  <2>1. u \in Seq(Symbols) /\ Len(u) = i - 1 /\ \A k \in 1..(i - 1) : u[k] = s[k]
    BY UntilPart
  <2>2. \A k \in 1..Len(u) : u[k] \in {"h", ":", "d"}
    BY <1>5, <2>1, TwoColons
  <2> HIDE DEF u
  <2>3. \A k \in 1..(i - 1) : s[k] # "%"
    BY <2>1, <2>2
  <2>4. CASE i = Len(s) + 1
    <3>1. ~Has(s, "%")
      BY <1>1, <2>3, <2>4 DEF Has
    <3> QED
      BY <1>2, <1>5, <2>4, <3>1 DEF V6Scope
  <2>5. CASE i # Len(s) + 1
    <3>1. i \in 1..Len(s)
      BY <1>1, <2>5
    <3>2. Zone(f) /\ f[1] = s[i]
      BY <1>5, <2>5, <3>1, FromHead
    <3>3. Len(f) = Len(s) - i + 1 /\ \A k \in 1..(Len(s) - i + 1) : f[k] = s[i + k - 1]
      BY FromPart
    <3> HIDE DEF f
    <3>4. s[i] = "%" /\ \A k \in 2..Len(f) : f[k] \in Digits
      BY <3>2 DEF Zone
    <3>5. ASSUME NEW j \in (i + 1)..Len(s) PROVE s[j] \in Digits
      <4> DEFINE k == j - i + 1
      <4>1. k \in 2..Len(f) /\ k \in 1..(Len(s) - i + 1) /\ i + k - 1 = j
        BY <1>1, <3>1, <3>3
      <4> HIDE DEF k
      <4> QED
        BY <3>3, <3>4, <4>1
    <3> QED
      BY <1>5, <2>3, <3>1, <3>4, <3>5 DEF V6Scope, Found
  <2> QED
    BY <2>4, <2>5
<1> QED
  BY <1>3, <1>4, <1>5 DEF V6Scope, Found, Zoned

LEMMA ZonedSymbols ==
    ASSUME NEW s \in Seq(Symbols), Zoned(s)
    PROVE  /\ \A i \in 1..Len(s) : s[i] \notin {"[", "]"}
           /\ Twice(s, ":") /\ s # <<>>
<1>1. PICK i \in 1..(Len(s) + 1) : V6(Until(s, i)) /\ (From(s, i) = <<>> \/ Zone(From(s, i)))
  BY DEF Zoned
<1> DEFINE u == Until(s, i)
           f == From(s, i)
<1>2. u \in Seq(Symbols) /\ Len(u) = i - 1 /\ \A k \in 1..(i - 1) : u[k] = s[k]
  BY UntilPart
<1>3. Len(f) = Len(s) - i + 1 /\ \A k \in 1..(Len(s) - i + 1) : f[k] = s[i + k - 1]
  BY FromPart
<1>4. \A k \in 1..Len(f) : f[k] \in Digits \cup {"%"}
  <2>1. CASE f = <<>>
    BY <2>1
  <2>2. CASE Zone(f)
    <3> HIDE DEF f
    <3>1. Len(f) \in Nat
      BY <1>3
    <3>2. \A k \in 1..Len(f) : k = 1 \/ k \in 2..Len(f)
      BY <3>1
    <3> QED
      BY <2>2, <3>2 DEF Zone
  <2> QED
    BY <1>1, <2>1, <2>2
<1>5. /\ \A k \in 1..Len(u) : u[k] \in {"h", ":", "d"}
      /\ \E k, l \in 1..Len(u) : k < l /\ u[k] = ":" /\ u[l] = ":"
  BY <1>1, <1>2, TwoColons
<1>6. Len(s) \in Nat
  OBVIOUS
<1> HIDE DEF u, f
<1>7. ASSUME NEW j \in 1..Len(s) PROVE s[j] \notin {"[", "]"}
  <2>1. CASE j \in 1..(i - 1)
    BY <1>2, <1>5, <2>1
  <2>2. CASE j \notin 1..(i - 1)
    <3> DEFINE k == j - i + 1
    <3>1. k \in 1..Len(f) /\ k \in 1..(Len(s) - i + 1) /\ i + k - 1 = j
      BY <1>3, <1>6, <2>2
    <3> HIDE DEF k
    <3> QED
      BY <1>3, <1>4, <3>1 DEF Digits
  <2> QED
    BY <2>1, <2>2
<1>8. Twice(s, ":")
  <2>1. PICK k \in 1..Len(u), l \in 1..Len(u) : k < l /\ u[k] = ":" /\ u[l] = ":"
    BY <1>5
  <2>2. k \in 1..Len(s) /\ l \in 1..Len(s) /\ s[k] = ":" /\ s[l] = ":"
    BY <1>2, <1>6, <2>1
  <2> QED
    BY <2>1, <2>2 DEF Twice
<1>9. s # <<>>
  BY <1>8 DEF Twice
<1> QED
  BY <1>7, <1>8, <1>9

\* The range check on what atoi reads admits the port numbers of the grammar and
\* no others: each n that the one has a number of digits for, the other has too.
LEMMA PortExact ==
    ASSUME NEW s \in Seq(Symbols)
    PROVE  Port(s) <=> PortText(s)
<1>1. Len(s) \in Nat
  OBVIOUS
<1>2. /\ Ones(0) = 0 /\ Ones(1) = 1 /\ Ones(2) = 11 /\ Ones(3) = 111 /\ Ones(4) = 1111
      /\ Ones(5) = 11111 /\ \A n \in Nat : n > 5 => Ones(n) = 111111
  BY DEF Ones
<1>3. ASSUME NEW n \in 0..Len(s), \A i \in 1..n : s[i] = "h"
      PROVE  (0 < Atoi(s, n) /\ Atoi(s, n) <= 65535)
                <=> IF n < Len(s) /\ s[n + 1] = "d" THEN n <= 2 ELSE n \in 1..5
  <2>1. n \in {0, 1, 2, 3, 4, 5} \/ n > 5
    OBVIOUS
  <2>2. n \in Nat
    OBVIOUS
  <2>3. CASE n < Len(s) /\ s[n + 1] = "d"
    <3>1. Atoi(s, n) = 1000 * Ones(n) + 255
      BY <1>3, <2>3 DEF Atoi
    <3> QED
      BY <1>2, <2>1, <2>2, <2>3, <3>1
  <2>4. CASE ~(n < Len(s) /\ s[n + 1] = "d")
    <3>1. Atoi(s, n) = Ones(n)
      BY <1>3, <2>4 DEF Atoi
    <3> QED
      BY <1>2, <2>1, <2>2, <2>4, <3>1
  <2> QED
    BY <2>3, <2>4
<1>4. ASSUME Port(s) PROVE PortText(s)
  <2>1. PICK n \in 0..Len(s) : /\ \A i \in 1..n : s[i] \in Digits
                               /\ n < Len(s) => s[n + 1] \notin Digits
                               /\ 0 < Atoi(s, n) /\ Atoi(s, n) <= 65535
    BY <1>4 DEF Port
  <2>2. CASE \A i \in 1..n : s[i] = "h"
    <3>1. IF n < Len(s) /\ s[n + 1] = "d" THEN n <= 2 ELSE n \in 1..5
      BY <1>3, <2>1, <2>2
    <3>2. AllOnes(s, n)
      BY <1>1, <2>2 DEF AllOnes
    <3>3. CASE n < Len(s) /\ s[n + 1] = "d"
      BY <3>1, <3>2, <3>3 DEF PortText
    <3>4. CASE ~(n < Len(s) /\ s[n + 1] = "d")
      <4>1. n \in 1..5
        BY <3>1, <3>4
      <4>2. Stops(s, n)
        BY <1>1, <2>1, <3>4 DEF Stops
      <4> QED
        BY <3>2, <4>1, <4>2 DEF PortText
    <3> QED
      BY <3>3, <3>4
  <2>3. CASE ~ \A i \in 1..n : s[i] = "h"
    <3>1. n = 1 /\ s[1] = "m" /\ ~(n < Len(s) /\ s[n + 1] = "d")
      BY <2>1, <2>3 DEF Atoi
    <3>2. 1 < Len(s) => s[1 + 1] \notin Digits /\ s[1 + 1] # "d"
      BY <2>1, <3>1
    <3>3. 1 \in 0..Len(s)
      BY <3>1
    <3>4. ~(1 < Len(s)) => 1 = Len(s)
      BY <1>1, <3>3
    <3>5. Stops(s, 1) /\ s # <<>>
      BY <1>1, <3>2, <3>3, <3>4 DEF Stops
    <3> QED
      BY <3>1, <3>5 DEF PortText
  <2> QED
    BY <2>2, <2>3
<1>5. ASSUME PortText(s) PROVE Port(s)
  <2>1. ASSUME NEW n \in 1..5, AllOnes(s, n), Stops(s, n) PROVE Port(s)
    <3>1. n \in 0..Len(s) /\ \A i \in 1..n : s[i] = "h"
      BY <1>1, <2>1 DEF AllOnes
    <3>2. ~(n < Len(s) /\ s[n + 1] = "d") /\ (n < Len(s) => s[n + 1] \notin Digits)
      BY <1>1, <2>1 DEF Stops
    <3>3. 0 < Atoi(s, n) /\ Atoi(s, n) <= 65535
      BY <1>3, <3>1, <3>2
    <3>4. \A i \in 1..n : s[i] \in Digits
      BY <3>1 DEF Digits
    <3> QED
      BY <3>1, <3>2, <3>3, <3>4 DEF Port
  <2>2. ASSUME s # <<>>, s[1] = "m", Stops(s, 1) PROVE Port(s)
    <3>1. 1 \in 0..Len(s)
      BY <1>1, <2>2
    <3>2. ~(1 < Len(s) /\ s[1 + 1] = "d") /\ (1 < Len(s) => s[1 + 1] \notin Digits)
      BY <1>1, <2>2 DEF Stops
    <3>3. Atoi(s, 1) = 65535
      BY <2>2, <3>2 DEF Atoi
    <3>4. \A i \in 1..1 : s[i] \in Digits
      BY <2>2 DEF Digits
    <3> QED
      BY <3>1, <3>2, <3>3, <3>4 DEF Port
  <2>3. ASSUME NEW n \in 0..2, AllOnes(s, n), n < Len(s), s[n + 1] = "d" PROVE Port(s)
    <3>1. n \in 0..Len(s) /\ \A i \in 1..n : s[i] = "h"
      BY <1>1, <2>3 DEF AllOnes
    <3>2. 0 < Atoi(s, n) /\ Atoi(s, n) <= 65535
      BY <1>3, <2>3, <3>1
    <3>3. (\A i \in 1..n : s[i] \in Digits) /\ s[n + 1] \notin Digits
      BY <2>3, <3>1 DEF Digits
    <3> QED
      BY <3>1, <3>2, <3>3 DEF Port
  <2> QED
    BY <1>5, <2>1, <2>2, <2>3 DEF PortText
<1> QED
  BY <1>4, <1>5

\* A port after a colon, in the grammar and in the parser.
LEMMA PortedExact ==
    ASSUME NEW f \in Seq(Symbols), f # <<>>
    PROVE  Ported(f) <=> (f[1] = ":" /\ Port(Tail(f)))
<1>1. Tail(f) \in Seq(Symbols)
  OBVIOUS
<1> QED
  BY <1>1, PortExact DEF Ported

\* ParseSockaddrPort accepts a text if and only if Grammar does.
LEMMA ParserExact ==
    ASSUME NEW s \in Seq(Symbols)
    PROVE  ParseSockaddrPort(s) <=> Grammar(s)
<1>1. Len(s) \in Nat
  OBVIOUS
<1>2. ASSUME Opens(s), InBrackets(s) PROVE Bracketed(s)
  <2>1. PICK i \in 1..Len(s) : /\ s[i] = "]" /\ V6Scope(SubSeq(s, 2, i - 1))
                               /\ i < Len(s) /\ s[i + 1] = ":" => Port(From(s, i + 2))
    BY <1>2 DEF InBrackets, Found
  <2>2. s[1] = "[" /\ i \in 2..Len(s)
    BY <1>1, <1>2, <2>1 DEF Opens
  <2>3. Zoned(SubSeq(s, 2, i - 1))
    <3>1. 2 \in 1..(Len(s) + 1) /\ i - 1 \in (2 - 1)..Len(s)
      BY <1>1, <2>2
    <3>2. SubSeq(s, 2, i - 1) \in Seq(Symbols)
      BY <3>1, PartOf
    <3> QED
      BY <2>1, <3>2, ZoneParsed
  <2> DEFINE t == From(s, i + 1)
  <2>4. t = <<>> \/ t[1] # ":" \/ Ported(t)
    <3>1. CASE i = Len(s)
      <4>1. i + 1 \in 1..(Len(s) + 1) /\ i + 1 = Len(s) + 1
        BY <1>1, <3>1
      <4> QED
        BY <4>1, FromHead
    <3>2. CASE i # Len(s)
      <4>1. i < Len(s) /\ i + 1 \in 1..Len(s) /\ i + 1 \in 1..(Len(s) + 1) /\ (i + 1) + 1 = i + 2
        BY <1>1, <3>2
      <4>2. t # <<>> /\ t[1] = s[i + 1] /\ Tail(t) = From(s, i + 2)
        BY <1>1, <4>1, FromHead
      <4>3. t \in Seq(Symbols)
        BY <4>1, FromPart
      <4> HIDE DEF t
      <4> QED
        BY <2>1, <4>1, <4>2, <4>3, PortedExact
    <3> QED
      BY <3>1, <3>2
  <2> QED
    BY <2>1, <2>2, <2>3, <2>4 DEF Bracketed
<1>3. ASSUME Bracketed(s) PROVE Opens(s) /\ InBrackets(s)
  <2> DEFINE t(i) == From(s, i + 1)
             m(i) == SubSeq(s, 2, i - 1)
  <2>1. PICK i \in 2..Len(s) : /\ s[1] = "[" /\ s[i] = "]" /\ Zoned(m(i))
                               /\ t(i) = <<>> \/ t(i)[1] # ":" \/ Ported(t(i))
    BY <1>3 DEF Bracketed
  <2>2. 2 \in 1..(Len(s) + 1) /\ i - 1 \in (2 - 1)..Len(s) /\ i \in 1..Len(s) /\ Len(s) >= 2
    BY <1>1
  <2>3. Opens(s)
    BY <2>1, <2>2 DEF Opens
  <2>4. /\ m(i) \in Seq(Symbols) /\ Len(m(i)) = i - 1 - 2 + 1
        /\ \A k \in 1..(i - 1 - 2 + 1) : m(i)[k] = s[2 + k - 1]
    BY <2>2, PartOf
  <2>5. \A k \in 1..Len(m(i)) : m(i)[k] \notin {"[", "]"}
    BY <2>1, <2>4, ZonedSymbols
  <2>6. V6Scope(m(i))
    BY <2>1, <2>4, ZoneParsed
  <2>7. i < Len(s) /\ s[i + 1] = ":" => Port(From(s, i + 2))
    <3> SUFFICES ASSUME i < Len(s), s[i + 1] = ":" PROVE Port(From(s, i + 2))
      OBVIOUS
    <3>1. i + 1 \in 1..Len(s) /\ i + 1 \in 1..(Len(s) + 1) /\ (i + 1) + 1 = i + 2
          /\ i + 1 # Len(s) + 1
      BY <1>1, <2>2
    <3>2. t(i) # <<>> /\ t(i)[1] = s[i + 1] /\ Tail(t(i)) = From(s, i + 2)
      BY <3>1, FromHead
    <3>3. t(i) \in Seq(Symbols)
      BY <3>1, FromPart
    <3> HIDE DEF t
    <3> QED
      BY <2>1, <3>2, <3>3, PortedExact
  <2> HIDE DEF m
  <2>8. Found(s, "]", i)
    <3> SUFFICES ASSUME NEW j \in 1..(i - 1) PROVE s[j] # "]"
      BY <2>1 DEF Found
    <3>1. CASE j = 1
      BY <2>1, <3>1
    <3>2. CASE j # 1
      <4>1. j - 1 \in 1..(i - 1 - 2 + 1) /\ j - 1 \in 1..Len(m(i)) /\ 2 + (j - 1) - 1 = j
        BY <2>4, <2>2, <3>2
      <4> QED
        BY <2>4, <2>5, <4>1
    <3> QED
      BY <3>1, <3>2
  <2> QED
    BY <2>2, <2>3, <2>6, <2>7, <2>8 DEF InBrackets, m
<1>4. ASSUME V4(s) PROVE ~Opens(s) /\ ~Has(s, ":")
  BY <1>4, QuadAlone DEF Opens
<1>5. ASSUME Zoned(s) PROVE ~Opens(s) /\ Twice(s, ":") /\ V6Scope(s)
  <2>1. 1 \in 1..Len(s)
    BY <1>1, <1>5, ZonedSymbols DEF Twice
  <2> QED
    BY <1>5, <2>1, ZonedSymbols, ZoneParsed DEF Opens
<1>6. ASSUME NEW i \in 1..Len(s), s[i] = ":", ~Twice(s, ":"), Port(From(s, i + 1))
      PROVE  Ported(From(s, i)) /\ ~Has(Tail(From(s, i)), ":")
  <2>1. i \in 1..(Len(s) + 1) /\ i # Len(s) + 1 /\ i + 1 \in 1..(Len(s) + 1)
    BY <1>1
  <2>2. From(s, i) # <<>> /\ From(s, i)[1] = ":" /\ Tail(From(s, i)) = From(s, i + 1)
    BY <1>6, <2>1, FromHead
  <2> DEFINE f == From(s, i + 1)
  <2>3. Len(f) = Len(s) - (i + 1) + 1 /\ \A k \in 1..(Len(s) - (i + 1) + 1) : f[k] = s[(i + 1) + k - 1]
    BY <2>1, FromPart
  <2> HIDE DEF f
  <2>4. \A k \in 1..Len(f) : i < (i + 1) + k - 1 /\ (i + 1) + k - 1 \in 1..Len(s)
    BY <1>1, <2>3
  <2>5. ~Has(f, ":")
    BY <1>6, <2>3, <2>4 DEF Has, Twice
  <2>6. From(s, i) \in Seq(Symbols)
    BY <2>1, FromPart
  <2> QED
    BY <1>6, <2>2, <2>5, <2>6, PortedExact DEF f
<1>7. ASSUME NEW i \in 1..Len(s), V4(Until(s, i)), Ported(From(s, i)), ~Has(Tail(From(s, i)), ":")
      PROVE  /\ ~Opens(s) /\ ~Twice(s, ":")
             /\ s[i] = ":" /\ Port(From(s, i + 1))
  <2>1. i \in 1..(Len(s) + 1) /\ i # Len(s) + 1 /\ i + 1 \in 1..(Len(s) + 1)
    BY <1>1
  <2>2. From(s, i)[1] = s[i] /\ Tail(From(s, i)) = From(s, i + 1)
    BY <2>1, FromHead
  <2>3. s[i] = ":" /\ Port(From(s, i + 1)) /\ ~Has(From(s, i + 1), ":")
    <3>1. From(s, i) \in Seq(Symbols) /\ From(s, i) # <<>>
      BY <2>1, FromPart, FromHead
    <3> QED
      BY <1>7, <2>2, <3>1, PortedExact
  <2> DEFINE f == From(s, i + 1)
             u == Until(s, i)
  <2>4. Len(f) = Len(s) - (i + 1) + 1 /\ \A k \in 1..(Len(s) - (i + 1) + 1) : f[k] = s[(i + 1) + k - 1]
    BY <2>1, FromPart
  <2>5. Len(u) = i - 1 /\ \A k \in 1..(i - 1) : u[k] = s[k]
    BY <2>1, UntilPart
  <2>6. Len(u) = 1 /\ u[1] = "d"
    BY <1>7, QuadAlone
  <2>7. \A k \in 1..Len(f) : f[k] # ":"
    BY <2>3 DEF Has
  <2> HIDE DEF f, u
  <2>8. i = 2 /\ s[1] = "d"
    <3>1. i - 1 = 1 /\ i \in Int
      <4>1. i - 1 = 1
        BY <2>5, <2>6, Zenon
      <4>2. i \in Int
        BY <1>1
      <4> QED
        BY <4>1, <4>2
    <3>2. i = 2 /\ 1 \in 1..(i - 1)
      BY <3>1
    <3> QED
      BY <2>5, <2>6, <3>2
  <2>9. ASSUME NEW j \in 1..Len(s), j # 2 PROVE s[j] # ":"
    <3>1. CASE j = 1
      BY <2>8, <3>1
    <3>2. CASE j # 1
      <4>1. j - 2 \in 1..Len(f) /\ j - 2 \in 1..(Len(s) - (i + 1) + 1) /\ (i + 1) + (j - 2) - 1 = j
        BY <1>1, <2>4, <2>8, <2>9, <3>2
      <4> QED
        BY <2>4, <2>7, <4>1
    <3> QED
      BY <3>1, <3>2
  <2>10. ~Twice(s, ":")
    BY <2>9 DEF Twice
  <2> QED
    BY <2>3, <2>8, <2>10 DEF Opens
<1>8. ParseSockaddrPort(s) => Grammar(s)
  BY <1>2, <1>6, ZoneParsed DEF ParseSockaddrPort, Grammar
<1>9. Grammar(s) => ParseSockaddrPort(s)
  BY <1>3, <1>4, <1>5, <1>7 DEF ParseSockaddrPort, Grammar
<1> QED
  BY <1>8, <1>9

\* The texts a lookup of a name accepts are those of the grammar, of any length
\* that fits the parser's buffer: no search for a bracket, a colon or a percent
\* sign takes a text apart wrongly.
THEOREM ParserAlwaysExact == LookupSpec => []ParsesGrammar
<1>1. LookupInit => text \in Seq(Symbols)
  BY DEF LookupInit
<1>2. text \in Seq(Symbols) /\ [LookupNext]_lookupVars => (text \in Seq(Symbols))'
  <2> SUFFICES ASSUME text \in Seq(Symbols), [LookupNext]_lookupVars
               PROVE  text' \in Seq(Symbols)
    OBVIOUS
  <2>1. ASSUME NEW what, NEW s \in Seq(Symbols), Ask(what, s) PROVE text' \in Seq(Symbols)
    BY <2>1 DEF Ask
  <2>2. <<>> \in Seq(Symbols) /\ \A s \in Upto(MaxText, Symbols) : s \in Seq(Symbols)
    BY UptoSeq, MaxTextAssumption
  <2>3. CASE UNCHANGED text
    BY <2>3
  <2> QED
    BY <2>1, <2>2, <2>3 DEF LookupNext, AskThrows, Return, ResolveFails, Resolve, Walk, WalkEnds,
                            ResolveName, CallbackThrows
<1>3. text \in Seq(Symbols) => ParsesGrammar
  BY ParserExact DEF ParsesGrammar
<1> QED
  BY <1>1, <1>2, <1>3, PTL DEF LookupSpec

-------------------------------------------------------------------------------
(***************************************************************************)
(* The server handle and its listener.                                      *)
(***************************************************************************)

USE DEF vars, handleVars, listenVars, loopVars, notLoop

LEMMA FlagsStep == FlagsOK /\ [Next]_vars => FlagsOK'
<1> SUFFICES ASSUME FlagsOK, [Next]_vars
             PROVE  FlagsOK'
  OBVIOUS
<1> USE DEF FlagsOK
<1>1. CASE UNCHANGED vars
  BY <1>1
<1>2. CASE ListenFails \/ ListenThrows \/ Listens
  BY <1>2 DEF ListenFails, ListenThrows, Listens
<1>3. ASSUME FreeListener PROVE registered' \in BOOLEAN
  BY <1>3 DEF FreeListener
<1>4. CASE Close
  <2>1. busyAtClose' \in BOOLEAN
    BY <1>4 DEF Close
  <2> QED
    BY <1>3, <1>4, <2>1 DEF Close
<1>5. CASE Release
  BY <1>3, <1>5 DEF Release
<1>6. CASE AcceptOnFreed
  BY <1>6 DEF AcceptOnFreed
<1>7. ASSUME NEW c \in Clients, Connects(c) PROVE FlagsOK'
  BY <1>7 DEF Connects
<1>8. ASSUME NEW c \in Clients, RunJob(c) PROVE FlagsOK'
  BY <1>8 DEF RunJob, ReadsSocket
<1>9. ASSUME NEW w \in Workers, Event(w) \/ AcceptFails(w) PROVE FlagsOK'
  BY <1>9 DEF Event, AcceptFails
<1>10. ASSUME NEW w \in Workers, NEW c \in Clients, NonblockFails(w, c) \/ AcceptGets(w, c)
       PROVE  FlagsOK'
  BY <1>10 DEF NonblockFails, AcceptGets
<1>11. CASE EpollWait
  BY <1>11 DEF EpollWait
<1>12. CASE Lookup
  BY <1>12 DEF Lookup
<1>13. CASE EnqueueJob
  BY <1>13 DEF EnqueueJob
<1>14. CASE LoopClose
  BY <1>14 DEF LoopClose
<1> QED
  BY <1>1, <1>2, <1>4, <1>5, <1>6, <1>7, <1>8, <1>9, <1>10, <1>11, <1>12, <1>13, <1>14 DEF Next

LEMMA SocketsStep == SocketsOK /\ [Next]_vars => SocketsOK'
<1> SUFFICES ASSUME SocketsOK, [Next]_vars
             PROVE  SocketsOK'
  OBVIOUS
<1> USE DEF SocketsOK
<1>1. CASE UNCHANGED vars
  BY <1>1
<1>2. CASE ListenFails \/ ListenThrows \/ Listens
  BY <1>2 DEF ListenFails, ListenThrows, Listens
<1>3. CASE Close \/ Release \/ AcceptOnFreed
  BY <1>3 DEF Close, Release, AcceptOnFreed
<1>4. ASSUME NEW c \in Clients, Connects(c) PROVE SocketsOK'
  BY <1>4 DEF Connects
<1>5. ASSUME NEW c \in Clients, RunJob(c) PROVE SocketsOK'
  BY <1>5 DEF RunJob, Drops, Links
<1>6. ASSUME NEW w \in Workers, Event(w) \/ AcceptFails(w) PROVE SocketsOK'
  BY <1>6 DEF Event, AcceptFails
<1>7. ASSUME NEW w \in Workers, NEW c \in Clients, NonblockFails(w, c) \/ AcceptGets(w, c)
      PROVE  SocketsOK'
  BY <1>7 DEF NonblockFails, AcceptGets
<1>8. CASE EpollWait \/ Lookup \/ EnqueueJob \/ LoopClose
  BY <1>8 DEF EpollWait, Lookup, EnqueueJob, LoopClose
<1> QED
  BY <1>1, <1>2, <1>3, <1>4, <1>5, <1>6, <1>7, <1>8 DEF Next

LEMMA PlacesStep == PlacesOK /\ [Next]_vars => PlacesOK'
<1> SUFFICES ASSUME PlacesOK, [Next]_vars
             PROVE  PlacesOK'
  OBVIOUS
<1> USE BoundsAssumption DEF PlacesOK, Faults
<1>1. CASE UNCHANGED vars
  BY <1>1
<1>2. CASE ListenFails \/ ListenThrows \/ Listens
  BY <1>2 DEF ListenFails, ListenThrows, Listens
<1>3. ASSUME FreeListener
      PROVE  /\ Listener' \in {"none", "live", "freed"}
             /\ fault' \in {"none", "threw", "assertion", "overflow", "freed", "address", "nullptr"}
  BY <1>3 DEF FreeListener
<1>4. CASE Close
  <2>1. closes < MaxCloses /\ closes' = closes + 1
    BY <1>4 DEF Close
  <2>2. closes' \in 0..MaxCloses
    BY <2>1
  <2>3. UNCHANGED <<context, result, accepting, loop, events>> /\ FreeListener
    BY <1>4 DEF Close
  <2> QED
    BY <1>3, <2>2, <2>3
<1>5. CASE Release
  BY <1>3, <1>5 DEF Release
<1>6. CASE AcceptOnFreed
  BY <1>6 DEF AcceptOnFreed
<1>7. ASSUME NEW c \in Clients, Connects(c) \/ RunJob(c) PROVE PlacesOK'
  BY <1>7 DEF Connects, RunJob, Drops, Links
<1>8. ASSUME NEW w \in Workers, Event(w) PROVE PlacesOK'
  BY <1>8 DEF Event
<1>9. ASSUME NEW w \in Workers, Recurse(w),
             UNCHANGED <<context, result, Listener, closes, loop, events>>
      PROVE  PlacesOK'
  <2>1. CASE accepting[w] = MaxFrames
    BY <1>9, <2>1 DEF Recurse
  <2>2. CASE accepting[w] # MaxFrames
    <3>1. accepting' = [accepting EXCEPT ![w] = @ + 1] /\ UNCHANGED fault
      BY <1>9, <2>2 DEF Recurse
    <3>2. accepting[w] + 1 \in 0..MaxFrames
      BY <2>2
    <3>3. accepting' \in [Workers -> 0..MaxFrames]
      BY <3>1, <3>2
    <3> QED
      BY <1>9, <3>1, <3>3
  <2> QED
    BY <2>1, <2>2
<1>10. ASSUME NEW w \in Workers, NEW c \in Clients, AcceptGets(w, c) PROVE PlacesOK'
  <2>1. accepting' = [accepting EXCEPT ![w] = 0]
    BY <1>10 DEF AcceptGets
  <2>2. accepting' \in [Workers -> 0..MaxFrames]
    BY <2>1
  <2> QED
    BY <1>10, <2>2 DEF AcceptGets
<1>11. CASE EpollWait \/ Lookup \/ EnqueueJob \/ LoopClose
  BY <1>11 DEF EpollWait, Lookup, EnqueueJob, LoopClose
<1> QED
  BY <1>1, <1>2, <1>4, <1>5, <1>6, <1>7, <1>8, <1>9, <1>10, <1>11
     DEF Next, AcceptFails, NonblockFails

LEMMA TypeInit == Init => HandleTypeOK
<1>1. Init => FlagsOK
  BY DEF Init, FlagsOK
<1>2. Init => SocketsOK
  BY DEF Init, SocketsOK
<1>3. Init => PlacesOK
  <2> SUFFICES ASSUME Init PROVE PlacesOK
    OBVIOUS
  <2>1. accepting \in [Workers -> 0..MaxFrames] /\ closes \in 0..MaxCloses
    BY BoundsAssumption DEF Init
  <2> QED
    BY <2>1 DEF Init, PlacesOK
<1> QED
  BY <1>1, <1>2, <1>3 DEF HandleTypeOK

LEMMA TypeStep == HandleTypeOK /\ [Next]_vars => HandleTypeOK'
BY FlagsStep, SocketsStep, PlacesStep DEF HandleTypeOK

\* Handle, listener and every set of sockets keep to their types.
THEOREM HandleTyped == Spec => []HandleTypeOK
BY TypeInit, TypeStep, PTL DEF Spec

-------------------------------------------------------------------------------
(* Who holds whom: a handle that listens holds itself and is there for good;  *)
(* a listener gone is registered nowhere, so nobody sets out for it any more. *)
Held ==
    /\ result = "listening" <=> Listener # "none"
    /\ result = "listening" => Self
    /\ Self => alive
    /\ registered => Listener = "live"
    /\ Listener = "freed" => closes >= 1
    /\ Listener = "freed" /\ Busy => busyAtClose
    /\ accepted # {} /\ fault = "none" => Listener = "live"

LEMMA HeldInit == Init => Held /\ ListenerOutlived
BY DEF Init, Held, ListenerOutlived, Busy, Accepting

\* What a step that leaves handle and listener alone must not do.
LEMMA HeldElsewhere ==
    ASSUME SocketsOK', Held, ListenerOutlived, UNCHANGED <<handleVars, Listener, registered>>,
           Busy' => Busy \/ Listener = "live", accepted' # accepted => Listener = "live",
           fault = "none", fault' = "freed" => Listener = "freed" /\ Busy
    PROVE  Held' /\ ListenerOutlived'
<1>1. jobs' # {} => accepted' # {}
  BY DEF SocketsOK
<1> QED
  BY <1>1 DEF Held, ListenerOutlived

LEMMA HeldStep == HandleTypeOK /\ HandleTypeOK' /\ Held /\ ListenerOutlived /\ [Next]_vars
                     => Held' /\ ListenerOutlived'
<1> SUFFICES ASSUME HandleTypeOK, HandleTypeOK', Held, ListenerOutlived, [Next]_vars
             PROVE  Held' /\ ListenerOutlived'
  OBVIOUS
<1>s. SocketsOK /\ SocketsOK' /\ events \in Nat
  BY DEF HandleTypeOK, PlacesOK
<1>1. CASE UNCHANGED vars
  BY <1>1 DEF Held, ListenerOutlived, Busy, Accepting
<1>2. CASE fault = "none" /\ (ListenFails \/ ListenThrows \/ Listens)
  <2>1. Listener = "none" /\ (Busy' => Busy) /\ accepted = {} /\ jobs = {}
    BY <1>2, <1>s DEF Held, ListenFails, ListenThrows, Listens, Busy, Accepting, SocketsOK
  <2> QED
    BY <1>2, <2>1 DEF Held, ListenerOutlived, ListenFails, ListenThrows, Listens
<1>3. CASE fault = "none" /\ Close
  <2>1. (Busy' <=> Busy) /\ UNCHANGED <<accepted, jobs>>
    BY <1>3 DEF Close, Busy, Accepting
  <2>2. (busyAtClose \/ Busy) => busyAtClose'
    BY <1>3 DEF Close
  <2>3. FreeListener /\ ~isListening' /\ UNCHANGED <<result, Self, alive>>
    BY <1>3 DEF Close
  <2>4. closes \in Nat /\ closes' = closes + 1
    BY <1>3, BoundsAssumption DEF Close, HandleTypeOK, PlacesOK
  <2>5. closes' >= 1 /\ (closes >= 1 => closes' > 1) /\ (closes > 1 => closes' > 1)
    BY <2>4
  <2>6. CASE Listener = "none"
    <3>1. UNCHANGED <<Listener, registered, fault>>
      BY <2>3, <2>6 DEF FreeListener, Faults
    <3> QED
      BY <2>1, <2>2, <2>3, <2>5, <2>6, <3>1, <1>3 DEF Held, ListenerOutlived
  <2>7. CASE Listener = "live"
    <3>1. /\ Listener' = "freed" /\ ~registered' /\ fault' \in {"none", "address"}
          /\ accepted # {} => fault' # "none"
      BY <2>3, <2>7, <1>3 DEF FreeListener, Faults
    <3>2. jobs # {} => accepted # {}
      BY <1>s DEF SocketsOK
    <3> QED
      BY <2>1, <2>2, <2>3, <2>5, <2>7, <3>1, <3>2 DEF Held, ListenerOutlived
  <2>8. CASE Listener = "freed"
    <3>1. Listener' = "freed" /\ (registered' <=> registered) /\ fault' = "freed"
      BY <2>3, <2>8 DEF FreeListener, Faults
    <3>2. closes' > 1
      BY <2>5, <2>8 DEF Held
    <3> QED
      BY <2>1, <2>2, <2>3, <2>5, <2>8, <3>1, <3>2 DEF Held, ListenerOutlived
  <2> QED
    BY <2>6, <2>7, <2>8 DEF HandleTypeOK, PlacesOK
<1>4. CASE fault = "none" /\ Release
  <2>1. (Busy' <=> Busy) /\ UNCHANGED <<accepted, jobs>>
    BY <1>4 DEF Release, Busy, Accepting
  <2>2. CASE Self
    BY <1>4, <2>1, <2>2 DEF Held, ListenerOutlived, Release
  <2>3. CASE ~Self
    <3>1. Listener = "none" /\ result # "listening"
      BY <2>3 DEF Held
    <3> QED
      BY <1>4, <2>1, <2>3, <3>1 DEF Held, ListenerOutlived, Release, FreeListener
  <2> QED
    BY <2>2, <2>3
<1>5. CASE fault = "none" /\ AcceptOnFreed
  BY <1>s, <1>5, HeldElsewhere DEF AcceptOnFreed, Busy, Accepting
<1>6. ASSUME NEW c \in Clients, Connects(c) \/ RunJob(c), fault = "none"
      PROVE  Held' /\ ListenerOutlived'
  <2>1. /\ UNCHANGED <<handleVars, Listener, registered, accepted>>
        /\ Busy' => Busy
        /\ fault' # "freed"
    BY <1>6 DEF Connects, RunJob, Drops, Links, Faults, Busy, Accepting
  <2> QED
    BY <1>s, <1>6, <2>1, HeldElsewhere
<1>7. CASE fault = "none" /\ (EpollWait \/ Lookup \/ EnqueueJob \/ LoopClose)
  <2>1. UNCHANGED <<handleVars, Listener, registered, accepted, fault>>
    BY <1>7 DEF EpollWait, Lookup, EnqueueJob, LoopClose
  <2>2. Busy' => Busy \/ Listener = "live"
    <3>1. CASE EpollWait \/ LoopClose
      BY <3>1 DEF EpollWait, LoopClose, Busy, Accepting
    <3>2. CASE Lookup
      BY <3>2 DEF Lookup, Busy, Accepting, Held
    <3>3. CASE EnqueueJob
      BY <3>3 DEF EnqueueJob, Busy, Accepting
    <3> QED
      BY <1>7, <3>1, <3>2, <3>3
  <2> QED
    BY <1>s, <1>7, <2>1, <2>2, HeldElsewhere
<1>8. ASSUME NEW w \in Workers, Event(w), fault = "none" PROVE Held' /\ ListenerOutlived'
  <2>1. /\ UNCHANGED <<handleVars, Listener, registered, accepted>> /\ events > 0
        /\ fault' = "freed" => Listener = "freed"
    BY <1>8 DEF Event, Faults
  <2>2. Busy
    BY <2>1 DEF Busy
  <2> QED
    BY <1>s, <1>8, <2>1, <2>2, HeldElsewhere
<1>9. ASSUME NEW w \in Workers, Recurse(w), fault = "none",
             UNCHANGED <<handleVars, Listener, registered>>
      PROVE  Held' /\ ListenerOutlived'
  <2>1. Listener = "live" /\ fault' # "freed"
    BY <1>9 DEF Recurse, Faults
  <2> QED
    BY <1>s, <1>9, <2>1, HeldElsewhere
<1>10. ASSUME NEW w \in Workers, NEW c \in Clients, AcceptGets(w, c), fault = "none"
       PROVE  Held' /\ ListenerOutlived'
  BY <1>s, <1>10, HeldElsewhere DEF AcceptGets
<1> QED
  BY <1>1, <1>2, <1>3, <1>4, <1>5, <1>6, <1>7, <1>8, <1>9, <1>10
     DEF Next, AcceptFails, NonblockFails

\* The listener's plain pointer to its handle never dangles, and a listener that
\* is gone is used only by a second Close of the user or by somebody who was on
\* the way to it at the first: nobody sets out for it later.
THEOREM OutlivedAlways == Spec => []ListenerOutlived
BY HeldInit, HeldStep, HandleTyped, PTL DEF Spec

-------------------------------------------------------------------------------
(* Sockets: nothing is accepted twice, and nothing before the handle listens. *)
Apart ==
    /\ backlog \cap accepted = {}
    /\ result = "none" => accepted = {} /\ open = {}
    /\ result # "listening" => backlog = {} /\ accepted = {}
    /\ accepted = jobs \cup dropped \cup lost
    /\ jobs \cap (dropped \cup lost) = {} /\ dropped \cap lost = {}
    /\ ~stale => open \ {L} = jobs \cup lost

LEMMA ApartInit == Init => Apart
BY DEF Init, Apart

LEMMA ApartStep ==
    HandleTypeOK /\ (fault = "none" => Apart) /\ [Next]_vars => (fault = "none" => Apart)'
<1> SUFFICES ASSUME HandleTypeOK, fault = "none" => Apart, [Next]_vars, fault' = "none"
             PROVE  Apart'
  OBVIOUS
<1>1. CASE UNCHANGED vars
  BY <1>1 DEF Apart
<1> SUFFICES ASSUME Next, Apart
             PROVE  Apart'
  BY <1>1 DEF Next
<1> USE SocketsAssumption DEF HandleTypeOK, Apart
<1>2. CASE ListenFails \/ ListenThrows \/ Listens
  BY <1>2 DEF ListenFails, ListenThrows, Listens
<1>3. CASE Close \/ Release \/ AcceptOnFreed
  BY <1>3 DEF Close, Release, AcceptOnFreed
<1>4. ASSUME NEW c \in Clients, Connects(c) PROVE Apart'
  BY <1>4 DEF Connects
<1>5. ASSUME NEW c \in Clients, RunJob(c) PROVE Apart'
  <2>1. PICK v : ReadsSocket(c, v) /\ (Drops(c, v) \/ Links(c, v))
    BY <1>5 DEF RunJob
  <2>2. Drops(c, v)
    BY <2>1 DEF Links, Faults
  <2>3. stale' \/ (v = c /\ ~stale)
    BY <2>1 DEF ReadsSocket
  <2>4. /\ c \in jobs /\ jobs' = jobs \ {c} /\ dropped' = dropped \cup {c}
        /\ open' = open \ {v}
        /\ UNCHANGED <<result, backlog, accepted, lost>>
    BY <1>5, <2>2 DEF RunJob, Drops
  <2> QED
    BY <2>3, <2>4
<1>6. ASSUME NEW w \in Workers, Event(w) \/ AcceptFails(w) PROVE Apart'
  BY <1>6 DEF Event, AcceptFails
<1>7. ASSUME NEW w \in Workers, NEW c \in Clients, NonblockFails(w, c) PROVE Apart'
  BY <1>7 DEF NonblockFails
<1>8. ASSUME NEW w \in Workers, NEW c \in Clients, AcceptGets(w, c) PROVE Apart'
  BY <1>8 DEF AcceptGets
<1>9. CASE EpollWait \/ Lookup \/ EnqueueJob \/ LoopClose
  BY <1>9 DEF EpollWait, Lookup, EnqueueJob, LoopClose
<1> QED
  BY <1>2, <1>3, <1>4, <1>5, <1>6, <1>7, <1>8, <1>9 DEF Next

\* Every connection ever accepted is in a job, dropped and closed, or lost, with
\* its socket open, unless a closure has read another's socket.
THEOREM AccountedAlways == Spec => []SocketsAccounted
<1>1. (fault = "none" => Apart) => SocketsAccounted
  BY DEF Apart, SocketsAccounted
<1> QED
  BY <1>1, ApartInit, ApartStep, HandleTyped, PTL DEF Spec
===============================================================================
