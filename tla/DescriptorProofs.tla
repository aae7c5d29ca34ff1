---------------------------- MODULE DescriptorProofs ----------------------------
(***************************************************************************)
(* Theorems of WinDescriptor and Descriptor, for any number of threads,     *)
(* calls and bytes and any size of the ring and of a header.                *)
(***************************************************************************)
EXTENDS Descriptor, WinDescriptor, FiniteSetTheorems, SequenceTheorems, TLAPS

-------------------------------------------------------------------------------
(* Totals.                                                                    *)

LEMMA UnitsOfOne ==
  ASSUME NEW x, NEW n \in Nat
  PROVE  IsFiniteSet({x} \X (1..n)) /\ Cardinality({x} \X (1..n)) = n
<1>1. IsFiniteSet({x}) /\ Cardinality({x}) = 1
  BY FS_Singleton
<1>2. IsFiniteSet(1..n) /\ Cardinality(1..n) = n
  BY FS_Interval
<1>3. /\ IsFiniteSet({x} \X (1..n))
      /\ Cardinality({x} \X (1..n)) = Cardinality({x}) * Cardinality(1..n)
  BY <1>1, <1>2, FS_Product, Zenon
<1>4. Cardinality(1..n) \in Nat /\ Cardinality(1..n) = n
  BY FS_Interval
<1> QED
  BY <1>1, <1>3, <1>4

LEMMA UnitsFinite ==
  ASSUME NEW S, IsFiniteSet(S), NEW f \in [S -> Nat]
  PROVE  IsFiniteSet(Units(f)) /\ Total(f) \in Nat
<1> DEFINE rows == {{x} \X (1..f[x]) : x \in S}
           row == [x \in S |-> {x} \X (1..f[x])]
<1>1. row \in Surjection(S, rows)
  BY DEF Surjection
<1>2. IsFiniteSet(rows)
  BY <1>1, FS_Surjection
<1>3. ASSUME NEW r \in rows PROVE IsFiniteSet(r)
  <2>1. PICK x \in S : r = {x} \X (1..f[x])
    OBVIOUS
  <2> QED
    BY <2>1, UnitsOfOne
<1>4. IsFiniteSet(UNION rows)
  BY <1>2, <1>3, FS_UNION
<1>5. Units(f) = UNION rows
  BY DEF Units
<1> QED
  BY <1>4, <1>5, FS_CardinalityType DEF Total

\* What changing one value does to a total.
LEMMA TotalChange ==
  ASSUME NEW S, IsFiniteSet(S), NEW f \in [S -> Nat], NEW g \in [S -> Nat], NEW x \in S,
         \A y \in S \ {x} : g[y] = f[y]
  PROVE  /\ Total(f) \in Nat /\ Total(g) \in Nat
         /\ Total(g) = Total(f) - f[x] + g[x]
<1> DEFINE rest == Units(f) \ ({x} \X (1..f[x]))
<1>1. ASSUME NEW h \in [S -> Nat], \A y \in S \ {x} : h[y] = f[y]
      PROVE  Total(h) = Cardinality(rest) + h[x]
  <2> DEFINE own == {x} \X (1..h[x])
  <2>1. Units(h) = rest \cup own
    BY <1>1 DEF Units
  <2>2. rest \cap own = {}
    BY <1>1 DEF Units
  <2>3. IsFiniteSet(rest)
    BY UnitsFinite, FS_Difference
  <2>4. IsFiniteSet(own) /\ Cardinality(own) = h[x]
    BY UnitsOfOne
  <2>5. Cardinality(rest) \in Nat
    BY <2>3, FS_CardinalityType
  <2> HIDE DEF rest, own
  <2>6. Cardinality(rest \cup own) = Cardinality(rest) + Cardinality(own) - 0
    BY <2>2, <2>3, <2>4, FS_Union, FS_EmptySet
  <2> QED
    BY <2>1, <2>4, <2>5, <2>6 DEF Total
<1>2. Cardinality(rest) \in Nat
  BY UnitsFinite, FS_Difference, FS_CardinalityType
<1>3. Total(f) = Cardinality(rest) + f[x]
  BY <1>1
<1>4. Total(g) = Cardinality(rest) + g[x]
  BY <1>1
<1> HIDE DEF rest
<1> QED
  BY <1>2, <1>3, <1>4, UnitsFinite

LEMMA TotalOfNothing ==
  ASSUME NEW S, NEW f \in [S -> Nat], \A x \in S : f[x] = 0
  PROVE  Total(f) = 0
<1>1. Units(f) = {}
  BY DEF Units
<1> QED
  BY <1>1, FS_EmptySet DEF Total

-------------------------------------------------------------------------------
(* The programs of the Windows descriptor.                                    *)

Programs == {<<>>,
             <<"test">>,
             <<"decrease", "test">>,
             <<"test", "decrease", "test">>,
             <<"decrease", "test", "decrease", "test">>,
             <<"recv", "decrease", "test">>,
             <<"read", "decrease", "test">>,
             <<"increase", "recv", "decrease", "test">>,
             <<"increase", "increase", "recv", "decrease", "test">>,
             <<"send">>,
             <<"put", "send">>,
             <<"increase", "put", "send">>}

ProgramOK == program \in [Threads -> Programs]

\* A program is taken from the front.
LEMMA TailCounts ==
  ASSUME NEW p \in Seq(Steps), p # <<>>, NEW S
  PROVE  /\ Count(Tail(p), S) \in Nat
         /\ Count(p, S) = Count(Tail(p), S) + (IF Head(p) \in S THEN 1 ELSE 0)
<1> DEFINE all == {i \in 1..Len(p) : p[i] \in S}
           tail == {i \in 1..Len(Tail(p)) : Tail(p)[i] \in S}
           next == [i \in tail |-> i + 1]
<1>1. /\ Len(p) \in Nat \ {0} /\ Len(Tail(p)) = Len(p) - 1
      /\ \A i \in 1..Len(Tail(p)) : Tail(p)[i] = p[i + 1]
      /\ Head(p) = p[1]
  BY HeadTailProperties
<1>2. next \in Bijection(tail, all \ {1})
  <2>1. \A i \in tail : i + 1 \in all \ {1}
    BY <1>1
  <2>2. \A j \in all \ {1} : j - 1 \in tail /\ j = (j - 1) + 1
    BY <1>1
  <2>3. \A i, k \in tail : i + 1 = k + 1 => i = k
    OBVIOUS
  <2> HIDE DEF tail, all
  <2>4. next \in [tail -> all \ {1}]
    BY <2>1
  <2>5. \A i \in tail : next[i] = i + 1
    OBVIOUS
  <2> HIDE DEF next
  <2>6. \A j \in all \ {1} : \E i \in tail : next[i] = j
    BY <2>2, <2>5
  <2>7. \A i, k \in tail : next[i] = next[k] => i = k
    BY <2>3, <2>5
  <2> QED
    BY <2>4, <2>6, <2>7 DEF Bijection, Injection, IsInjective, Surjection
<1>3. IsFiniteSet(tail) /\ IsFiniteSet(all)
  <2>1. IsFiniteSet(1..Len(p)) /\ IsFiniteSet(1..Len(Tail(p)))
    BY <1>1, FS_Interval
  <2> QED
    BY <2>1, FS_Subset
<1>4. Cardinality(all \ {1}) = Cardinality(tail)
  BY <1>2, <1>3, FS_Bijection DEF ExistsBijection
<1>5. Cardinality(all \ {1}) = IF 1 \in all THEN Cardinality(all) - 1 ELSE Cardinality(all)
  BY <1>3, FS_RemoveElement
<1>6. 1 \in all <=> Head(p) \in S
  BY <1>1
<1>7. Cardinality(all) \in Nat /\ Cardinality(tail) \in Nat
  BY <1>3, FS_CardinalityType
<1>8. Count(p, S) = Cardinality(all) /\ Count(Tail(p), S) = Cardinality(tail)
  BY DEF Count
<1> HIDE DEF all, tail
<1> QED
  BY <1>4, <1>5, <1>6, <1>7, <1>8

LEMMA NoSteps == ASSUME NEW S PROVE Count(<<>>, S) = 0
<1>1. {i \in 1..Len(<<>>) : <<>>[i] \in S} = {}
  OBVIOUS
<1> QED
  BY <1>1, FS_EmptySet DEF Count

\* What each program has to give back, and the receives it is about.
Gives(p) == Count(p, {"decrease", "recv", "send"})
Takes(p) == Count(p, {"increase"})
Receives(p) == Count(p, {"recv", "read"})
Owes(p, held, receives) == Held(p) = held /\ Receives(p) = receives

LEMMA FirstStep ==
  ASSUME NEW p \in Seq(Steps), p # <<>>
  PROVE  /\ Gives(Tail(p)) \in Nat /\ Takes(Tail(p)) \in Nat /\ Receives(Tail(p)) \in Nat
         /\ Gives(p) = IF Head(p) \in {"decrease", "recv", "send"}
                       THEN Gives(Tail(p)) + 1 ELSE Gives(Tail(p))
         /\ Takes(p) = IF Head(p) = "increase" THEN Takes(Tail(p)) + 1 ELSE Takes(Tail(p))
         /\ Receives(p) = IF Head(p) \in {"recv", "read"}
                          THEN Receives(Tail(p)) + 1 ELSE Receives(Tail(p))
  BY TailCounts DEF Gives, Takes, Receives

LEMMA ProgramsOwe ==
  /\ Owes(<<>>, 0, 0)
  /\ Owes(<<"test">>, 0, 0)
  /\ Owes(<<"decrease", "test">>, 1, 0)
  /\ Owes(<<"test", "decrease", "test">>, 1, 0)
  /\ Owes(<<"decrease", "test", "decrease", "test">>, 2, 0)
  /\ Owes(<<"recv", "decrease", "test">>, 2, 1)
  /\ Owes(<<"read", "decrease", "test">>, 1, 1)
  /\ Owes(<<"increase", "recv", "decrease", "test">>, 1, 1)
  /\ Owes(<<"increase", "increase", "recv", "decrease", "test">>, 0, 1)
  /\ Owes(<<"send">>, 1, 0)
  /\ Owes(<<"put", "send">>, 1, 0)
  /\ Owes(<<"increase", "put", "send">>, 0, 0)
<1>0. Gives(<<>>) = 0 /\ Takes(<<>>) = 0 /\ Receives(<<>>) = 0
  BY NoSteps DEF Gives, Takes, Receives
<1>1. Gives(<<"test">>) = 0 /\ Takes(<<"test">>) = 0 /\ Receives(<<"test">>) = 0
  <2>1. /\ <<"test">> \in Seq(Steps) /\ <<"test">> # <<>>
        /\ Head(<<"test">>) = "test"
        /\ Tail(<<"test">>) = <<>>
    BY DEF Steps
  <2>2. /\ Gives(<<"test">>) = Gives(Tail(<<"test">>))
        /\ Takes(<<"test">>) = Takes(Tail(<<"test">>))
        /\ Receives(<<"test">>) = Receives(Tail(<<"test">>))
    BY <2>1, FirstStep
  <2> QED
    BY <2>1, <2>2, <1>0
<1>2. Gives(<<"decrease", "test">>) = 1 /\ Takes(<<"decrease", "test">>) = 0 /\ Receives(<<"decrease", "test">>) = 0
  <2>1. /\ <<"decrease", "test">> \in Seq(Steps) /\ <<"decrease", "test">> # <<>>
        /\ Head(<<"decrease", "test">>) = "decrease"
        /\ Tail(<<"decrease", "test">>) = <<"test">>
    BY DEF Steps
  <2>2. /\ Gives(<<"decrease", "test">>) = Gives(Tail(<<"decrease", "test">>)) + 1
        /\ Takes(<<"decrease", "test">>) = Takes(Tail(<<"decrease", "test">>))
        /\ Receives(<<"decrease", "test">>) = Receives(Tail(<<"decrease", "test">>))
    BY <2>1, FirstStep
  <2> QED
    BY <2>1, <2>2, <1>1
<1>3. Gives(<<"test", "decrease", "test">>) = 1 /\ Takes(<<"test", "decrease", "test">>) = 0 /\ Receives(<<"test", "decrease", "test">>) = 0
  <2>1. /\ <<"test", "decrease", "test">> \in Seq(Steps) /\ <<"test", "decrease", "test">> # <<>>
        /\ Head(<<"test", "decrease", "test">>) = "test"
        /\ Tail(<<"test", "decrease", "test">>) = <<"decrease", "test">>
    BY DEF Steps
  <2>2. /\ Gives(<<"test", "decrease", "test">>) = Gives(Tail(<<"test", "decrease", "test">>))
        /\ Takes(<<"test", "decrease", "test">>) = Takes(Tail(<<"test", "decrease", "test">>))
        /\ Receives(<<"test", "decrease", "test">>) = Receives(Tail(<<"test", "decrease", "test">>))
    BY <2>1, FirstStep
  <2> QED
    BY <2>1, <2>2, <1>2
<1>4. Gives(<<"decrease", "test", "decrease", "test">>) = 2 /\ Takes(<<"decrease", "test", "decrease", "test">>) = 0 /\ Receives(<<"decrease", "test", "decrease", "test">>) = 0
  <2>1. /\ <<"decrease", "test", "decrease", "test">> \in Seq(Steps) /\ <<"decrease", "test", "decrease", "test">> # <<>>
        /\ Head(<<"decrease", "test", "decrease", "test">>) = "decrease"
        /\ Tail(<<"decrease", "test", "decrease", "test">>) = <<"test", "decrease", "test">>
    BY DEF Steps
  <2>2. /\ Gives(<<"decrease", "test", "decrease", "test">>) = Gives(Tail(<<"decrease", "test", "decrease", "test">>)) + 1
        /\ Takes(<<"decrease", "test", "decrease", "test">>) = Takes(Tail(<<"decrease", "test", "decrease", "test">>))
        /\ Receives(<<"decrease", "test", "decrease", "test">>) = Receives(Tail(<<"decrease", "test", "decrease", "test">>))
    BY <2>1, FirstStep
  <2> QED
    BY <2>1, <2>2, <1>3
<1>5. Gives(<<"recv", "decrease", "test">>) = 2 /\ Takes(<<"recv", "decrease", "test">>) = 0 /\ Receives(<<"recv", "decrease", "test">>) = 1
  <2>1. /\ <<"recv", "decrease", "test">> \in Seq(Steps) /\ <<"recv", "decrease", "test">> # <<>>
        /\ Head(<<"recv", "decrease", "test">>) = "recv"
        /\ Tail(<<"recv", "decrease", "test">>) = <<"decrease", "test">>
    BY DEF Steps
  <2>2. /\ Gives(<<"recv", "decrease", "test">>) = Gives(Tail(<<"recv", "decrease", "test">>)) + 1
        /\ Takes(<<"recv", "decrease", "test">>) = Takes(Tail(<<"recv", "decrease", "test">>))
        /\ Receives(<<"recv", "decrease", "test">>) = Receives(Tail(<<"recv", "decrease", "test">>)) + 1
    BY <2>1, FirstStep
  <2> QED
    BY <2>1, <2>2, <1>2
<1>6. Gives(<<"read", "decrease", "test">>) = 1 /\ Takes(<<"read", "decrease", "test">>) = 0 /\ Receives(<<"read", "decrease", "test">>) = 1
  <2>1. /\ <<"read", "decrease", "test">> \in Seq(Steps) /\ <<"read", "decrease", "test">> # <<>>
        /\ Head(<<"read", "decrease", "test">>) = "read"
        /\ Tail(<<"read", "decrease", "test">>) = <<"decrease", "test">>
    BY DEF Steps
  <2>2. /\ Gives(<<"read", "decrease", "test">>) = Gives(Tail(<<"read", "decrease", "test">>))
        /\ Takes(<<"read", "decrease", "test">>) = Takes(Tail(<<"read", "decrease", "test">>))
        /\ Receives(<<"read", "decrease", "test">>) = Receives(Tail(<<"read", "decrease", "test">>)) + 1
    BY <2>1, FirstStep
  <2> QED
    BY <2>1, <2>2, <1>2
<1>7. Gives(<<"increase", "recv", "decrease", "test">>) = 2 /\ Takes(<<"increase", "recv", "decrease", "test">>) = 1 /\ Receives(<<"increase", "recv", "decrease", "test">>) = 1
  <2>1. /\ <<"increase", "recv", "decrease", "test">> \in Seq(Steps) /\ <<"increase", "recv", "decrease", "test">> # <<>>
        /\ Head(<<"increase", "recv", "decrease", "test">>) = "increase"
        /\ Tail(<<"increase", "recv", "decrease", "test">>) = <<"recv", "decrease", "test">>
    BY DEF Steps
  <2>2. /\ Gives(<<"increase", "recv", "decrease", "test">>) = Gives(Tail(<<"increase", "recv", "decrease", "test">>))
        /\ Takes(<<"increase", "recv", "decrease", "test">>) = Takes(Tail(<<"increase", "recv", "decrease", "test">>)) + 1
        /\ Receives(<<"increase", "recv", "decrease", "test">>) = Receives(Tail(<<"increase", "recv", "decrease", "test">>))
    BY <2>1, FirstStep
  <2> QED
    BY <2>1, <2>2, <1>5
<1>8. Gives(<<"increase", "increase", "recv", "decrease", "test">>) = 2 /\ Takes(<<"increase", "increase", "recv", "decrease", "test">>) = 2 /\ Receives(<<"increase", "increase", "recv", "decrease", "test">>) = 1
  <2>1. /\ <<"increase", "increase", "recv", "decrease", "test">> \in Seq(Steps) /\ <<"increase", "increase", "recv", "decrease", "test">> # <<>>
        /\ Head(<<"increase", "increase", "recv", "decrease", "test">>) = "increase"
        /\ Tail(<<"increase", "increase", "recv", "decrease", "test">>) = <<"increase", "recv", "decrease", "test">>
    BY DEF Steps
  <2>2. /\ Gives(<<"increase", "increase", "recv", "decrease", "test">>) = Gives(Tail(<<"increase", "increase", "recv", "decrease", "test">>))
        /\ Takes(<<"increase", "increase", "recv", "decrease", "test">>) = Takes(Tail(<<"increase", "increase", "recv", "decrease", "test">>)) + 1
        /\ Receives(<<"increase", "increase", "recv", "decrease", "test">>) = Receives(Tail(<<"increase", "increase", "recv", "decrease", "test">>))
    BY <2>1, FirstStep
  <2> QED
    BY <2>1, <2>2, <1>7
<1>9. Gives(<<"send">>) = 1 /\ Takes(<<"send">>) = 0 /\ Receives(<<"send">>) = 0
  <2>1. /\ <<"send">> \in Seq(Steps) /\ <<"send">> # <<>>
        /\ Head(<<"send">>) = "send"
        /\ Tail(<<"send">>) = <<>>
    BY DEF Steps
  <2>2. /\ Gives(<<"send">>) = Gives(Tail(<<"send">>)) + 1
        /\ Takes(<<"send">>) = Takes(Tail(<<"send">>))
        /\ Receives(<<"send">>) = Receives(Tail(<<"send">>))
    BY <2>1, FirstStep
  <2> QED
    BY <2>1, <2>2, <1>0
<1>10. Gives(<<"put", "send">>) = 1 /\ Takes(<<"put", "send">>) = 0 /\ Receives(<<"put", "send">>) = 0
  <2>1. /\ <<"put", "send">> \in Seq(Steps) /\ <<"put", "send">> # <<>>
        /\ Head(<<"put", "send">>) = "put"
        /\ Tail(<<"put", "send">>) = <<"send">>
    BY DEF Steps
  <2>2. /\ Gives(<<"put", "send">>) = Gives(Tail(<<"put", "send">>))
        /\ Takes(<<"put", "send">>) = Takes(Tail(<<"put", "send">>))
        /\ Receives(<<"put", "send">>) = Receives(Tail(<<"put", "send">>))
    BY <2>1, FirstStep
  <2> QED
    BY <2>1, <2>2, <1>9
<1>11. Gives(<<"increase", "put", "send">>) = 1 /\ Takes(<<"increase", "put", "send">>) = 1 /\ Receives(<<"increase", "put", "send">>) = 0
  <2>1. /\ <<"increase", "put", "send">> \in Seq(Steps) /\ <<"increase", "put", "send">> # <<>>
        /\ Head(<<"increase", "put", "send">>) = "increase"
        /\ Tail(<<"increase", "put", "send">>) = <<"put", "send">>
    BY DEF Steps
  <2>2. /\ Gives(<<"increase", "put", "send">>) = Gives(Tail(<<"increase", "put", "send">>))
        /\ Takes(<<"increase", "put", "send">>) = Takes(Tail(<<"increase", "put", "send">>)) + 1
        /\ Receives(<<"increase", "put", "send">>) = Receives(Tail(<<"increase", "put", "send">>))
    BY <2>1, FirstStep
  <2> QED
    BY <2>1, <2>2, <1>10
<1> QED
  BY <1>0, <1>1, <1>2, <1>3, <1>4, <1>5, <1>6, <1>7, <1>8, <1>9, <1>10, <1>11 DEF Owes, Held, Gives, Takes

\* Short programs joined.
LEMMA Join12 ==
  ASSUME NEW a, NEW b, NEW c
  PROVE  <<a>> \o <<b, c>> = <<a, b, c>>
<1> DEFINE S == {a, b, c}
<1>1. <<a>> \in Seq(S) /\ <<b, c>> \in Seq(S) /\ <<a, b, c>> \in Seq(S)
  OBVIOUS
<1>2. Len(<<a>>) = 1 /\ Len(<<b, c>>) = 2 /\ Len(<<a, b, c>>) = 3
  OBVIOUS
<1>3. <<a>> \o <<b, c>> \in Seq(S) /\ Len(<<a>> \o <<b, c>>) = 3
  BY <1>1, <1>2, ConcatProperties
<1>4. \A i \in 1..3 : (<<a>> \o <<b, c>>)[i] = <<a, b, c>>[i]
  BY <1>1, <1>2, ConcatProperties
<1> QED
  BY <1>1, <1>2, <1>3, <1>4, SeqEqual

LEMMA Join22 ==
  ASSUME NEW a, NEW b, NEW c, NEW d
  PROVE  <<a, b>> \o <<c, d>> = <<a, b, c, d>>
<1> DEFINE S == {a, b, c, d}
<1>1. <<a, b>> \in Seq(S) /\ <<c, d>> \in Seq(S) /\ <<a, b, c, d>> \in Seq(S)
  OBVIOUS
<1>2. Len(<<a, b>>) = 2 /\ Len(<<c, d>>) = 2 /\ Len(<<a, b, c, d>>) = 4
  OBVIOUS
<1>3. <<a, b>> \o <<c, d>> \in Seq(S) /\ Len(<<a, b>> \o <<c, d>>) = 4
  BY <1>1, <1>2, ConcatProperties
<1>4. \A i \in 1..4 : (<<a, b>> \o <<c, d>>)[i] = <<a, b, c, d>>[i]
  BY <1>1, <1>2, ConcatProperties
<1> QED
  BY <1>1, <1>2, <1>3, <1>4, SeqEqual

LEMMA Join32 ==
  ASSUME NEW a, NEW b, NEW c, NEW d, NEW e
  PROVE  <<a, b, c>> \o <<d, e>> = <<a, b, c, d, e>>
<1> DEFINE S == {a, b, c, d, e}
<1>1. <<a, b, c>> \in Seq(S) /\ <<d, e>> \in Seq(S) /\ <<a, b, c, d, e>> \in Seq(S)
  OBVIOUS
<1>2. Len(<<a, b, c>>) = 3 /\ Len(<<d, e>>) = 2 /\ Len(<<a, b, c, d, e>>) = 5
  OBVIOUS
<1>3. <<a, b, c>> \o <<d, e>> \in Seq(S) /\ Len(<<a, b, c>> \o <<d, e>>) = 5
  BY <1>1, <1>2, ConcatProperties
<1>4. \A i \in 1..5 : (<<a, b, c>> \o <<d, e>>)[i] = <<a, b, c, d, e>>[i]
  BY <1>1, <1>2, ConcatProperties
<1> QED
  BY <1>1, <1>2, <1>3, <1>4, SeqEqual

LEMMA FinishedPrograms ==
  /\ Finish = <<"decrease", "test">>
  /\ Finish \o <<>> = <<"decrease", "test">>
  /\ Finish \o <<"decrease", "test">> = <<"decrease", "test", "decrease", "test">>
  /\ ReadSteps \o <<"decrease", "test">> = <<"increase", "recv", "decrease", "test">>
  /\ <<"increase">> \o ReadSteps \o Finish = <<"increase", "increase", "recv", "decrease", "test">>
  /\ <<"read">> \o Finish = <<"read", "decrease", "test">>
<1>1. Finish \o <<>> = <<"decrease", "test">>
  BY DEF Finish
<1>2. Finish \o <<"decrease", "test">> = <<"decrease", "test", "decrease", "test">>
  BY Join22, Zenon DEF Finish
<1>3. ReadSteps \o <<"decrease", "test">> = <<"increase", "recv", "decrease", "test">>
  BY Join22, Zenon DEF ReadSteps
<1>4. <<"increase">> \o ReadSteps = <<"increase", "increase", "recv">>
  BY Join12, Zenon DEF ReadSteps
<1>5. <<"increase", "increase", "recv">> \o Finish
         = <<"increase", "increase", "recv", "decrease", "test">>
  BY Join32, Zenon DEF Finish
<1>6. <<"read">> \o Finish = <<"read", "decrease", "test">>
  BY Join12, Zenon DEF Finish
<1> QED
  BY <1>1, <1>2, <1>3, <1>4, <1>5, <1>6, Zenon DEF Finish

\* A program p that becomes q holds so many references more, and is about so
\* many receives more.
Effect(p, q, held, receives) ==
    /\ q \in Programs
    /\ Held(p) \in 0..2 /\ Held(q) \in 0..2 /\ Held(q) = Held(p) + held
    /\ Receives(p) \in 0..1 /\ Receives(q) \in 0..1 /\ Receives(q) = Receives(p) + receives

\* What the handlers and the calls begin with.
LEMMA Beginnings ==
  /\ Effect(<<>>, <<"increase">> \o ReadSteps \o Finish, 0, 1)
  /\ Effect(<<>>, <<"increase", "put", "send">>, 0, 0)
  /\ Effect(<<>>, <<"read">> \o Finish, 1, 1)
  /\ Effect(<<>>, Finish, 1, 0)
<1>1. Effect(<<>>, <<"increase", "increase", "recv", "decrease", "test">>, 0, 1)
  BY ProgramsOwe DEF Effect, Owes, Programs
<1>2. Effect(<<>>, <<"increase", "put", "send">>, 0, 0)
  BY ProgramsOwe DEF Effect, Owes, Programs
<1>3. Effect(<<>>, <<"read", "decrease", "test">>, 1, 1)
  BY ProgramsOwe DEF Effect, Owes, Programs
<1>4. Effect(<<>>, <<"decrease", "test">>, 1, 0)
  BY ProgramsOwe DEF Effect, Owes, Programs
<1> QED
  BY <1>1, <1>2, <1>3, <1>4, FinishedPrograms, Zenon

\* What each step does to the program it is taken from.
After(p, q) ==
    /\ Head(p) = "increase" => Effect(p, q, 1, 0) /\ q # <<>>
    /\ Head(p) = "decrease" => Effect(p, q, -1, 0) /\ q # <<>>
    /\ Head(p) = "test" => Effect(p, q, 0, 0)
    /\ Head(p) = "recv" => Effect(p, q, -1, -1) /\ q # <<>> /\ Effect(p, Finish \o q, 0, -1)
    /\ Head(p) = "send" => Effect(p, q, -1, 0) /\ Effect(p, Finish, 0, 0) /\ Finish \o q = Finish
    /\ Head(p) = "put" => Effect(p, q, 0, 0) /\ q # <<>> /\ Effect(p, Finish, 0, 0)
    /\ Head(p) = "read" => /\ Effect(p, q, 0, -1) /\ q # <<>>
                           /\ Effect(p, ReadSteps \o q, 0, 0)

LEMMA StepEffects ==
  ASSUME NEW p \in Programs, p # <<>>
  PROVE  After(p, Tail(p))
<1>2. CASE p = <<"test">>
  <2>1. Head(p) = "test" /\ Tail(p) = <<>> /\ Tail(p) \in Programs
    BY <1>2 DEF Programs
  <2> QED
    BY <1>2, <2>1, FinishedPrograms, ProgramsOwe DEF After, Effect, Owes, Programs
<1>3. CASE p = <<"decrease", "test">>
  <2>1. Head(p) = "decrease" /\ Tail(p) = <<"test">> /\ Tail(p) \in Programs
    BY <1>3 DEF Programs
  <2> QED
    BY <1>3, <2>1, FinishedPrograms, ProgramsOwe DEF After, Effect, Owes, Programs
<1>4. CASE p = <<"test", "decrease", "test">>
  <2>1. Head(p) = "test" /\ Tail(p) = <<"decrease", "test">> /\ Tail(p) \in Programs
    BY <1>4 DEF Programs
  <2> QED
    BY <1>4, <2>1, FinishedPrograms, ProgramsOwe DEF After, Effect, Owes, Programs
<1>5. CASE p = <<"decrease", "test", "decrease", "test">>
  <2>1. Head(p) = "decrease" /\ Tail(p) = <<"test", "decrease", "test">> /\ Tail(p) \in Programs
    BY <1>5 DEF Programs
  <2> QED
    BY <1>5, <2>1, FinishedPrograms, ProgramsOwe DEF After, Effect, Owes, Programs
<1>6. CASE p = <<"recv", "decrease", "test">>
  <2>1. Head(p) = "recv" /\ Tail(p) = <<"decrease", "test">> /\ Tail(p) \in Programs
    BY <1>6 DEF Programs
  <2>2. Effect(p, Tail(p), -1, -1) /\ Tail(p) # <<>>
    BY <1>6, <2>1, ProgramsOwe DEF Effect, Owes, Programs
  <2>3. Effect(p, <<"decrease", "test", "decrease", "test">>, 0, -1)
    BY <1>6, ProgramsOwe DEF Effect, Owes, Programs
  <2>4. Finish \o Tail(p) = <<"decrease", "test", "decrease", "test">>
    BY <2>1, FinishedPrograms, Zenon
  <2> QED
    BY <2>1, <2>2, <2>3, <2>4 DEF After
<1>7. CASE p = <<"read", "decrease", "test">>
  <2>1. Head(p) = "read" /\ Tail(p) = <<"decrease", "test">> /\ Tail(p) \in Programs
    BY <1>7 DEF Programs
  <2>2. Effect(p, Tail(p), 0, -1) /\ Tail(p) # <<>>
    BY <1>7, <2>1, ProgramsOwe DEF Effect, Owes, Programs
  <2>3. Effect(p, <<"increase", "recv", "decrease", "test">>, 0, 0)
    BY <1>7, ProgramsOwe DEF Effect, Owes, Programs
  <2>4. ReadSteps \o Tail(p) = <<"increase", "recv", "decrease", "test">>
    BY <2>1, FinishedPrograms, Zenon
  <2> QED
    BY <2>1, <2>2, <2>3, <2>4 DEF After
<1>8. CASE p = <<"increase", "recv", "decrease", "test">>
  <2>1. Head(p) = "increase" /\ Tail(p) = <<"recv", "decrease", "test">> /\ Tail(p) \in Programs
    BY <1>8 DEF Programs
  <2> QED
    BY <1>8, <2>1, FinishedPrograms, ProgramsOwe DEF After, Effect, Owes, Programs
<1>9. CASE p = <<"increase", "increase", "recv", "decrease", "test">>
  <2>1. Head(p) = "increase" /\ Tail(p) = <<"increase", "recv", "decrease", "test">> /\ Tail(p) \in Programs
    BY <1>9 DEF Programs
  <2> QED
    BY <1>9, <2>1, FinishedPrograms, ProgramsOwe DEF After, Effect, Owes, Programs
<1>10. CASE p = <<"send">>
  <2>1. Head(p) = "send" /\ Tail(p) = <<>> /\ Tail(p) \in Programs
    BY <1>10 DEF Programs
  <2> QED
    BY <1>10, <2>1, FinishedPrograms, ProgramsOwe DEF After, Effect, Owes, Programs
<1>11. CASE p = <<"put", "send">>
  <2>1. Head(p) = "put" /\ Tail(p) = <<"send">> /\ Tail(p) \in Programs
    BY <1>11 DEF Programs
  <2> QED
    BY <1>11, <2>1, FinishedPrograms, ProgramsOwe DEF After, Effect, Owes, Programs
<1>12. CASE p = <<"increase", "put", "send">>
  <2>1. Head(p) = "increase" /\ Tail(p) = <<"put", "send">> /\ Tail(p) \in Programs
    BY <1>12 DEF Programs
  <2> QED
    BY <1>12, <2>1, FinishedPrograms, ProgramsOwe DEF After, Effect, Owes, Programs
<1> QED
  BY <1>2, <1>3, <1>4, <1>5, <1>6, <1>7, <1>8, <1>9, <1>10, <1>11, <1>12 DEF Programs

-------------------------------------------------------------------------------
(* The counter.                                                               *)

HeldTotal == Total([t \in Threads |-> Held(program[t])])
ReceiveTotal == Total([t \in Threads |-> Count(program[t], {"recv", "read"})])

\* What a step that changes one program does to the totals.
Moves(h, r) ==
    /\ ProgramOK'
    /\ HeldTotal \in Nat /\ HeldTotal' \in Nat /\ HeldTotal' = HeldTotal + h
    /\ ReceiveTotal \in Nat /\ ReceiveTotal' \in Nat /\ ReceiveTotal' = ReceiveTotal + r

\* A thread goes on with a program of another effect.
LEMMA Continued ==
  ASSUME ProgramOK, NEW t \in Threads, NEW q, NEW h \in Int, NEW r \in Int,
         Effect(program[t], q, h, r), Continues(t, q)
  PROVE  Moves(h, r)
<1> DEFINE held == [u \in Threads |-> Held(program[u])]
           held2 == [u \in Threads |-> Held(program'[u])]
           recv == [u \in Threads |-> Receives(program[u])]
           recv2 == [u \in Threads |-> Receives(program'[u])]
<1>1. program' = [program EXCEPT ![t] = q] /\ q \in Programs
  BY DEF Continues, Effect
<1>2. ProgramOK' /\ program'[t] = q /\ \A u \in Threads \ {t} : program'[u] = program[u]
  BY <1>1 DEF ProgramOK
<1>3. ASSUME NEW p \in Programs PROVE Held(p) \in Nat /\ Receives(p) \in Nat
  <2>1. \E m \in 0..2, k \in 0..1 : Owes(p, m, k)
    <3>1. 0 \in 0..2 /\ 1 \in 0..2 /\ 2 \in 0..2 /\ 0 \in 0..1 /\ 1 \in 0..1
      OBVIOUS
    <3> QED
      BY <3>1, ProgramsOwe, Zenon DEF Programs
  <2> QED
    BY <2>1 DEF Owes
<1>4. /\ held \in [Threads -> Nat] /\ held2 \in [Threads -> Nat]
      /\ recv \in [Threads -> Nat] /\ recv2 \in [Threads -> Nat]
  BY <1>2, <1>3 DEF ProgramOK
<1>5. /\ \A u \in Threads \ {t} : held2[u] = held[u] /\ recv2[u] = recv[u]
      /\ held2[t] = held[t] + h /\ recv2[t] = recv[t] + r
  BY <1>2 DEF Effect
<1>6. /\ HeldTotal = Total(held) /\ HeldTotal' = Total(held2)
      /\ ReceiveTotal = Total(recv) /\ ReceiveTotal' = Total(recv2)
  BY DEF HeldTotal, ReceiveTotal, Receives
<1>7. held[t] \in Nat /\ recv[t] \in Nat
  BY <1>4
<1> HIDE DEF held, held2, recv, recv2
<1>8. Total(held) \in Nat /\ Total(held2) \in Nat /\ Total(held2) = Total(held) - held[t] + held2[t]
  BY <1>4, <1>5, ThreadsAssumption, TotalChange
<1>9. Total(recv) \in Nat /\ Total(recv2) \in Nat /\ Total(recv2) = Total(recv) - recv[t] + recv2[t]
  BY <1>4, <1>5, ThreadsAssumption, TotalChange
<1> QED
  BY <1>2, <1>5, <1>6, <1>7, <1>8, <1>9 DEF Moves

\* The strengthening: a thread is inside one of the known programs, and before
\* Enable nothing is received.
Numbers == /\ counter \in Int /\ start \in Int
           /\ recvs \in Nat /\ sends \in Nat /\ leaked \in Nat /\ writes \in Nat
Counter == counter = start + recvs + sends + leaked + HeldTotal
Receiving == recvs + ReceiveTotal <= 1 /\ (~enabled => recvs + ReceiveTotal = 0)

WinInv == ProgramOK /\ Numbers /\ Counter /\ Receiving /\ EndNotMissed

LEMMA WinInvInitially == WinInit => WinInv
<1> SUFFICES ASSUME WinInit PROVE WinInv
  OBVIOUS
<1>1. ProgramOK /\ \A t \in Threads : program[t] = <<>>
  BY DEF WinInit, ProgramOK, Programs
<1>2. Held(<<>>) = 0 /\ Receives(<<>>) = 0
  BY ProgramsOwe DEF Owes
<1>3. HeldTotal = 0
  <2>1. [t \in Threads |-> Held(program[t])] \in [Threads -> Nat]
    BY <1>1, <1>2
  <2> QED
    BY <1>1, <1>2, <2>1, TotalOfNothing DEF HeldTotal
<1>4. ReceiveTotal = 0
  <2>1. [t \in Threads |-> Count(program[t], {"recv", "read"})] \in [Threads -> Nat]
    BY <1>1, <1>2 DEF Receives
  <2> QED
    BY <1>1, <1>2, <2>1, TotalOfNothing DEF ReceiveTotal, Receives
<1>5. Numbers
  BY StartsAssumption DEF WinInit, Numbers
<1> QED
  BY <1>1, <1>3, <1>4, <1>5 DEF WinInit, WinInv, Counter, Receiving, EndNotMissed, Numbers

LEMMA AboveItsStart ==
  ASSUME NEW s \in Int, NEW a \in Nat, NEW b \in Nat, NEW c \in Nat, NEW d \in Nat,
         a + b + c > 0, s >= 0
  PROVE  s + a + b + c + d # 0
OBVIOUS

LEMMA WinInvKept == WinInv /\ [WinNext]_winVars => WinInv'
<1> SUFFICES ASSUME WinInv, [WinNext]_winVars PROVE WinInv'
  OBVIOUS
<1> ProgramOK /\ Numbers /\ Counter /\ Receiving /\ EndNotMissed
  BY DEF WinInv
<1> USE DEF kernelVars, callVars
<1>c. ASSUME NEW t \in Threads, NEW q, NEW h \in Int, NEW r \in Int,
             Effect(program[t], q, h, r), Continues(t, q)
      PROVE  Moves(h, r)
  BY <1>c, Continued
<1>i. 0 \in Int /\ 1 \in Int /\ -1 \in Int
  OBVIOUS
<1>e. ASSUME NEW t \in Threads, program'[t] # <<>> PROVE EndNotMissed'
  BY <1>e DEF EndNotMissed
<1>n. ASSUME NEW t \in Threads, NEW q, Continues(t, q), q # <<>>, ProgramOK
      PROVE  program'[t] # <<>>
  BY <1>n DEF Continues, ProgramOK
<1>a. ASSUME NEW t \in Threads, NEW s, At(t, s)
      PROVE  After(program[t], Rest(t)) /\ Head(program[t]) = s
  BY <1>a, StepEffects DEF ProgramOK, At, Rest
<1>q. ASSUME Numbers', ProgramOK', Counter', Receiving', EndNotMissed' PROVE WinInv'
  BY <1>q DEF WinInv
<1>1. CASE UNCHANGED winVars
  <2>1. HeldTotal' = HeldTotal /\ ReceiveTotal' = ReceiveTotal
    BY <1>1 DEF winVars, HeldTotal, ReceiveTotal
  <2> QED
    BY <1>1, <2>1 DEF winVars, WinInv, ProgramOK, Numbers, Counter, Receiving, EndNotMissed
<1>2. CASE Die
  <2>1. HeldTotal' = HeldTotal /\ ReceiveTotal' = ReceiveTotal
    BY <1>2 DEF Die, HeldTotal, ReceiveTotal
  <2> QED
    BY <1>2, <2>1 DEF Die, WinInv, ProgramOK, Numbers, Counter, Receiving, EndNotMissed
<1>3. ASSUME NEW t \in Threads, Enable(t) PROVE WinInv'
  <2>1. Effect(program[t], <<"increase">> \o ReadSteps \o Finish, 0, 1)
    BY <1>3, Beginnings DEF Enable
  <2>2. Continues(t, <<"increase">> \o ReadSteps \o Finish)
    BY <1>3 DEF Enable
  <2>3. Moves(0, 1)
    BY <1>c, <1>i, <2>1, <2>2, Zenon
  <2>4. <<"increase">> \o ReadSteps \o Finish # <<>>
    BY FinishedPrograms
  <2>5. program'[t] # <<>>
    BY <1>n, <2>2, <2>4
  <2>6. Numbers' /\ Counter' /\ Receiving'
    BY <1>3, <2>3 DEF Enable, Numbers, Counter, Receiving, Moves
  <2> QED
    BY <1>e, <1>q, <2>3, <2>5, <2>6 DEF Moves
<1>4. ASSUME NEW t \in Threads, WinWrite(t) PROVE WinInv'
  <2>1. Effect(program[t], <<"increase", "put", "send">>, 0, 0)
    BY <1>4, Beginnings DEF WinWrite
  <2>2. Continues(t, <<"increase", "put", "send">>)
    BY <1>4 DEF WinWrite
  <2>3. Moves(0, 0)
    BY <1>c, <1>i, <2>1, <2>2, Zenon
  <2>4. program'[t] # <<>>
    BY <1>n, <2>2
  <2>5. Numbers' /\ Counter' /\ Receiving'
    BY <1>4, <2>3 DEF WinWrite, Numbers, Counter, Receiving, Moves
  <2> QED
    BY <1>e, <1>q, <2>3, <2>4, <2>5 DEF Moves
<1>5. ASSUME NEW t \in Threads, IncreaseCounter(t) PROVE WinInv'
  <2>1. /\ Effect(program[t], Rest(t), 1, 0) /\ Rest(t) # <<>>
        /\ Continues(t, Rest(t))
    BY <1>5, <1>a DEF IncreaseCounter, After
  <2>2. Moves(1, 0)
    BY <1>c, <1>i, <2>1, Zenon
  <2>3. program'[t] # <<>>
    BY <1>n, <2>1
  <2> QED
    BY <1>5, <1>e, <1>q, <2>2, <2>3 DEF IncreaseCounter, Numbers, Counter, Receiving, Moves
<1>6. ASSUME NEW t \in Threads, DecreaseCounter(t) PROVE WinInv'
  <2>1. /\ Effect(program[t], Rest(t), -1, 0) /\ Rest(t) # <<>>
        /\ Continues(t, Rest(t))
    BY <1>6, <1>a DEF DecreaseCounter, After
  <2>2. Moves(-1, 0)
    BY <1>c, <1>i, <2>1, Zenon
  <2>3. program'[t] # <<>>
    BY <1>n, <2>1
  <2> QED
    BY <1>6, <1>e, <1>q, <2>2, <2>3 DEF DecreaseCounter, Numbers, Counter, Receiving, Moves
<1>7. ASSUME NEW t \in Threads, TestCounter(t) PROVE WinInv'
  <2>1. Effect(program[t], Rest(t), 0, 0) /\ Continues(t, Rest(t))
    BY <1>7, <1>a DEF TestCounter, After
  <2>2. Moves(0, 0)
    BY <1>c, <1>i, <2>1, Zenon
  <2>3. EndNotMissed'
    BY <1>7 DEF TestCounter, EndNotMissed
  <2> QED
    BY <1>7, <1>q, <2>2, <2>3 DEF TestCounter, Numbers, Counter, Receiving, Moves
<1>8. ASSUME NEW t \in Threads, Put(t), ~Die PROVE WinInv'
  <2>1. /\ After(program[t], Rest(t)) /\ Head(program[t]) = "put"
        /\ \/ Continues(t, Rest(t)) \/ Continues(t, Finish)
        /\ UNCHANGED <<counter, recvs, sends, start, enabled, writes, leaked, ended>>
    BY <1>8, <1>a DEF Put
  <2>2. /\ Effect(program[t], Rest(t), 0, 0) /\ Rest(t) # <<>>
        /\ Effect(program[t], Finish, 0, 0) /\ Finish # <<>>
    BY <2>1 DEF After, Finish
  <2>3. Moves(0, 0)
    BY <1>c, <1>i, <2>1, <2>2, Zenon
  <2>4. program'[t] # <<>>
    BY <1>n, <2>1, <2>2
  <2> QED
    BY <1>e, <1>q, <2>1, <2>3, <2>4 DEF Numbers, Counter, Receiving, Moves
<1>9. ASSUME NEW t \in Threads, Post(t, "recv") PROVE WinInv'
  <2>1. /\ Effect(program[t], Rest(t), -1, -1) /\ Rest(t) # <<>>
        /\ Effect(program[t], Finish \o Rest(t), 0, -1)
    BY <1>9, <1>a DEF Post, After
  <2>2. UNCHANGED <<counter, start, enabled, writes, ended>>
    BY <1>9 DEF Post
  <2>3. Finish \o Rest(t) # <<>>
    BY <2>1, ProgramsOwe DEF Effect, Owes, Finish
  <2>4. CASE Posted(t, "recv")
    <3>1. /\ Continues(t, Rest(t)) /\ recvs' = recvs + 1 /\ UNCHANGED <<sends, leaked>>
      BY <2>4 DEF Posted
    <3>2. Moves(-1, -1)
      BY <1>c, <1>i, <2>1, <3>1, Zenon
    <3>3. program'[t] # <<>>
      BY <1>n, <2>1, <3>1
    <3> QED
      BY <1>e, <1>q, <2>2, <3>1, <3>2, <3>3 DEF Numbers, Counter, Receiving, Moves
  <2>5. CASE PostFails(t)
    <3>1. Continues(t, Finish \o Rest(t)) /\ UNCHANGED <<recvs, sends, leaked>>
      BY <2>5 DEF PostFails
    <3>2. Moves(0, -1)
      BY <1>c, <1>i, <2>1, <3>1, Zenon
    <3>3. program'[t] # <<>>
      BY <1>n, <2>3, <3>1
    <3>4. Numbers' /\ Counter' /\ Receiving'
      BY <2>2, <3>1, <3>2 DEF Numbers, Counter, Receiving, Moves
    <3> QED
      BY <1>e, <1>q, <3>2, <3>3, <3>4 DEF Moves
  <2>6. CASE WouldBlock(t)
    <3>1. Continues(t, Rest(t)) /\ leaked' = leaked + 1 /\ UNCHANGED <<recvs, sends>>
      BY <2>6 DEF WouldBlock
    <3>2. Moves(-1, -1)
      BY <1>c, <1>i, <2>1, <3>1, Zenon
    <3>3. program'[t] # <<>>
      BY <1>n, <2>1, <3>1
    <3> QED
      BY <1>e, <1>q, <2>2, <3>1, <3>2, <3>3 DEF Numbers, Counter, Receiving, Moves
  <2> QED
    BY <1>9, <2>4, <2>5, <2>6 DEF Post
<1>10. ASSUME NEW t \in Threads, Post(t, "send") PROVE WinInv'
  <2>1. /\ Effect(program[t], Rest(t), -1, 0)
        /\ Effect(program[t], Finish, 0, 0) /\ Finish \o Rest(t) = Finish
    BY <1>10, <1>a DEF Post, After
  <2>2. UNCHANGED <<counter, start, enabled, writes, ended>>
    BY <1>10 DEF Post
  \* An operation on its way keeps the counter above its start.
  <2>n. ASSUME HeldTotal' \in Nat, Numbers', Counter', recvs' + sends' + leaked' > 0
        PROVE  EndNotMissed'
    <3>1. /\ counter' = start' + recvs' + sends' + leaked' + HeldTotal'
          /\ start' \in Int /\ recvs' \in Nat /\ sends' \in Nat /\ leaked' \in Nat
      BY <2>n DEF Numbers, Counter, Moves
    <3>2. start' >= 0 => counter' # 0
      BY <2>n, <3>1, AboveItsStart
    <3> QED
      BY <3>2 DEF EndNotMissed
  <2>4. CASE Posted(t, "send")
    <3>1. /\ Continues(t, Rest(t)) /\ sends' = sends + 1 /\ UNCHANGED <<recvs, leaked>>
      BY <2>4 DEF Posted
    <3>2. Moves(-1, 0)
      BY <1>c, <1>i, <2>1, <3>1, Zenon
    <3>3. Numbers' /\ Counter' /\ Receiving' /\ recvs' + sends' + leaked' > 0
      BY <2>2, <3>1, <3>2 DEF Numbers, Counter, Receiving, Moves
    <3> QED
      BY <1>q, <2>n, <3>2, <3>3 DEF Moves
  <2>5. CASE PostFails(t)
    <3>1. Continues(t, Finish) /\ UNCHANGED <<recvs, sends, leaked>>
      BY <2>1, <2>5 DEF PostFails
    <3>2. Moves(0, 0)
      BY <1>c, <1>i, <2>1, <3>1, Zenon
    <3>3. program'[t] # <<>>
      BY <1>n, <3>1 DEF Finish
    <3>4. Numbers' /\ Counter' /\ Receiving'
      BY <2>2, <3>1, <3>2 DEF Numbers, Counter, Receiving, Moves
    <3> QED
      BY <1>e, <1>q, <3>2, <3>3, <3>4 DEF Moves
  <2>6. CASE WouldBlock(t)
    <3>1. Continues(t, Rest(t)) /\ leaked' = leaked + 1 /\ UNCHANGED <<recvs, sends>>
      BY <2>6 DEF WouldBlock
    <3>2. Moves(-1, 0)
      BY <1>c, <1>i, <2>1, <3>1, Zenon
    <3>3. Numbers' /\ Counter' /\ Receiving' /\ recvs' + sends' + leaked' > 0
      BY <2>2, <3>1, <3>2 DEF Numbers, Counter, Receiving, Moves
    <3> QED
      BY <1>q, <2>n, <3>2, <3>3 DEF Moves
  <2> QED
    BY <1>10, <2>4, <2>5, <2>6 DEF Post
<1>11. ASSUME NEW t \in Threads, ReadAnswers(t) PROVE WinInv'
  <2>1. /\ Effect(program[t], Rest(t), 0, -1) /\ Rest(t) # <<>>
        /\ Effect(program[t], ReadSteps \o Rest(t), 0, 0)
    BY <1>11, <1>a DEF ReadAnswers, After
  <2>2. UNCHANGED <<counter, recvs, sends, start, enabled, writes, leaked, ended>>
    BY <1>11 DEF ReadAnswers
  <2>3. ReadSteps \o Rest(t) # <<>>
    BY <2>1, ProgramsOwe DEF Effect, Owes, ReadSteps
  <2>4. CASE Continues(t, Rest(t))
    <3>1. Moves(0, -1)
      BY <1>c, <1>i, <2>1, <2>4, Zenon
    <3>2. program'[t] # <<>>
      BY <1>n, <2>1, <2>4
    <3>3. Numbers' /\ Counter' /\ Receiving'
      BY <2>2, <3>1 DEF Numbers, Counter, Receiving, Moves
    <3> QED
      BY <1>e, <1>q, <3>1, <3>2, <3>3 DEF Moves
  <2>5. CASE Continues(t, ReadSteps \o Rest(t))
    <3>1. Moves(0, 0)
      BY <1>c, <1>i, <2>1, <2>5, Zenon
    <3>2. program'[t] # <<>>
      BY <1>n, <2>3, <2>5
    <3>3. Numbers' /\ Counter' /\ Receiving'
      BY <2>2, <3>1 DEF Numbers, Counter, Receiving, Moves
    <3> QED
      BY <1>e, <1>q, <3>1, <3>2, <3>3 DEF Moves
  <2> QED
    BY <1>11, <2>4, <2>5 DEF ReadAnswers
<1>12. ASSUME NEW t \in Threads, CompleteRecv(t) PROVE WinInv'
  <2>1. Effect(program[t], <<"read">> \o Finish, 1, 1) /\ Continues(t, <<"read">> \o Finish)
    BY <1>12, Beginnings DEF CompleteRecv
  <2>2. Moves(1, 1)
    BY <1>c, <1>i, <2>1, Zenon
  <2>3. program'[t] # <<>>
    BY <1>n, <2>1, FinishedPrograms
  <2>4. Numbers' /\ Counter' /\ Receiving'
    BY <1>12, <2>2 DEF CompleteRecv, Numbers, Counter, Receiving, Moves
  <2> QED
    BY <1>e, <1>q, <2>2, <2>3, <2>4 DEF Moves
<1>13. ASSUME NEW t \in Threads, CompleteSend(t) \/ OperationFails(t), ~Die PROVE WinInv'
  <2>1. /\ program[t] = <<>> /\ Continues(t, Finish)
        /\ UNCHANGED <<counter, start, enabled, writes, leaked, ended>>
        /\ \/ recvs > 0 /\ recvs' = recvs - 1 /\ sends' = sends
           \/ sends > 0 /\ sends' = sends - 1 /\ recvs' = recvs
    BY <1>13 DEF CompleteSend, OperationFails
  <2>2. Effect(program[t], Finish, 1, 0)
    BY <2>1, Beginnings
  <2>3. Moves(1, 0)
    BY <1>c, <1>i, <2>1, <2>2, Zenon
  <2>4. program'[t] # <<>>
    BY <1>n, <2>1 DEF Finish
  <2>5. Numbers' /\ Counter' /\ Receiving'
    <3>1. CASE recvs > 0 /\ recvs' = recvs - 1 /\ sends' = sends
      BY <2>1, <2>3, <3>1 DEF Numbers, Counter, Receiving, Moves
    <3>2. CASE sends > 0 /\ sends' = sends - 1 /\ recvs' = recvs
      BY <2>1, <2>3, <3>2 DEF Numbers, Counter, Receiving, Moves
    <3> QED
      BY <2>1, <3>1, <3>2
  <2> QED
    BY <1>e, <1>q, <2>3, <2>4, <2>5 DEF Moves
<1> QED
  BY <1>1, <1>2, <1>3, <1>4, <1>5, <1>6, <1>7, <1>8, <1>9, <1>10, <1>11, <1>12, <1>13
  DEF WinNext, Step

LEMMA WinInvAlways == WinSpec => []WinInv
  BY WinInvInitially, WinInvKept, PTL DEF WinSpec

\* Whatever the error cases, completions and their order: the counter counts the
\* references in use.
THEOREM CounterAlwaysExact == WinSpec => []CounterExact
<1>1. WinInv => CounterExact
  BY DEF WinInv, Counter, HeldTotal, CounterExact
<1> QED
  BY <1>1, WinInvAlways, PTL

\* Its return to 0 is reported: the thread that brings it there tests it next,
\* and an operation on its way keeps it up.
THEOREM EndNeverMissed == WinSpec => []EndNotMissed
<1>1. WinInv => EndNotMissed
  BY DEF WinInv
<1> QED
  BY <1>1, WinInvAlways, PTL

\* The receive is handed on, from Enable to the operation to its completion: there
\* is one at most.
THEOREM OneReceiveAtATime == WinSpec => []OneReceive
<1>1. WinInv => OneReceive
  BY DEF WinInv, Receiving, ReceiveTotal, OneReceive
<1> QED
  BY <1>1, WinInvAlways, PTL

-------------------------------------------------------------------------------
(* The POSIX descriptor.                                                      *)

Used == Ring!GetUseSize

\* The ring holds the last bytes written, in their order.
InOrder == \A i \in 1..Used : Buffer[Ring!TakeCell(i)] = written - Used + i

Alone == \A v, w \in Workers : at[v] # "out" /\ at[w] # "out" => v = w

\* A frame about to be sent is a header and the next bytes of the ring.
Framed == \A w \in Workers : at[w] = "write" =>
             \A i \in 1..Len(StreamBuffer[w]) :
                StreamBuffer[w][i] = IF i <= HeaderSize THEN Header
                                     ELSE written - Used + (i - HeaderSize)

\* A byte is never earlier on the wire than where it was written.
OnWire == \A i \in 1..Len(wire) : wire[i] <= i

PosixInv == /\ TypeOK /\ WireConserved /\ OnceUnlessOverlapping
            /\ ~overlapped => Alone
            /\ ~terminated /\ ~confused => InOrder
            /\ ~terminated /\ ~overlapped /\ ~confused => Framed
            /\ ~overlapped /\ ~confused => OnWire

LEMMA UsedRange ==
  Ring!TypeOK => /\ Front \in 0..BufferSize /\ Rear \in 0..BufferSize /\ Used \in 0..BufferSize
                 /\ Ring!GetFreeSize = BufferSize - Used
  BY BufferSizeAssumption DEF Ring!TypeOK, Ring!GetUseSize, Ring!GetFreeSize, Used

LEMMA FrameIsSeq ==
  ASSUME NEW S, NEW n \in Nat, NEW f \in [1..n -> S]
  PROVE  Len(f) = n /\ f \in Seq(S)
  OBVIOUS

\* An accepted put appends, unless it fills the ring behind a Front other than 0.
LEMMA RingPut ==
  ASSUME Ring!TypeOK, NEW n \in Nat, NEW data \in [1..n -> 0..MaxBytes],
         Ring!PutData(data), ~terminated'
  PROVE  /\ n > 0 /\ Ring!TypeOK'
         /\ ~(Used + n = BufferSize /\ Front > 0) =>
              /\ Used' = Used + n
              /\ \A i \in 1..Used : Buffer'[Ring!TakeCell(i)'] = Buffer[Ring!TakeCell(i)]
              /\ \A i \in (Used + 1)..(Used + n) : Buffer'[Ring!TakeCell(i)'] = data[i - Used]
<1>1. Len(data) = n /\ data \in Seq(0..MaxBytes)
  BY FrameIsSeq
<1>0. /\ Front \in 0..BufferSize /\ Rear \in 0..BufferSize /\ Used \in 0..BufferSize
      /\ Ring!GetFreeSize = BufferSize - Used
  BY UsedRange
<1>2. /\ n > 0 /\ n <= BufferSize - Used
      /\ Buffer' = Ring!Stored(data) /\ Rear' = Ring!RearAfter(n) /\ io' = data
      /\ Front' = Front /\ terminated' = terminated
  BY <1>0, <1>1 DEF Ring!PutData, Ring!Throw, Ring!Accepted
<1>r. n > 0 /\ n <= BufferSize - Used /\ Rear' = Ring!RearAfter(n) /\ Front' = Front
  BY <1>2
<1>3. Rear' \in 0..BufferSize
  BY <1>0, <1>r, BufferSizeAssumption DEF Ring!RearAfter, Ring!GetUseSize, Used
<1>4. \A j, k \in 1..n : Ring!PutCell(j) = Ring!PutCell(k) => j = k
  BY <1>0, <1>r, BufferSizeAssumption DEF Ring!PutCell, Ring!GetUseSize, Used
<1>5. \A j \in 1..n : Ring!PutCell(j) \in Ring!Cell
  BY <1>0, <1>r, BufferSizeAssumption DEF Ring!PutCell, Ring!GetUseSize, Used, Ring!Cell
<1>6. \A i \in 1..Used : Ring!TakeCell(i) \in Ring!Cell
  BY <1>0, BufferSizeAssumption DEF Ring!TakeCell, Ring!GetUseSize, Used, Ring!Cell
<1>7. \A i \in 1..Used, j \in 1..n : Ring!PutCell(j) # Ring!TakeCell(i)
  BY <1>0, <1>r, BufferSizeAssumption DEF Ring!TakeCell, Ring!PutCell, Ring!GetUseSize, Used
<1>8. \A j \in 1..n : Ring!Stored(data)[Ring!PutCell(j)] = data[j]
  BY <1>1, <1>4, <1>5 DEF Ring!Stored
<1>9. \A i \in 1..Used : Ring!Stored(data)[Ring!TakeCell(i)] = Buffer[Ring!TakeCell(i)]
  BY <1>1, <1>6, <1>7 DEF Ring!Stored
<1>10. Ring!Stored(data) \in [Ring!Cell -> 0..MaxBytes]
  <2> SUFFICES ASSUME NEW c \in Ring!Cell PROVE Ring!Stored(data)[c] \in 0..MaxBytes
    BY DEF Ring!Stored
  <2>1. CASE \E j \in 1..n : Ring!PutCell(j) = c
    BY <1>8, <2>1
  <2>2. CASE ~ \E j \in 1..n : Ring!PutCell(j) = c
    BY <1>1, <2>2 DEF Ring!Stored, Ring!TypeOK
  <2> QED
    BY <2>1, <2>2
<1>11. Ring!TypeOK'
  BY <1>1, <1>2, <1>3, <1>10 DEF Ring!TypeOK
<1>12. ASSUME ~(Used + n = BufferSize /\ Front > 0)
       PROVE  /\ Used' = Used + n
              /\ \A i \in 1..Used : Ring!TakeCell(i)' = Ring!TakeCell(i)
              /\ \A i \in (Used + 1)..(Used + n) : Ring!TakeCell(i)' = Ring!PutCell(i - Used)
  <2>1. Used' = Used + n
    BY <1>0, <1>r, <1>12, BufferSizeAssumption DEF Ring!RearAfter, Ring!GetUseSize, Used
  <2>2. \A i \in 1..Used : Ring!TakeCell(i)' = Ring!TakeCell(i)
    BY <1>0, <1>r, <1>12, BufferSizeAssumption
    DEF Ring!RearAfter, Ring!GetUseSize, Used, Ring!TakeCell
  <2>3. ASSUME NEW i \in (Used + 1)..(Used + n)
        PROVE  Ring!TakeCell(i)' = Ring!PutCell(i - Used)
    BY <1>0, <1>r, <1>12, BufferSizeAssumption
    DEF Ring!RearAfter, Ring!GetUseSize, Used, Ring!TakeCell, Ring!PutCell
  <2> QED
    BY <2>1, <2>2, <2>3
<1>13. \A i \in (Used + 1)..(Used + n) : i - Used \in 1..n
  BY <1>0
<1> QED
  BY <1>2, <1>8, <1>9, <1>11, <1>12, <1>13

\* An accepted move takes the oldest bytes, unless it drains a ring whose Rear is
\* at the end.
LEMMA RingMove ==
  ASSUME Ring!TypeOK, NEW n \in Int, Ring!MoveReadPostion(n), ~terminated'
  PROVE  /\ n \in 1..Used /\ Ring!TypeOK'
         /\ ~(Rear = BufferSize /\ n = Used) =>
              /\ Used' = Used - n
              /\ \A i \in 1..(Used - n) : Buffer'[Ring!TakeCell(i)'] = Buffer[Ring!TakeCell(n + i)]
<1>1. /\ Front \in 0..BufferSize /\ Rear \in 0..BufferSize /\ Used \in 0..BufferSize
  BY UsedRange
<1>2. /\ 0 < n /\ n <= Used /\ UNCHANGED <<Rear, Buffer, terminated>> /\ io' = <<>>
      /\ Front' = IF Ring!FrontAfter(n) = BufferSize THEN 0 ELSE Ring!FrontAfter(n)
  BY <1>1 DEF Ring!MoveReadPostion, Ring!Throw, Ring!Accepted, Used
<1>3. /\ n \in 1..Used /\ Rear' = Rear
      /\ Front' = IF Ring!FrontAfter(n) = BufferSize THEN 0 ELSE Ring!FrontAfter(n)
  BY <1>1, <1>2
<1>4. Front' \in 0..BufferSize
  BY <1>1, <1>3, BufferSizeAssumption DEF Ring!FrontAfter, Ring!GetUseSize, Used
<1>5. <<>> \in Seq(0..MaxBytes)
  OBVIOUS
<1>6. Ring!TypeOK'
  BY <1>2, <1>4, <1>5 DEF Ring!TypeOK
<1>7. ASSUME ~(Rear = BufferSize /\ n = Used)
      PROVE  /\ Used' = Used - n
             /\ \A i \in 1..(Used - n) : Ring!TakeCell(i)' = Ring!TakeCell(n + i)
  <2>1. CASE Front <= Rear
    <3>1. n <= Rear - Front
      BY <1>1, <1>3, <2>1 DEF Used, Ring!GetUseSize
    <3>2. Front' = Front + n
      BY <1>1, <1>3, <1>7, <2>1, <3>1 DEF Ring!FrontAfter, Used, Ring!GetUseSize
    <3> QED
      BY <1>1, <1>3, <2>1, <3>1, <3>2 DEF Ring!TakeCell, Used, Ring!GetUseSize
  <2>2. CASE Rear < Front /\ n > BufferSize - Front
    <3>1. Front' = n - (BufferSize - Front) /\ Front' <= Rear
      BY <1>1, <1>3, <2>2, BufferSizeAssumption DEF Ring!FrontAfter, Used, Ring!GetUseSize
    <3> QED
      BY <1>1, <1>3, <2>2, <3>1, BufferSizeAssumption DEF Ring!TakeCell, Used, Ring!GetUseSize
  <2>3. CASE Rear < Front /\ n < BufferSize - Front
    <3>1. Front' = Front + n
      BY <1>1, <1>3, <2>3, BufferSizeAssumption DEF Ring!FrontAfter
    <3> QED
      BY <1>1, <1>3, <2>3, <3>1, BufferSizeAssumption DEF Ring!TakeCell, Used, Ring!GetUseSize
  <2>4. CASE Rear < Front /\ n = BufferSize - Front
    <3>1. Front' = 0
      BY <1>1, <1>3, <2>4, BufferSizeAssumption DEF Ring!FrontAfter
    <3> QED
      BY <1>1, <1>3, <2>4, <3>1, BufferSizeAssumption DEF Ring!TakeCell, Used, Ring!GetUseSize
  <2>5. \/ Front <= Rear
        \/ Rear < Front /\ n > BufferSize - Front
        \/ Rear < Front /\ n < BufferSize - Front
        \/ Rear < Front /\ n = BufferSize - Front
    BY <1>1, <1>3, BufferSizeAssumption
  <2> QED
    BY <2>1, <2>2, <2>3, <2>4, <2>5
<1> QED
  BY <1>2, <1>3, <1>6, <1>7

LEMMA SmallMod == ASSUME NEW m \in Nat, NEW k \in Nat, k < m PROVE k % m = k
  OBVIOUS

LEMMA HeadOfJoin ==
  ASSUME NEW x, NEW S, NEW s \in Seq(S), x \in S
  PROVE  (<<x>> \o s)[1] = x
<1>1. <<x>> \in Seq(S) /\ Len(<<x>>) = 1
  OBVIOUS
<1> QED
  BY <1>1, ConcatProperties

\* What a worker collects are some of the oldest bytes.
LEMMA FirstSegment ==
  ASSUME Ring!TypeOK
  PROVE  /\ Ring!GetReadBufferAndLengths[1].length \in 0..Used
         /\ \A n \in 0..Used : Ring!BytesIn(n) \in [1..n -> 0..MaxBytes]
<1> DEFINE u == Ring!GetNotBrokenGetSize
<1>1. /\ Front \in 0..BufferSize /\ Rear \in 0..BufferSize /\ Used \in 0..BufferSize
  BY UsedRange
<1>2. u \in 0..Used
  <2>1. u = IF Front <= Rear THEN Rear - Front ELSE BufferSize - Front
    BY DEF Ring!GetNotBrokenGetSize
  <2>2. Used = IF Rear >= Front THEN Rear - Front ELSE BufferSize - Front + Rear
    BY DEF Used, Ring!GetUseSize
  <2> HIDE DEF u
  <2> QED
    BY <1>1, <2>1, <2>2, BufferSizeAssumption
<1> HIDE DEF u
<1>3. u % (2 * BufferSize + 1) = u
  <2>1. 2 * BufferSize + 1 \in Nat /\ u < 2 * BufferSize + 1 /\ u \in Nat
    BY <1>1, <1>2, BufferSizeAssumption
  <2> QED
    BY <2>1, SmallMod
<1>4. Ring!GetReadBufferAndLengths[1].length = u
  <2> DEFINE x == [start |-> Front, length |-> u]
             y == [start |-> 0, length |-> Used - u]
             rest == IF u < Used THEN <<y>> ELSE <<>>
  <2>1. Ring!GetReadBufferAndLengths = <<x>> \o rest
    BY <1>3 DEF Ring!GetReadBufferAndLengths, Ring!Segments, u, Used
  <2> HIDE DEF x, y
  <2>2. rest \in Seq({x, y}) /\ x \in {x, y}
    <3>1. <<y>> \in Seq({x, y}) /\ <<>> \in Seq({x, y})
      OBVIOUS
    <3> QED
      BY <3>1, Zenon
  <2> HIDE DEF rest
  <2>3. (<<x>> \o rest)[1] = x
    BY <2>2, HeadOfJoin
  <2> QED
    BY <2>1, <2>3 DEF x
<1>5. \A i \in 1..Used : Ring!TakeCell(i) \in Ring!Cell
  BY <1>1, BufferSizeAssumption DEF Ring!TakeCell, Ring!GetUseSize, Used, Ring!Cell
<1>6. \A i \in 1..Used : Buffer[Ring!TakeCell(i)] \in 0..MaxBytes
  BY <1>5 DEF Ring!TypeOK
<1>7. ASSUME NEW n \in 0..Used PROVE Ring!BytesIn(n) \in [1..n -> 0..MaxBytes]
  BY <1>1, <1>6 DEF Ring!BytesIn
<1> QED
  BY <1>2, <1>4, <1>7

LEMMA SerializeType ==
  ASSUME NEW n \in Nat, NEW data \in [1..n -> 0..MaxBytes]
  PROVE  /\ Serialize(data) \in Seq(0..MaxBytes) /\ Len(Serialize(data)) = HeaderSize + n
         /\ \A i \in 1..(HeaderSize + n) :
               Serialize(data)[i] = IF i <= HeaderSize THEN Header ELSE data[i - HeaderSize]
<1> DEFINE head == [i \in 1..HeaderSize |-> Header]
<1>1. head \in [1..HeaderSize -> 0..MaxBytes] /\ HeaderSize \in Nat
  BY HeaderSizeAssumption, BoundsAssumption DEF Header
<1>2. head \in Seq(0..MaxBytes) /\ Len(head) = HeaderSize
  BY <1>1, FrameIsSeq
<1>3. data \in Seq(0..MaxBytes) /\ Len(data) = n
  BY FrameIsSeq
<1>4. \A i \in 1..HeaderSize : head[i] = Header
  OBVIOUS
<1>5. Serialize(data) = head \o data
  BY DEF Serialize
<1> HIDE DEF head
<1>6. /\ head \o data \in Seq(0..MaxBytes) /\ Len(head \o data) = HeaderSize + n
      /\ \A i \in 1..(HeaderSize + n) :
            (head \o data)[i] = IF i <= HeaderSize THEN head[i] ELSE data[i - HeaderSize]
  BY <1>2, <1>3, ConcatProperties
<1>7. \A i \in 1..(HeaderSize + n) : i <= HeaderSize => i \in 1..HeaderSize
  BY <1>1
<1> QED
  BY <1>4, <1>5, <1>6, <1>7

\* What the answer a worker still has to act on adds to Pending.
Answered == [w \in Workers |-> IF at[w] = "move" /\ ret[w] > 0 THEN ret[w] ELSE 0]

LEMMA PendingChange ==
  ASSUME TypeOK, TypeOK', NEW w \in Workers,
         \A v \in Workers \ {w} : at'[v] = at[v] /\ ret'[v] = ret[v]
  PROVE  /\ Pending \in Nat /\ Pending' \in Nat
         /\ Pending' = Pending - Answered[w] + Answered'[w]
         /\ Answered[w] = IF at[w] = "move" /\ ret[w] > 0 THEN ret[w] ELSE 0
         /\ Answered'[w] = IF at'[w] = "move" /\ ret'[w] > 0 THEN ret'[w] ELSE 0
<1>1. Answered \in [Workers -> Nat] /\ Answered' \in [Workers -> Nat]
  BY DEF TypeOK, Answered
<1>2. \A v \in Workers \ {w} : Answered'[v] = Answered[v]
  BY DEF Answered
<1>3. Pending = Total(Answered) /\ Pending' = Total(Answered')
  BY DEF Pending, Answered
<1>4. /\ Total(Answered) \in Nat /\ Total(Answered') \in Nat
      /\ Total(Answered') = Total(Answered) - Answered[w] + Answered'[w]
  BY <1>1, <1>2, WorkersAssumption, TotalChange
<1>5. /\ Answered[w] = IF at[w] = "move" /\ ret[w] > 0 THEN ret[w] ELSE 0
      /\ Answered'[w] = IF at'[w] = "move" /\ ret'[w] > 0 THEN ret'[w] ELSE 0
  BY DEF Answered
<1> QED
  BY <1>3, <1>4, <1>5

LEMMA PendingNat == TypeOK => Pending \in Nat
<1> SUFFICES ASSUME TypeOK PROVE Pending \in Nat
  OBVIOUS
<1>1. Answered \in [Workers -> Nat]
  BY DEF TypeOK, Answered
<1> QED
  BY <1>1, WorkersAssumption, UnitsFinite DEF Pending, Answered

\* Nobody else is inside, so no answer is waiting.
LEMMA NothingPending ==
  ASSUME TypeOK, Alone, NEW w \in Workers, at[w] = "write"
  PROVE  Pending = 0
<1>1. Answered \in [Workers -> Nat]
  BY DEF TypeOK, Answered
<1>2. \A v \in Workers : at[v] # "move"
  BY DEF Alone
<1>3. \A v \in Workers : Answered[v] = 0
  BY <1>2 DEF Answered
<1> QED
  BY <1>1, <1>3, TotalOfNothing DEF Pending, Answered

LEMMA PosixInvInitially == Init => PosixInv
<1> SUFFICES ASSUME Init PROVE PosixInv
  OBVIOUS
<1>0. Front = 0 /\ Rear = 0
  BY DEF Init, Ring!Init
<1>1. terminated = FALSE /\ Buffer = [c \in Ring!Cell |-> Header] /\ io = <<>>
  BY DEF Init, Ring!Init
<1>2. 0 \in 0..MaxBytes /\ <<>> \in Seq(0..MaxBytes)
  BY BoundsAssumption
<1>3. Ring!TypeOK
  <2>1. Front \in 0..BufferSize /\ Rear \in 0..BufferSize
    BY <1>0, BufferSizeAssumption
  <2> QED
    BY <1>1, <1>2, <2>1 DEF Ring!TypeOK, Header
<1>4. TypeOK
  <2>1. /\ StreamBuffer \in [Workers -> Seq(0..MaxBytes)] /\ ret \in [Workers -> Int]
        /\ at \in [Workers -> {"out", "write", "move"}]
    BY <1>2 DEF Init
  <2> QED
    BY <1>2, <1>3, <2>1 DEF Init, TypeOK
<1>5. Used = 0
  BY <1>0 DEF Used, Ring!GetUseSize
<1>6. Pending = 0
  <2>1. Answered \in [Workers -> Nat] /\ \A w \in Workers : Answered[w] = 0
    BY DEF Init, Answered
  <2> QED
    BY <2>1, TotalOfNothing DEF Pending, Answered
<1>7. written = 0 /\ Len(wire) = 0 /\ \A w \in Workers : at[w] = "out"
  BY DEF Init
<1>8. WireConserved
  BY <1>5, <1>6, <1>7 DEF WireConserved, Used
<1> QED
  BY <1>4, <1>5, <1>7, <1>8 DEF PosixInv, OnceUnlessOverlapping, Alone, InOrder, Framed, OnWire

\* What is left of the invariant once the process has ended: the wire.
LEMMA Ended ==
  ASSUME PosixInv, TypeOK', terminated', wire' = wire, confused => confused', overlapped' = overlapped,
         at' = at \/ \E w \in Workers : at' = [at EXCEPT ![w] = "out"]
  PROVE  PosixInv'
<1>1. Alone => Alone'
  BY DEF TypeOK, PosixInv, Alone
<1>2. WireConserved' /\ (OnceUnlessOverlapping => OnceUnlessOverlapping')
  BY DEF WireConserved, OnceUnlessOverlapping
<1>3. OnWire => OnWire'
  BY DEF OnWire
<1> QED
  BY <1>1, <1>2, <1>3 DEF PosixInv

LEMMA WriteKeeps ==
  ASSUME PosixInv, ~terminated, NEW n \in 0..(BufferSize + 1), Write(n)
  PROVE  PosixInv'
<1> DEFINE data == [i \in 1..n |-> written + i]
<1>1. /\ TypeOK /\ Ring!TypeOK /\ WireConserved /\ written \in 0..MaxBytes
      /\ ~confused => InOrder
  BY DEF PosixInv, TypeOK
<1>2. n \in Nat /\ data \in [1..n -> 0..MaxBytes]
  BY <1>1, BufferSizeAssumption, BoundsAssumption DEF Write
<1>3. /\ Ring!PutData(data) /\ UNCHANGED <<StreamBuffer, ret, at, wire, overlapped>>
      /\ written' = IF terminated' THEN written ELSE written + n
      /\ confused' = (confused \/ (Used + n = BufferSize /\ Front > 0))
      /\ written + n <= MaxBytes
  BY DEF Write, Used, workerVars
<1>4. ASSUME Ring!TypeOK' PROVE TypeOK'
  <2>1. written' \in 0..MaxBytes
    BY <1>1, <1>2, <1>3
  <2>2. confused' \in BOOLEAN
    BY <1>3
  <2> QED
    BY <1>1, <1>3, <1>4, <2>1, <2>2 DEF TypeOK
<1>5. CASE terminated'
  <2>1. UNCHANGED <<Front, Rear, Buffer, io>>
    BY <1>3, <1>5 DEF Ring!PutData, Ring!Throw
  <2>2. Ring!TypeOK'
    BY <1>1, <1>5, <2>1 DEF Ring!TypeOK
  <2> QED
    BY <1>3, <1>4, <1>5, <2>2, Ended
<1>6. CASE ~terminated'
  <2> HIDE DEF data
  <2>1. /\ n > 0 /\ Ring!TypeOK'
        /\ ~(Used + n = BufferSize /\ Front > 0) =>
              /\ Used' = Used + n
              /\ \A i \in 1..Used : Buffer'[Ring!TakeCell(i)'] = Buffer[Ring!TakeCell(i)]
              /\ \A i \in (Used + 1)..(Used + n) : Buffer'[Ring!TakeCell(i)'] = data[i - Used]
    BY <1>1, <1>2, <1>3, <1>6, RingPut
  <2>2. TypeOK'
    BY <1>4, <2>1
  <2>3. Used \in 0..BufferSize /\ written' = written + n
    BY <1>1, <1>3, <1>6, UsedRange
  <2>4. ASSUME ~confused'
        PROVE  /\ ~confused /\ Used' = Used + n /\ written' - Used' = written - Used
               /\ WireConserved' /\ InOrder'
    <3>1. /\ ~confused /\ Used' = Used + n
          /\ \A i \in 1..Used : Buffer'[Ring!TakeCell(i)'] = Buffer[Ring!TakeCell(i)]
          /\ \A i \in (Used + 1)..(Used + n) : Buffer'[Ring!TakeCell(i)'] = data[i - Used]
      BY <1>3, <2>1, <2>4
    <3>2. written' - Used' = written - Used
      BY <1>1, <1>2, <2>3, <3>1
    <3>3. Pending' = Pending
      BY <1>3 DEF Pending
    <3>4. WireConserved'
      BY <1>1, <1>3, <3>1, <3>2, <3>3 DEF WireConserved, Used
    <3>5. ASSUME NEW i \in 1..Used' PROVE Buffer'[Ring!TakeCell(i)'] = written' - Used' + i
      <4>1. CASE i \in 1..Used
        <5>1. Buffer[Ring!TakeCell(i)] = written - Used + i
          BY <1>1, <3>1, <4>1 DEF InOrder
        <5> QED
          BY <3>1, <3>2, <4>1, <5>1
      <4>2. CASE i \in (Used + 1)..(Used + n)
        <5>1. i - Used \in 1..n
          BY <1>2, <2>3, <4>2
        <5>2. data[i - Used] = written + (i - Used)
          BY <5>1 DEF data
        <5> QED
          BY <1>1, <2>3, <3>1, <3>2, <4>2, <5>2
      <4> QED
        BY <1>2, <2>3, <3>1, <3>5, <4>1, <4>2
    <3>6. InOrder'
      BY <3>5 DEF InOrder
    <3> QED
      BY <3>1, <3>2, <3>4, <3>6
  <2>5. Alone => Alone'
    BY <1>3 DEF Alone
  <2>6. Framed /\ ~confused' => Framed'
    BY <1>3, <2>4 DEF Framed
  <2>7. (OnWire => OnWire') /\ (OnceUnlessOverlapping => OnceUnlessOverlapping')
    BY <1>3 DEF OnWire, OnceUnlessOverlapping
  <2>8. WireConserved'
    BY <2>4 DEF WireConserved
  <2> QED
    BY <1>3, <2>2, <2>4, <2>5, <2>6, <2>7, <2>8 DEF PosixInv
<1> QED
  BY <1>5, <1>6

LEMMA CollectKeeps ==
  ASSUME PosixInv, ~terminated, NEW w \in Workers, Collect(w)
  PROVE  PosixInv'
<1> DEFINE k == Ring!GetReadBufferAndLengths[1].length
           frame == Serialize(Ring!BytesIn(k))
<1>1. /\ TypeOK /\ Ring!TypeOK /\ WireConserved /\ OnceUnlessOverlapping
      /\ ~overlapped => Alone
      /\ ~confused => InOrder
      /\ ~overlapped /\ ~confused => Framed /\ OnWire
  BY DEF PosixInv, TypeOK
<1>2. /\ at[w] = "out" /\ UNCHANGED <<Front, Rear, Buffer, io, wire, written, confused>>
      /\ \/ terminated' = TRUE /\ UNCHANGED <<StreamBuffer, ret, at, overlapped>>
         \/ /\ StreamBuffer' = [StreamBuffer EXCEPT ![w] = frame]
            /\ at' = [at EXCEPT ![w] = "write"]
            /\ overlapped' = (overlapped \/ \E v \in Workers : at[v] # "out")
            /\ UNCHANGED <<ret, terminated>>
  BY DEF Collect, Goes, ringVars, workerVars
<1>3. CASE terminated' = TRUE /\ UNCHANGED <<StreamBuffer, ret, at, overlapped>>
  <2>1. TypeOK'
    BY <1>1, <1>2, <1>3 DEF TypeOK, Ring!TypeOK
  <2> QED
    BY <1>2, <1>3, <2>1, Ended
<1>4. CASE /\ StreamBuffer' = [StreamBuffer EXCEPT ![w] = frame]
           /\ at' = [at EXCEPT ![w] = "write"]
           /\ overlapped' = (overlapped \/ \E v \in Workers : at[v] # "out")
           /\ UNCHANGED <<ret, terminated>>
  <2>1. k \in 0..Used /\ Ring!BytesIn(k) \in [1..k -> 0..MaxBytes] /\ k \in Nat
    <3>1. Used \in 0..BufferSize /\ k \in 0..Used
      BY <1>1, UsedRange, FirstSegment
    <3> HIDE DEF k
    <3>2. k \in Nat
      BY <3>1
    <3>3. Ring!BytesIn(k) \in [1..k -> 0..MaxBytes]
      BY <1>1, <3>1, FirstSegment
    <3> QED
      BY <3>1, <3>2, <3>3
  <2>2. /\ frame \in Seq(0..MaxBytes) /\ Len(frame) = HeaderSize + k
        /\ \A i \in 1..(HeaderSize + k) :
              frame[i] = IF i <= HeaderSize THEN Header ELSE Ring!BytesIn(k)[i - HeaderSize]
    <3> HIDE DEF k
    <3> QED
      BY <2>1, SerializeType
  <2>3. \A i \in 1..k : Ring!BytesIn(k)[i] = Buffer[Ring!TakeCell(i)]
    BY DEF Ring!BytesIn
  <2> HIDE DEF frame, k
  <2>4. Ring!TypeOK'
    BY <1>1, <1>2, <1>4 DEF Ring!TypeOK
  <2>5. overlapped' \in BOOLEAN
    BY <1>4
  <2>6. TypeOK'
    BY <1>1, <1>2, <1>4, <2>2, <2>4, <2>5 DEF TypeOK
  <2>7. Used' = Used
    BY <1>2 DEF Used, Ring!GetUseSize
  <2>8. Pending' = Pending
    <3>1. \A v \in Workers \ {w} : at'[v] = at[v] /\ ret'[v] = ret[v]
      BY <1>4
    <3>2. at'[w] = "write"
      BY <1>1, <1>4 DEF TypeOK
    <3>3. /\ Pending \in Nat /\ Pending' = Pending - Answered[w] + Answered'[w]
          /\ Answered[w] = 0 /\ Answered'[w] = 0
      BY <1>1, <1>2, <2>6, <3>1, <3>2, PendingChange
    <3> QED
      BY <3>3
  <2>9. WireConserved'
    BY <1>1, <1>2, <1>4, <2>7, <2>8 DEF WireConserved, Used
  <2>10. ~overlapped' => ~overlapped /\ \A v \in Workers : at[v] = "out"
    BY <1>4
  <2>11. ~overlapped' => Alone'
    BY <1>1, <1>4, <2>10 DEF Alone, TypeOK
  <2>12. ~confused' => InOrder'
    BY <1>1, <1>2, <2>7 DEF InOrder, Ring!TakeCell
  <2>13. ASSUME ~overlapped', ~confused' PROVE Framed'
    <3>1. ASSUME NEW v \in Workers, at'[v] = "write"
          PROVE  v = w /\ StreamBuffer'[v] = frame
      BY <1>1, <1>4, <2>10, <2>13, <3>1 DEF TypeOK
    <3>2. ASSUME NEW i \in 1..Len(frame)
          PROVE  frame[i] = IF i <= HeaderSize THEN Header ELSE written - Used + (i - HeaderSize)
      <4>1. i \in 1..(HeaderSize + k)
        BY <2>2
      <4>2. CASE i <= HeaderSize
        BY <2>2, <4>1, <4>2
      <4>3. CASE ~(i <= HeaderSize)
        <5>1. i - HeaderSize \in 1..k
          BY <2>1, <4>1, <4>3, HeaderSizeAssumption
        <5>2. Used \in 0..BufferSize
          BY <1>1, UsedRange
        <5>3. i - HeaderSize \in 1..Used
          BY <2>1, <5>1, <5>2
        <5>4. Buffer[Ring!TakeCell(i - HeaderSize)] = written - Used + (i - HeaderSize)
          BY <1>1, <1>2, <2>13, <5>3 DEF InOrder
        <5>5. frame[i] = Ring!BytesIn(k)[i - HeaderSize]
          BY <2>2, <4>1, <4>3
        <5>6. Ring!BytesIn(k)[i - HeaderSize] = Buffer[Ring!TakeCell(i - HeaderSize)]
          BY <2>3, <5>1
        <5> QED
          BY <4>3, <5>4, <5>5, <5>6
      <4> QED
        BY <4>2, <4>3
    <3> QED
      BY <1>2, <2>7, <3>1, <3>2 DEF Framed
  <2>14. ~overlapped' /\ ~confused' => OnWire'
    BY <1>1, <1>2, <2>10 DEF OnWire
  <2>15. OnceUnlessOverlapping'
    BY <1>1, <1>2, <2>10 DEF OnceUnlessOverlapping
  <2> QED
    BY <2>6, <2>9, <2>11, <2>12, <2>13, <2>14, <2>15 DEF PosixInv
<1> QED
  BY <1>2, <1>3, <1>4

LEMMA SocketWriteKeeps ==
  ASSUME PosixInv, ~terminated, NEW w \in Workers, SocketWrite(w)
  PROVE  PosixInv'
<1>1. /\ TypeOK /\ Ring!TypeOK /\ WireConserved /\ OnceUnlessOverlapping
      /\ ~overlapped => Alone
      /\ ~confused => InOrder
      /\ ~overlapped /\ ~confused => Framed /\ OnWire
      /\ wire \in Seq(0..MaxBytes) /\ StreamBuffer[w] \in Seq(0..MaxBytes)
      /\ written \in Nat /\ Used \in Nat
  <2>1. TypeOK /\ Ring!TypeOK
    BY DEF PosixInv, TypeOK
  <2>2. written \in Nat
    BY <2>1, BoundsAssumption DEF TypeOK
  <2>3. Used \in Nat
    BY <2>1, UsedRange
  <2> QED
    BY <2>1, <2>2, <2>3 DEF PosixInv, TypeOK
<1>2. at[w] = "write" /\ UNCHANGED <<Front, Rear, Buffer, io, terminated, written, overlapped, confused>>
  BY DEF SocketWrite, ringVars
<1>3. \/ \E n \in 1..Len(StreamBuffer[w]) :
            /\ wire' = wire \o SubSeq(StreamBuffer[w], 1, n)
            /\ ret' = [ret EXCEPT ![w] = n] /\ at' = [at EXCEPT ![w] = "move"]
            /\ UNCHANGED StreamBuffer
      \/ /\ ret' = [ret EXCEPT ![w] = -1] /\ at' = [at EXCEPT ![w] = "move"]
         /\ UNCHANGED <<wire, StreamBuffer>>
      \/ /\ StreamBuffer' = [StreamBuffer EXCEPT ![w] = <<>>] /\ ret' = [ret EXCEPT ![w] = 0]
         /\ at' = [at EXCEPT ![w] = "out"] /\ UNCHANGED wire
  BY DEF SocketWrite, Goes, Returns
<1>4. Ring!TypeOK' /\ Used' = Used
  BY <1>1, <1>2 DEF Ring!TypeOK, Used, Ring!GetUseSize
<1>5. InOrder => InOrder'
  BY <1>2, <1>4 DEF InOrder, Ring!TakeCell
<1>6. ASSUME at' = [at EXCEPT ![w] = "move"] \/ at' = [at EXCEPT ![w] = "out"]
      PROVE  /\ Alone => Alone'
             /\ \A v \in Workers : at'[v] = "write" => v # w /\ at[v] = "write"
  BY <1>1, <1>2, <1>6 DEF Alone, TypeOK
<1>7. ASSUME at' = [at EXCEPT ![w] = "move"] \/ at' = [at EXCEPT ![w] = "out"],
             \A v \in Workers \ {w} : StreamBuffer'[v] = StreamBuffer[v]
      PROVE  Framed => Framed'
  <2>1. \A v \in Workers : at'[v] = "write" => at[v] = "write" /\ StreamBuffer'[v] = StreamBuffer[v]
    BY <1>6, <1>7
  <2> QED
    BY <1>2, <1>4, <2>1 DEF Framed
<1>8. ASSUME NEW n \in 1..Len(StreamBuffer[w]),
             wire' = wire \o SubSeq(StreamBuffer[w], 1, n),
             ret' = [ret EXCEPT ![w] = n], at' = [at EXCEPT ![w] = "move"],
             UNCHANGED StreamBuffer
      PROVE  PosixInv'
  <2> DEFINE part == SubSeq(StreamBuffer[w], 1, n)
  <2>1. /\ part \in Seq(0..MaxBytes) /\ Len(part) = n
        /\ \A i \in 1..n : part[i] = StreamBuffer[w][i]
    <3> DEFINE s == StreamBuffer[w]
    <3>1. s \in Seq(0..MaxBytes)
      BY <1>1
    <3> HIDE DEF s
    <3>2. Len(s) \in Nat /\ n \in 1..Len(s)
      BY <3>1, LenProperties DEF s
    <3>3. \A i \in 1..n : s[i] \in 0..MaxBytes
      <4>1. \A i \in 1..n : i \in 1..Len(s)
        BY <3>2
      <4> QED
        BY <3>1, <4>1, ElementOfSeq
    <3>4. /\ SubSeq(s, 1, n) \in Seq(0..MaxBytes)
          /\ Len(SubSeq(s, 1, n)) = IF 1 <= n THEN n - 1 + 1 ELSE 0
          /\ \A i \in 1..(n - 1 + 1) : SubSeq(s, 1, n)[i] = s[1 + i - 1]
      BY <3>2, <3>3, SubSeqProperties
    <3> QED
      BY <3>2, <3>4 DEF s
  <2> HIDE DEF part
  <2>2. /\ wire' \in Seq(0..MaxBytes) /\ Len(wire) \in Nat /\ Len(wire') = Len(wire) + n
        /\ \A i \in 1..(Len(wire) + n) :
              wire'[i] = IF i <= Len(wire) THEN wire[i] ELSE part[i - Len(wire)]
    BY <1>1, <1>8, <2>1, ConcatProperties, LenProperties DEF part
  <2>3. TypeOK'
    BY <1>1, <1>2, <1>4, <1>8, <2>2 DEF TypeOK
  <2>4. Pending \in Nat /\ Pending' = Pending + n
    <3>1. \A v \in Workers \ {w} : at'[v] = at[v] /\ ret'[v] = ret[v]
      BY <1>8
    <3>2. at'[w] = "move" /\ ret'[w] = n /\ n > 0 /\ n \in Int
      BY <1>1, <1>8 DEF TypeOK
    <3>3. /\ Pending \in Nat /\ Pending' = Pending - Answered[w] + Answered'[w]
          /\ Answered[w] = 0 /\ Answered'[w] = n
      BY <1>1, <1>2, <2>3, <3>1, <3>2, PendingChange
    <3> QED
      BY <3>2, <3>3
  <2>5. WireConserved'
    <3>1. n \in Int
      OBVIOUS
    <3>2. ~confused => written - Used + Pending = Len(wire)
      BY <1>1 DEF WireConserved, Used
    <3>3. ~confused => written - Used + Pending' = Len(wire')
      <4>1. written \in Nat /\ Used \in Nat
        BY <1>1
      <4>2. Len(wire) \in Nat /\ Len(wire') = Len(wire) + n
        BY <2>2
      <4>3. ASSUME written - Used + Pending = Len(wire)
            PROVE  written - Used + Pending' = Len(wire')
        BY <2>4, <3>1, <4>1, <4>2, <4>3
      <4> QED
        BY <3>2, <4>3
    <3> QED
      BY <1>2, <1>4, <3>3 DEF WireConserved, Used
  <2>6. ASSUME ~overlapped, ~confused
        PROVE  OnWire' /\ OnceUnlessOverlapping'
    <3>1. written - Used = Len(wire)
      <4>1. Pending = 0
        BY <1>1, <1>2, <2>6, NothingPending
      <4>2. written - Used + Pending = Len(wire)
        BY <1>1, <1>2, <2>6 DEF WireConserved, Used
      <4> QED
        BY <1>1, <4>1, <4>2
    <3>2. \A i \in 1..n : part[i] = IF i <= HeaderSize THEN Header
                                    ELSE Len(wire) + (i - HeaderSize)
      <4>1. \A i \in 1..n : i \in 1..Len(StreamBuffer[w])
        BY <1>1, LenProperties
      <4> QED
        BY <1>1, <1>2, <2>1, <2>6, <3>1, <4>1 DEF Framed
    <3>3. ASSUME NEW i \in 1..Len(wire')
          PROVE  \/ i <= Len(wire) /\ i \in 1..Len(wire) /\ wire'[i] = wire[i]
                 \/ i > Len(wire) /\ wire'[i] = Header
                 \/ /\ i > Len(wire) /\ i - Len(wire) > HeaderSize
                    /\ wire'[i] = Len(wire) + ((i - Len(wire)) - HeaderSize)
      <4>1. i \in 1..(Len(wire) + n)
        BY <2>2
      <4>2. CASE i <= Len(wire)
        BY <2>2, <4>1, <4>2
      <4>3. CASE ~(i <= Len(wire))
        <5>1. i - Len(wire) \in 1..n /\ i > Len(wire)
          BY <2>2, <4>1, <4>3
        <5>2. wire'[i] = part[i - Len(wire)]
          BY <2>2, <4>1, <4>3
        <5>3. ~(i - Len(wire) <= HeaderSize) => i - Len(wire) > HeaderSize
          BY <5>1, HeaderSizeAssumption
        <5>4. part[i - Len(wire)] = IF i - Len(wire) <= HeaderSize THEN Header
                                    ELSE Len(wire) + ((i - Len(wire)) - HeaderSize)
          BY <3>2, <5>1
        <5> QED
          BY <5>1, <5>2, <5>3, <5>4
      <4> QED
        BY <2>2, <4>1, <4>2, <4>3
    <3>4. \A i \in 1..Len(wire) : wire[i] \in 0..MaxBytes /\ wire[i] <= i
      <4>1. \A i \in 1..Len(wire) : wire[i] <= i
        BY <1>1, <2>6 DEF OnWire
      <4>2. \A i \in 1..Len(wire) : wire[i] \in 0..MaxBytes
        BY <1>1, ElementOfSeq
      <4> QED
        BY <4>1, <4>2
    <3>5. OnWire'
      <4> SUFFICES ASSUME NEW i \in 1..Len(wire') PROVE wire'[i] <= i
        BY DEF OnWire
      <4> QED
        BY <2>2, <3>3, <3>4, HeaderSizeAssumption DEF Header
    <3>6. OnceUnlessOverlapping'
      <4> SUFFICES ASSUME NEW i \in 1..Len(wire'), NEW j \in 1..Len(wire'), i < j,
                          wire'[i] # Header, wire'[j] # Header
                   PROVE  wire'[i] < wire'[j]
        BY DEF OnceUnlessOverlapping
      <4>1. CASE j <= Len(wire)
        <5>1. i \in 1..Len(wire) /\ j \in 1..Len(wire)
          BY <2>2, <4>1
        <5>2. wire'[i] = wire[i] /\ wire'[j] = wire[j]
          BY <2>2, <5>1
        <5> QED
          BY <1>1, <2>6, <5>1, <5>2 DEF OnceUnlessOverlapping
      <4>2. CASE j > Len(wire)
        <5>1. /\ j - Len(wire) > HeaderSize
              /\ wire'[j] = Len(wire) + ((j - Len(wire)) - HeaderSize)
          BY <2>2, <3>3, <4>2
        <5> QED
          BY <2>2, <3>3, <3>4, <4>2, <5>1, HeaderSizeAssumption
      <4> QED
        BY <2>2, <4>1, <4>2
    <3> QED
      BY <3>5, <3>6
  <2>7. OnceUnlessOverlapping'
    BY <1>2, <2>6 DEF OnceUnlessOverlapping
  <2> QED
    BY <1>1, <1>2, <1>5, <1>6, <1>7, <1>8, <2>3, <2>5, <2>6, <2>7 DEF PosixInv
<1>9. ASSUME wire' = wire, Len(wire) \in Nat, NEW n \in Int, n <= 0,
             ret' = [ret EXCEPT ![w] = n],
             at' = [at EXCEPT ![w] = "move"] \/ at' = [at EXCEPT ![w] = "out"],
             StreamBuffer' = StreamBuffer \/ StreamBuffer' = [StreamBuffer EXCEPT ![w] = <<>>]
      PROVE  PosixInv'
  <2>1. TypeOK'
    <3>1. <<>> \in Seq(0..MaxBytes)
      OBVIOUS
    <3>2. StreamBuffer' \in [Workers -> Seq(0..MaxBytes)]
      BY <1>1, <1>9, <3>1 DEF TypeOK
    <3>3. ret' \in [Workers -> Int]
      BY <1>1, <1>9 DEF TypeOK
    <3>4. at' \in [Workers -> {"out", "write", "move"}]
      BY <1>1, <1>9 DEF TypeOK
    <3> QED
      BY <1>1, <1>2, <1>4, <1>9, <3>2, <3>3, <3>4 DEF TypeOK
  <2>2. Pending' = Pending
    <3>1. \A v \in Workers \ {w} : at'[v] = at[v] /\ ret'[v] = ret[v]
      BY <1>1, <1>9 DEF TypeOK
    <3>2. ret'[w] = n /\ ~(n > 0)
      BY <1>1, <1>9 DEF TypeOK
    <3>3. /\ Pending \in Nat /\ Pending' = Pending - Answered[w] + Answered'[w]
          /\ Answered[w] = 0 /\ Answered'[w] = 0
      BY <1>1, <1>2, <2>1, <3>1, <3>2, PendingChange
    <3> QED
      BY <3>3
  <2>3. WireConserved'
    <3>1. Used' = Used /\ written' = written /\ Len(wire') = Len(wire)
      BY <1>2, <1>4, <1>9
    <3> QED
      BY <1>1, <1>2, <2>2, <3>1 DEF WireConserved, Used
  <2>4. \A v \in Workers \ {w} : StreamBuffer'[v] = StreamBuffer[v]
    BY <1>1, <1>9 DEF TypeOK
  <2>5. (Alone => Alone') /\ (Framed => Framed')
    BY <1>6, <1>7, <1>9, <2>4
  <2>6. (OnWire => OnWire') /\ OnceUnlessOverlapping'
    BY <1>1, <1>2, <1>9 DEF OnWire, OnceUnlessOverlapping
  <2> QED
    BY <1>1, <1>2, <1>5, <2>1, <2>3, <2>5, <2>6 DEF PosixInv
<1>10. Len(wire) \in Nat /\ -1 \in Int /\ -1 <= 0 /\ 0 \in Int /\ 0 <= 0
  BY <1>1, LenProperties
<1> QED
  BY <1>3, <1>8, <1>9, <1>10

LEMMA MoveKeeps ==
  ASSUME PosixInv, ~terminated, NEW w \in Workers, Move(w)
  PROVE  PosixInv'
<1> DEFINE n == ret[w]
<1>1. /\ TypeOK /\ Ring!TypeOK /\ WireConserved /\ OnceUnlessOverlapping
      /\ ~overlapped => Alone
      /\ ~confused => InOrder
      /\ ~overlapped /\ ~confused => OnWire
      /\ n \in Int
  BY DEF PosixInv, TypeOK
<1>2. /\ at[w] = "move" /\ Ring!MoveReadPostion(n)
      /\ confused' = (confused \/ (Rear = BufferSize /\ n = Used))
      /\ StreamBuffer' = [StreamBuffer EXCEPT ![w] = <<>>] /\ ret' = [ret EXCEPT ![w] = 0]
      /\ at' = [at EXCEPT ![w] = "out"] /\ UNCHANGED <<wire, written, overlapped>>
  BY DEF Move, Sent, Returns, Goes, Used
<1> HIDE DEF n
<1>3. ASSUME Ring!TypeOK' PROVE TypeOK'
  <2>1. <<>> \in Seq(0..MaxBytes)
    OBVIOUS
  <2>2. StreamBuffer' \in [Workers -> Seq(0..MaxBytes)]
    BY <1>1, <1>2, <2>1 DEF TypeOK
  <2>3. ret' \in [Workers -> Int] /\ at' \in [Workers -> {"out", "write", "move"}]
    BY <1>1, <1>2 DEF TypeOK
  <2>4. confused' \in BOOLEAN
    BY <1>2
  <2> QED
    BY <1>1, <1>2, <1>3, <2>2, <2>3, <2>4 DEF TypeOK
<1>4. CASE terminated'
  <2>1. UNCHANGED <<Front, Rear, Buffer, io>>
    BY <1>2, <1>4 DEF Ring!MoveReadPostion, Ring!Throw
  <2>2. Ring!TypeOK'
    BY <1>1, <1>4, <2>1 DEF Ring!TypeOK
  <2> QED
    BY <1>2, <1>3, <1>4, <2>2, Ended
<1>5. CASE ~terminated'
  <2>1. /\ n \in 1..Used /\ Ring!TypeOK'
        /\ ~(Rear = BufferSize /\ n = Used) =>
              /\ Used' = Used - n
              /\ \A i \in 1..(Used - n) : Buffer'[Ring!TakeCell(i)'] = Buffer[Ring!TakeCell(n + i)]
    BY <1>1, <1>2, <1>5, RingMove
  <2>2. TypeOK'
    BY <1>3, <2>1
  <2>3. Used \in 0..BufferSize /\ written \in 0..MaxBytes
    BY <1>1, UsedRange DEF TypeOK
  <2>4. Pending \in Nat /\ Pending' = Pending - n
    <3>1. \A v \in Workers \ {w} : at'[v] = at[v] /\ ret'[v] = ret[v]
      BY <1>1, <1>2 DEF TypeOK
    <3>2. at'[w] = "out"
      BY <1>1, <1>2 DEF TypeOK
    <3>3. ret[w] = n /\ n > 0
      BY <1>1, <2>1, <2>3 DEF n
    <3>4. /\ Pending \in Nat /\ Pending' = Pending - Answered[w] + Answered'[w]
          /\ Answered[w] = n /\ Answered'[w] = 0
      BY <1>1, <1>2, <2>2, <3>1, <3>2, <3>3, PendingChange
    <3> QED
      BY <1>1, <3>4
  <2>5. ASSUME ~confused'
        PROVE  /\ ~confused /\ Used' = Used - n
               /\ \A i \in 1..(Used - n) : Buffer'[Ring!TakeCell(i)'] = Buffer[Ring!TakeCell(n + i)]
    BY <1>2, <2>1, <2>5
  <2>6. ASSUME ~confused' PROVE WireConserved'
    <3>1. written - Used + Pending = Len(wire)
      BY <1>1, <1>2, <2>5, <2>6, <1>5 DEF WireConserved, Used
    <3>2. written - Used' + Pending' = Len(wire)
      <4>1. Used' = Used - n
        BY <2>5, <2>6
      <4> QED
        BY <1>1, <2>3, <2>4, <3>1, <4>1
    <3> QED
      BY <1>2, <3>2 DEF WireConserved, Used
  <2>7. ASSUME ~confused' PROVE InOrder'
    <3> SUFFICES ASSUME NEW i \in 1..Used'
                 PROVE  Buffer'[Ring!TakeCell(i)'] = written' - Used' + i
      BY DEF InOrder
    <3>1. Used' = Used - n
      BY <2>5, <2>7
    <3>2. i \in 1..(Used - n) /\ n + i \in 1..Used
      BY <1>1, <2>1, <2>3, <3>1
    <3>3. Buffer'[Ring!TakeCell(i)'] = Buffer[Ring!TakeCell(n + i)]
      BY <2>5, <2>7, <3>2
    <3>4. Buffer[Ring!TakeCell(n + i)] = written - Used + (n + i)
      BY <1>1, <2>5, <2>7, <3>2 DEF InOrder
    <3>5. written - Used + (n + i) = written - (Used - n) + i
      BY <1>1, <2>3, <3>2
    <3> QED
      BY <1>2, <3>1, <3>3, <3>4, <3>5
  <2>8. ASSUME ~overlapped' PROVE Alone' /\ Framed'
    <3>1. Alone
      BY <1>1, <1>2, <2>8
    <3>2. \A v \in Workers : at'[v] = "out"
      BY <1>1, <1>2, <3>1 DEF Alone, TypeOK
    <3> QED
      BY <3>2 DEF Alone, Framed
  <2>9. ~overlapped' /\ ~confused' => OnWire'
    BY <1>1, <1>2 DEF OnWire
  <2>10. OnceUnlessOverlapping'
    BY <1>1, <1>2 DEF OnceUnlessOverlapping
  <2>11. confused' => WireConserved'
    BY DEF WireConserved
  <2> QED
    BY <2>2, <2>6, <2>7, <2>8, <2>9, <2>10, <2>11 DEF PosixInv
<1> QED
  BY <1>4, <1>5

LEMMA PosixInvKept == PosixInv /\ [Next]_vars => PosixInv'
<1> SUFFICES ASSUME PosixInv, [Next]_vars PROVE PosixInv'
  OBVIOUS
<1>1. CASE UNCHANGED vars
  <2>1. UNCHANGED <<Front, Rear, Buffer, io, terminated, StreamBuffer, ret, at, wire, written,
                    overlapped, confused>>
    BY <1>1 DEF vars, ringVars, workerVars
  <2>2. Used' = Used /\ Pending' = Pending /\ InOrder' = InOrder
    BY <2>1 DEF Used, Ring!GetUseSize, Pending, InOrder, Ring!TakeCell
  <2>3. TypeOK' = TypeOK
    BY <2>1 DEF TypeOK, Ring!TypeOK
  <2>4. WireConserved' = WireConserved /\ Framed' = Framed
    BY <2>1, <2>2 DEF WireConserved, Framed, Used
  <2>5. /\ OnceUnlessOverlapping' = OnceUnlessOverlapping
        /\ OnWire' = OnWire /\ Alone' = Alone
    BY <2>1 DEF OnceUnlessOverlapping, OnWire, Alone
  <2> QED
    BY <2>1, <2>2, <2>3, <2>4, <2>5 DEF PosixInv
<1>2. CASE Next
  BY <1>2, WriteKeeps, CollectKeeps, SocketWriteKeeps, MoveKeeps DEF Next
<1> QED
  BY <1>1, <1>2

LEMMA PosixInvAlways == Spec => []PosixInv
  BY PosixInvInitially, PosixInvKept, PTL DEF Spec

\* Both positions stay in the ring, and what the workers collect and send are
\* bytes that were written, or headers.
THEOREM DescriptorTypeCorrect == Spec => []TypeOK
<1>1. PosixInv => TypeOK
  BY DEF PosixInv
<1> QED
  BY <1>1, PosixInvAlways, PTL

\* The ring gives up a byte for every byte the socket takes, however partial
\* writes, failed writes and the threads in _Write interleave.
THEOREM WireAlwaysConserved == Spec => []WireConserved
<1>1. PosixInv => WireConserved
  BY DEF PosixInv
<1> QED
  BY <1>1, PosixInvAlways, PTL

\* With one thread in _Write at a time no byte is sent twice or out of order,
\* although every header costs the ring bytes that were never sent.
THEOREM OnceAndInOrder == Spec => []OnceUnlessOverlapping
<1>1. PosixInv => OnceUnlessOverlapping
  BY DEF PosixInv
<1> QED
  BY <1>1, PosixInvAlways, PTL
===============================================================================
