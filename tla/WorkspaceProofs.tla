-------------------------- MODULE WorkspaceProofs --------------------------
(***************************************************************************)
(* Theorems about the workspace, for the jobs of this repository, any      *)
(* number of processes, any contents of the directory and any number of    *)
(* exchanged files and kills.                                              *)
(***************************************************************************)
EXTENDS Workspace, SequenceTheorems, FiniteSetTheorems, TLAPS

------------------------------------------------------------------------------
(* Lists of effects.                                                       *)
List(s) == s \in Seq({s[k] : k \in DOMAIN s})

LEMMA ListProperties ==
    ASSUME NEW s, List(s)
    PROVE  Len(s) \in Nat /\ DOMAIN s = 1..Len(s)
BY DEF List

LEMMA ListFromTo ==
    ASSUME NEW s, NEW n \in Nat, DOMAIN s = 1..n, s = [k \in 1..n |-> s[k]]
    PROVE  List(s) /\ Len(s) = n
<1> DEFINE T == {s[k] : k \in DOMAIN s}
<1>1. s \in [1..n -> T]
  OBVIOUS
<1> HIDE DEF T
<1>2. s \in Seq(T)
  BY <1>1, SeqDef
<1> QED BY <1>2 DEF List, T

LEMMA SeqIsList ==
    ASSUME NEW S, NEW s \in Seq(S)
    PROVE  List(s)
<1>1. Len(s) \in Nat /\ DOMAIN s = 1..Len(s) /\ s \in [1..Len(s) -> S]
  OBVIOUS
<1> QED BY <1>1, ListFromTo

LEMMA ListConcat ==
    ASSUME NEW s, List(s), NEW t, List(t)
    PROVE  /\ List(s \o t) /\ Len(s \o t) = Len(s) + Len(t)
           /\ DOMAIN (s \o t) = 1..Len(s) + Len(t)
           /\ \A k \in 1..Len(s) : (s \o t)[k] = s[k]
           /\ \A k \in 1..Len(t) : (s \o t)[Len(s) + k] = t[k]
<1> DEFINE S == {s[k] : k \in DOMAIN s} \union {t[k] : k \in DOMAIN t}
<1>1. s \in Seq(S) /\ t \in Seq(S)
  BY DEF List
<1> HIDE DEF S
<1>2. /\ s \o t \in Seq(S) /\ Len(s \o t) = Len(s) + Len(t)
      /\ \A k \in 1..Len(s) + Len(t) : (s \o t)[k] = IF k <= Len(s) THEN s[k] ELSE t[k - Len(s)]
  BY <1>1, ConcatProperties
<1>3. List(s \o t) /\ DOMAIN (s \o t) = 1..Len(s) + Len(t)
  <2>1. List(s \o t)
    BY <1>2, SeqIsList
  <2>2. DOMAIN (s \o t) = 1..Len(s \o t)
    BY <1>2
  <2> QED BY <1>2, <2>1, <2>2, Zenon
<1>4. \A k \in 1..Len(t) : (s \o t)[Len(s) + k] = t[k]
  <2> TAKE k \in 1..Len(t)
  <2>1. Len(s) + k \in 1..Len(s) + Len(t) /\ ~(Len(s) + k <= Len(s)) /\ (Len(s) + k) - Len(s) = k
    BY <1>1
  <2> QED BY <2>1, <1>2
<1> QED BY <1>1, <1>2, <1>3, <1>4

LEMMA ListTail ==
    ASSUME NEW s, List(s), s # <<>>
    PROVE  /\ List(Tail(s)) /\ Len(s) >= 1 /\ Len(Tail(s)) = Len(s) - 1
           /\ Head(s) = s[1]
           /\ \A k \in 1..Len(s) - 1 : Tail(s)[k] = s[k + 1]
<1> DEFINE S == {s[k] : k \in DOMAIN s}
<1>1. s \in Seq(S)
  BY DEF List
<1> HIDE DEF S
<1>2. /\ Tail(s) \in Seq(S) /\ Len(Tail(s)) = Len(s) - 1
      /\ \A k \in 1..Len(Tail(s)) : Tail(s)[k] = s[k + 1]
  BY <1>1, HeadTailProperties
<1>3. List(Tail(s))
  BY <1>2, SeqIsList
<1> QED BY <1>1, <1>2, <1>3

------------------------------------------------------------------------------
(* What a sealed job does: every output is immutable, and one file is      *)
(* written when all the others are there.                                  *)

\* An effect that writes nothing and does not go on.
Quiet(e) == e.do \in {"expect", "refuse"}
Keeps(e, files) == e.do = "immutable" /\ e.file \in files /\ e.data # NoFile

\* All that these effects write is immutable and goes into these files.
KeepsOnly(effects, files) ==
    /\ List(effects)
    /\ \A k \in DOMAIN effects : Quiet(effects[k]) \/ Keeps(effects[k], files)

\* The final file is written, after everything else.
EndsIn(effects, early, final) ==
    \E l \in Writes(effects) :
        /\ effects[l].file = final
        /\ \A k \in Writes(effects) : k # l => k < l /\ effects[k].file \in early

Complete(effects, early, final) ==
    KeepsOnly(effects, early \union {final}) /\ EndsIn(effects, early, final)

LEMMA QuietOrWrites ==
    ASSUME NEW effects, NEW files, KeepsOnly(effects, files), NEW k \in DOMAIN effects
    PROVE  k \in Writes(effects) <=> Keeps(effects[k], files)
BY DEF KeepsOnly, Writes, Quiet, Keeps

LEMMA EarlyConcat ==
    ASSUME NEW q, NEW early, KeepsOnly(q, early),
           NEW e, NEW final, Complete(e, early, final)
    PROVE  Complete(q \o e, early, final)
<1>1. /\ List(e) /\ Len(e) \in Nat /\ DOMAIN e = 1..Len(e)
      /\ List(q) /\ Len(q) \in Nat /\ DOMAIN q = 1..Len(q)
  BY ListProperties DEF Complete, KeepsOnly
<1>2. /\ List(q \o e) /\ DOMAIN (q \o e) = 1..Len(q) + Len(e)
      /\ \A k \in 1..Len(q) : (q \o e)[k] = q[k]
      /\ \A k \in 1..Len(e) : (q \o e)[Len(q) + k] = e[k]
  BY <1>1, ListConcat
<1>3. \A k \in DOMAIN (q \o e) : k \in 1..Len(q) \/ \E i \in 1..Len(e) : k = Len(q) + i
  <2> TAKE k \in DOMAIN (q \o e)
  <2>1. ~(k <= Len(q)) => k - Len(q) \in 1..Len(e) /\ k = Len(q) + (k - Len(q))
    BY <1>1, <1>2
  <2> QED BY <2>1, <1>1, <1>2
<1>4. KeepsOnly(q \o e, early \union {final})
  BY <1>1, <1>2, <1>3 DEF Complete, KeepsOnly, Keeps
<1>5. PICK l \in Writes(e) :
        /\ e[l].file = final
        /\ \A k \in Writes(e) : k # l => k < l /\ e[k].file \in early
  BY DEF Complete, EndsIn
<1>6. l \in 1..Len(e) /\ Len(q) + l \in Writes(q \o e) /\ (q \o e)[Len(q) + l].file = final
  BY <1>1, <1>2, <1>5 DEF Writes
<1>7. ASSUME NEW k \in Writes(q \o e), k # Len(q) + l
      PROVE  k < Len(q) + l /\ (q \o e)[k].file \in early
  <2>1. CASE k \in 1..Len(q)
    BY <2>1, <1>1, <1>2, <1>6, <1>7 DEF KeepsOnly, Keeps, Quiet, Writes
  <2>2. CASE \E i \in 1..Len(e) : k = Len(q) + i
    <3>1. PICK i \in 1..Len(e) : k = Len(q) + i
      BY <2>2
    <3>2. i \in Writes(e) /\ i # l
      BY <3>1, <1>1, <1>2, <1>7 DEF Writes
    <3> QED BY <3>1, <3>2, <1>1, <1>2, <1>5, <1>6
  <2> QED BY <2>1, <2>2, <1>3 DEF Writes
<1>8. EndsIn(q \o e, early, final)
  BY <1>6, <1>7 DEF EndsIn
<1> QED BY <1>4, <1>8 DEF Complete

------------------------------------------------------------------------------
(* What Publish makes of contents.                                         *)
LEMMA PublishList ==
    ASSUME NEW c, List(c)
    PROVE  /\ List(Publish(c)) /\ Len(Publish(c)) = Len(c) /\ DOMAIN Publish(c) = DOMAIN c
           /\ \A k \in DOMAIN c : /\ Publish(c)[k].do = "immutable"
                                  /\ Publish(c)[k].file = c[k].what
                                  /\ Publish(c)[k].data = c[k]
<1>1. Len(c) \in Nat /\ DOMAIN c = 1..Len(c)
  BY ListProperties
<1>2. DOMAIN Publish(c) = 1..Len(c) /\ Publish(c) = [k \in 1..Len(c) |-> Publish(c)[k]]
  BY <1>1 DEF Publish
<1>3. List(Publish(c)) /\ Len(Publish(c)) = Len(c)
  BY <1>1, <1>2, ListFromTo
<1> QED BY <1>1, <1>2, <1>3 DEF Publish, Immutable

LEMMA PublishConcat ==
    ASSUME NEW c, List(c), NEW d, List(d)
    PROVE  Publish(c \o d) = Publish(c) \o Publish(d)
<1>1. /\ Len(c) \in Nat /\ DOMAIN c = 1..Len(c) /\ Len(d) \in Nat /\ DOMAIN d = 1..Len(d)
      /\ List(c \o d) /\ Len(c \o d) = Len(c) + Len(d) /\ DOMAIN (c \o d) = 1..Len(c) + Len(d)
      /\ \A k \in 1..Len(c) : (c \o d)[k] = c[k]
      /\ \A k \in 1..Len(d) : (c \o d)[Len(c) + k] = d[k]
  <2>1. /\ Len(c) \in Nat /\ DOMAIN c = 1..Len(c)
        /\ Len(d) \in Nat /\ DOMAIN d = 1..Len(d)
    BY ListProperties
  <2> HIDE DEF List
  <2>2. /\ List(c \o d) /\ Len(c \o d) = Len(c) + Len(d) /\ DOMAIN (c \o d) = 1..Len(c) + Len(d)
        /\ \A k \in 1..Len(c) : (c \o d)[k] = c[k]
        /\ \A k \in 1..Len(d) : (c \o d)[Len(c) + k] = d[k]
    BY ListConcat
  <2> QED BY <2>1, <2>2, Zenon
<1>2. /\ List(Publish(c)) /\ Len(Publish(c)) = Len(c) /\ List(Publish(d)) /\ Len(Publish(d)) = Len(d)
      /\ DOMAIN Publish(c \o d) = 1..Len(c) + Len(d)
  BY <1>1, PublishList
<1>3. /\ List(Publish(c) \o Publish(d))
      /\ DOMAIN (Publish(c) \o Publish(d)) = 1..Len(c) + Len(d)
      /\ \A k \in 1..Len(c) : (Publish(c) \o Publish(d))[k] = Publish(c)[k]
      /\ \A k \in 1..Len(d) : (Publish(c) \o Publish(d))[Len(c) + k] = Publish(d)[k]
  <2>1. ASSUME NEW P, NEW Q, List(P), List(Q)
        PROVE  /\ List(P \o Q) /\ DOMAIN (P \o Q) = 1..Len(P) + Len(Q)
               /\ \A k \in 1..Len(P) : (P \o Q)[k] = P[k]
               /\ \A k \in 1..Len(Q) : (P \o Q)[Len(P) + k] = Q[k]
    BY ONLY <2>1, ListConcat, ListProperties
  <2>2. /\ List(Publish(c) \o Publish(d))
        /\ DOMAIN (Publish(c) \o Publish(d)) = 1..Len(Publish(c)) + Len(Publish(d))
        /\ \A k \in 1..Len(Publish(c)) : (Publish(c) \o Publish(d))[k] = Publish(c)[k]
        /\ \A k \in 1..Len(Publish(d)) :
              (Publish(c) \o Publish(d))[Len(Publish(c)) + k] = Publish(d)[k]
    <3>1. List(Publish(c)) /\ List(Publish(d))
      BY <1>2
    <3>2. List(Publish(c) \o Publish(d))
      BY <3>1, <2>1
    <3>3. DOMAIN (Publish(c) \o Publish(d)) = 1..Len(Publish(c)) + Len(Publish(d))
      BY <3>1, <2>1
    <3>4. \A k \in 1..Len(Publish(c)) : (Publish(c) \o Publish(d))[k] = Publish(c)[k]
      BY <3>1, <2>1
    <3>5. \A k \in 1..Len(Publish(d)) :
              (Publish(c) \o Publish(d))[Len(Publish(c)) + k] = Publish(d)[k]
      BY <3>1, <2>1
    <3> QED BY <3>2, <3>3, <3>4, <3>5
  <2> QED BY <1>2, <2>2
<1>4. \A k \in 1..Len(c) + Len(d) : Publish(c \o d)[k] = (Publish(c) \o Publish(d))[k]
  <2> TAKE k \in 1..Len(c) + Len(d)
  <2>1. CASE k \in 1..Len(c)
    BY <2>1, <1>1, <1>2, <1>3 DEF Publish
  <2>2. CASE k \notin 1..Len(c)
    <3> DEFINE i == k - Len(c)
    <3>1. i \in 1..Len(d) /\ k = Len(c) + i
      BY <2>2, <1>1
    <3> HIDE DEF i
    <3> QED BY <3>1, <1>1, <1>2, <1>3 DEF Publish
  <2> QED BY <2>1, <2>2
<1>5. \A k \in 1..Len(c) + Len(d) : k \in DOMAIN Publish(c \o d)
  BY <1>2
<1>6. Publish(c \o d) = [k \in 1..Len(c) + Len(d) |-> Publish(c \o d)[k]]
  BY <1>1 DEF Publish
<1>7. Publish(c) \o Publish(d) = [k \in 1..Len(c) + Len(d) |-> (Publish(c) \o Publish(d))[k]]
  <2> DEFINE W == Publish(c) \o Publish(d)
  <2>1. List(W) /\ DOMAIN W = 1..Len(c) + Len(d)
    BY <1>3
  <2> HIDE DEF W
  <2>2. W = [k \in 1..Len(c) + Len(d) |-> W[k]]
    BY <2>1 DEF List
  <2> QED BY <2>2 DEF W
<1> QED BY <1>4, <1>6, <1>7

\* Lists, given in full, of effects that keep what they write.
LEMMA KeepsFirst ==
    ASSUME NEW early, NEW final,
           NEW a, Keeps(a, {final})
    PROVE  Complete(<<a>>, early, final)
<1> DEFINE list == <<a>>
<1>1. List(list) /\ DOMAIN list = {1}
  BY DEF List
<1>2. list[1] = a
  OBVIOUS
<1> HIDE DEF list
<1>3. Writes(list) = {1}
  BY <1>1, <1>2 DEF Writes, Keeps
<1>4. KeepsOnly(list, early \union {final})
  BY <1>1, <1>2 DEF KeepsOnly, Keeps
<1>5. EndsIn(list, early, final)
  BY <1>1, <1>2, <1>3 DEF EndsIn, Keeps
<1>6. Complete(list, early, final)
  BY <1>4, <1>5 DEF Complete
<1> QED BY <1>6 DEF list

LEMMA KeepsSecond ==
    ASSUME NEW early, NEW final,
           NEW a, Keeps(a, early),
           NEW b, Keeps(b, {final})
    PROVE  Complete(<<a, b>>, early, final)
<1> DEFINE list == <<a, b>>
<1>1. List(list) /\ DOMAIN list = {1, 2}
  BY DEF List
<1>2. list[1] = a /\ list[2] = b
  OBVIOUS
<1> HIDE DEF list
<1>3. Writes(list) = {1, 2}
  BY <1>1, <1>2 DEF Writes, Keeps
<1>4. KeepsOnly(list, early \union {final})
  BY <1>1, <1>2 DEF KeepsOnly, Keeps
<1>5. EndsIn(list, early, final)
  BY <1>1, <1>2, <1>3 DEF EndsIn, Keeps
<1>6. Complete(list, early, final)
  BY <1>4, <1>5 DEF Complete
<1> QED BY <1>6 DEF list

LEMMA KeepsThird ==
    ASSUME NEW early, NEW final,
           NEW a, Keeps(a, early), NEW b, Keeps(b, early),
           NEW c, Keeps(c, {final})
    PROVE  Complete(<<a, b, c>>, early, final)
<1> DEFINE list == <<a, b, c>>
<1>1. List(list) /\ DOMAIN list = {1, 2, 3}
  BY DEF List
<1>2. list[1] = a /\ list[2] = b /\ list[3] = c
  OBVIOUS
<1> HIDE DEF list
<1>3. Writes(list) = {1, 2, 3}
  BY <1>1, <1>2 DEF Writes, Keeps
<1>4. KeepsOnly(list, early \union {final})
  BY <1>1, <1>2 DEF KeepsOnly, Keeps
<1>5. EndsIn(list, early, final)
  BY <1>1, <1>2, <1>3 DEF EndsIn, Keeps
<1>6. Complete(list, early, final)
  BY <1>4, <1>5 DEF Complete
<1> QED BY <1>6 DEF list

LEMMA KeepsFourth ==
    ASSUME NEW early, NEW final,
           NEW a, Keeps(a, early), NEW b, Keeps(b, early), NEW c, Keeps(c, early),
           NEW d, Keeps(d, {final})
    PROVE  Complete(<<a, b, c, d>>, early, final)
<1> DEFINE list == <<a, b, c, d>>
<1>1. List(list) /\ DOMAIN list = {1, 2, 3, 4}
  BY DEF List
<1>2. list[1] = a /\ list[2] = b /\ list[3] = c /\ list[4] = d
  OBVIOUS
<1> HIDE DEF list
<1>3. Writes(list) = {1, 2, 3, 4}
  BY <1>1, <1>2 DEF Writes, Keeps
<1>4. KeepsOnly(list, early \union {final})
  BY <1>1, <1>2 DEF KeepsOnly, Keeps
<1>5. EndsIn(list, early, final)
  BY <1>1, <1>2, <1>3 DEF EndsIn, Keeps
<1>6. Complete(list, early, final)
  BY <1>4, <1>5 DEF Complete
<1> QED BY <1>6 DEF list

LEMMA KeepsFifth ==
    ASSUME NEW early, NEW final,
           NEW a, Keeps(a, early), NEW b, Keeps(b, early), NEW c, Keeps(c, early), NEW d, Keeps(d, early),
           NEW e, Keeps(e, {final})
    PROVE  Complete(<<a, b, c, d, e>>, early, final)
<1> DEFINE list == <<a, b, c, d, e>>
<1>1. List(list) /\ DOMAIN list = {1, 2, 3, 4, 5}
  BY DEF List
<1>2. list[1] = a /\ list[2] = b /\ list[3] = c /\ list[4] = d /\ list[5] = e
  OBVIOUS
<1> HIDE DEF list
<1>3. Writes(list) = {1, 2, 3, 4, 5}
  BY <1>1, <1>2 DEF Writes, Keeps
<1>4. KeepsOnly(list, early \union {final})
  BY <1>1, <1>2 DEF KeepsOnly, Keeps
<1>5. EndsIn(list, early, final)
  BY <1>1, <1>2, <1>3 DEF EndsIn, Keeps
<1>6. Complete(list, early, final)
  BY <1>4, <1>5 DEF Complete
<1> QED BY <1>6 DEF list

------------------------------------------------------------------------------
(* Contents with a name are kept under it.                                 *)
Named(content, files) == content.what \in files /\ content # NoFile

LEMMA NamedIsKept ==
    ASSUME NEW content, NEW files, Named(content, files)
    PROVE  Keeps(Immutable(content.what, content), files)
BY DEF Named, Keeps, Immutable

LEMMA MadeIsNamed ==
    ASSUME NEW name, NEW from, DOMAIN from # {}, NEW files, name \in files
    PROVE  Named(Made(name, from), files) /\ Keeps(Immutable(name, Made(name, from)), files)
BY DEF Made, NoFile, Named, Keeps, Immutable

LEMMA TitledIsKept ==
    ASSUME NEW c, NEW early, List(c), \A k \in DOMAIN c : Named(c[k], early)
    PROVE  KeepsOnly(Publish(c), early)
BY PublishList DEF Named, KeepsOnly, Keeps

LEMMA PublishOne ==
    ASSUME NEW early, NEW final,
           NEW a, Named(a, {final})
    PROVE  Complete(Publish(<<a>>), early, final)
<1>1. Publish(<<a>>)
      = <<Immutable(a.what, a)>>
  BY DEF Publish
<1> QED BY <1>1, NamedIsKept, KeepsFirst

LEMMA PublishTwo ==
    ASSUME NEW early, NEW final,
           NEW a, Named(a, early),
           NEW b, Named(b, {final})
    PROVE  Complete(Publish(<<a, b>>), early, final)
<1>1. Publish(<<a, b>>)
      = <<Immutable(a.what, a), Immutable(b.what, b)>>
  BY DEF Publish
<1> QED BY <1>1, NamedIsKept, KeepsSecond

LEMMA PublishThree ==
    ASSUME NEW early, NEW final,
           NEW a, Named(a, early), NEW b, Named(b, early),
           NEW c, Named(c, {final})
    PROVE  Complete(Publish(<<a, b, c>>), early, final)
<1>1. Publish(<<a, b, c>>)
      = <<Immutable(a.what, a), Immutable(b.what, b), Immutable(c.what, c)>>
  BY DEF Publish
<1> QED BY <1>1, NamedIsKept, KeepsThird

LEMMA PublishFour ==
    ASSUME NEW early, NEW final,
           NEW a, Named(a, early), NEW b, Named(b, early), NEW c, Named(c, early),
           NEW d, Named(d, {final})
    PROVE  Complete(Publish(<<a, b, c, d>>), early, final)
<1>1. Publish(<<a, b, c, d>>)
      = <<Immutable(a.what, a), Immutable(b.what, b), Immutable(c.what, c), Immutable(d.what, d)>>
  BY DEF Publish
<1> QED BY <1>1, NamedIsKept, KeepsFourth

\* Two effects that only look, before two that write.
LEMMA LooksFirst ==
    ASSUME NEW early, NEW final,
           NEW a, Quiet(a), NEW b, Quiet(b), NEW c, Keeps(c, early), NEW d, Keeps(d, {final})
    PROVE  Complete(<<a, b, c, d>>, early, final)
<1> DEFINE list == <<a, b, c, d>>
<1>1. List(list) /\ DOMAIN list = {1, 2, 3, 4}
  BY DEF List
<1>2. list[1] = a /\ list[2] = b /\ list[3] = c /\ list[4] = d
  OBVIOUS
<1> HIDE DEF list
<1>3. Writes(list) = {3, 4}
  BY <1>1, <1>2 DEF Writes, Keeps, Quiet
<1>4. KeepsOnly(list, early \union {final})
  BY <1>1, <1>2 DEF KeepsOnly, Keeps
<1>5. EndsIn(list, early, final)
  BY <1>1, <1>2, <1>3 DEF EndsIn, Keeps
<1>6. Complete(list, early, final)
  BY <1>4, <1>5 DEF Complete
<1> QED BY <1>6 DEF list

------------------------------------------------------------------------------
(* The sealed jobs, one after the other: the files of the commands.        *)
GoesOnTo(j, e) == e.do = "go_on" /\ j \in DOMAIN Goes /\ e.file = Goes[j]
Seals(j, effects) ==
    /\ List(effects)
    /\ \A k \in DOMAIN effects : \/ Quiet(effects[k]) \/ GoesOnTo(j, effects[k])
                                 \/ Keeps(effects[k], EarlyFiles(j) \union {FinalFile(j)})
    /\ Writes(effects) # {} => EndsIn(effects, EarlyFiles(j), FinalFile(j))

LEMMA ProvidedSeals ==
    ASSUME NEW j, NEW accepted, NEW e, Seals(j, e)
    PROVE  Seals(j, Provided(accepted, e))
<1>1. CASE accepted
  BY <1>1 DEF Provided
<1>2. CASE ~accepted
  <2>1. Provided(accepted, e) = <<Refuse>>
    BY <1>2 DEF Provided
  <2>2. List(<<Refuse>>) /\ \A k \in DOMAIN <<Refuse>> : Quiet(<<Refuse>>[k])
    BY DEF List, Refuse, Quiet
  <2>3. Writes(<<Refuse>>) = {}
    BY <2>2 DEF Writes, Quiet
  <2> QED BY <2>1, <2>2, <2>3 DEF Seals
<1> QED BY <1>1, <1>2

LEMMA CompleteIsEnough ==
    ASSUME NEW j, NEW accepted, NEW e, Complete(e, EarlyFiles(j), FinalFile(j))
    PROVE  Seals(j, e) /\ Seals(j, Provided(accepted, e))
<1>1. Seals(j, e)
  BY DEF Seals, Complete, KeepsOnly
<1> QED BY <1>1, ProvidedSeals

\* A job that goes on when it is done, or at once.
LEMMA OnwardSeals ==
    ASSUME NEW j, j \in DOMAIN Goes,
           NEW accepted, NEW e, Complete(e, EarlyFiles(j), FinalFile(j)) \/ e = <<>>
    PROVE  Seals(j, Provided(accepted, e \o <<GoOn(Goes[j])>>))
<1> DEFINE onward == <<GoOn(Goes[j])>>
           files == EarlyFiles(j) \union {FinalFile(j)}
<1>1. List(onward) /\ Len(onward) = 1 /\ GoesOnTo(j, onward[1])
  BY DEF List, GoOn, GoesOnTo
<1>2. List(e) /\ Len(e) \in Nat /\ DOMAIN e = 1..Len(e)
  <2>1. List(<<>>)
    BY DEF List
  <2> QED BY <2>1, ListProperties DEF Complete, KeepsOnly
<1>3. \A k \in DOMAIN e : Quiet(e[k]) \/ Keeps(e[k], files)
  <2>1. CASE e = <<>>
    BY <2>1
  <2>2. CASE Complete(e, EarlyFiles(j), FinalFile(j))
    BY <2>2 DEF Complete, KeepsOnly
  <2> QED BY <2>1, <2>2
<1>4. Writes(e) # {} => EndsIn(e, EarlyFiles(j), FinalFile(j))
  <2>1. CASE e = <<>>
    BY <2>1 DEF Writes
  <2>2. CASE Complete(e, EarlyFiles(j), FinalFile(j))
    BY <2>2 DEF Complete
  <2> QED BY <2>1, <2>2
<1> HIDE DEF onward, files
<1>5. /\ List(e \o onward) /\ DOMAIN (e \o onward) = 1..Len(e) + 1
      /\ \A k \in 1..Len(e) : (e \o onward)[k] = e[k]
      /\ (e \o onward)[Len(e) + 1] = onward[1]
  <2>0. List(e) /\ List(onward)
    BY <1>1, <1>2
  <2>1. List(e \o onward) /\ Len(e \o onward) = Len(e) + 1
    <3>1. List(e \o onward)
      BY <2>0, ListConcat, Zenon
    <3>2. Len(e \o onward) = Len(e) + Len(onward)
      BY <2>0, ListConcat, Zenon
    <3> QED BY <3>1, <3>2, <1>1
  <2>2. \A k \in 1..Len(e) : (e \o onward)[k] = e[k]
    BY <1>1, <1>2, ListConcat
  <2>3. (e \o onward)[Len(e) + 1] = onward[1]
    <3>1. 1 \in 1..Len(onward)
      BY <1>1
    <3>2. \A k \in 1..Len(onward) : (e \o onward)[Len(e) + k] = onward[k]
      BY <2>0, ListConcat
    <3> QED BY <3>1, <3>2
  <2>4. DOMAIN (e \o onward) = 1..Len(e) + 1
    BY <2>1, ListProperties
  <2> QED BY <2>1, <2>2, <2>3, <2>4
<1>6. \A k \in 1..Len(e) + 1 : k \in 1..Len(e) \/ k = Len(e) + 1
  BY <1>2
<1>7. \A k \in DOMAIN (e \o onward) : \/ Quiet((e \o onward)[k]) \/ GoesOnTo(j, (e \o onward)[k])
                                      \/ Keeps((e \o onward)[k], files)
  BY <1>1, <1>2, <1>3, <1>5, <1>6
<1>8. Writes(e \o onward) = Writes(e)
  <2>1. \A k \in 1..Len(e) + 1 : k \in Writes(e \o onward) <=> k \in Writes(e)
    <3> TAKE k \in 1..Len(e) + 1
    <3>1. CASE k \in 1..Len(e)
      BY <3>1, <1>2, <1>5 DEF Writes
    <3>2. CASE k = Len(e) + 1
      BY <3>2, <1>1, <1>2, <1>5 DEF Writes, GoesOnTo
    <3> QED BY <3>1, <3>2, <1>6
  <2> QED BY <2>1, <1>2, <1>5 DEF Writes
<1>9. Writes(e) # {} => EndsIn(e \o onward, EarlyFiles(j), FinalFile(j))
  BY <1>2, <1>4, <1>5, <1>8 DEF EndsIn, Writes
<1>10. Seals(j, e \o onward)
  BY <1>5, <1>7, <1>8, <1>9 DEF Seals, files
<1> QED BY <1>10, ProvidedSeals DEF onward

LEMMA CorpusSeals ==
    ASSUME NEW g
    PROVE  Seals("corpus", WriteCorpus(g))
<1> DEFINE chunks == Chunks(g.streamed)
           manifest == ChunkManifest(g.import_manifest, g.hashed, chunks)
           report == CorpusReport(g.import_manifest, chunks)
           early == {"chunks", "chunk_manifest", "corpus_report"}
<1>1. Keeps(Immutable("chunks", chunks), early)
  BY MadeIsNamed DEF Chunks
<1>2. Keeps(Immutable("chunk_manifest", manifest), early)
  BY MadeIsNamed DEF ChunkManifest
<1>3. Keeps(Immutable("corpus_report", report), early)
  BY MadeIsNamed DEF CorpusReport
<1>4. Keeps(Immutable("corpus_markdown", CorpusMarkdown(report)), {"corpus_markdown"})
  BY MadeIsNamed DEF CorpusMarkdown
<1>5. Complete(<<Immutable("chunks", chunks), Immutable("chunk_manifest", manifest),
        Immutable("corpus_report", report), Immutable("corpus_markdown",
        CorpusMarkdown(report))>>, early, "corpus_markdown")
  BY <1>1, <1>2, <1>3, <1>4, KeepsFourth
<1>6. EarlyFiles("corpus") = early /\ FinalFile("corpus") = "corpus_markdown"
  BY DEF EarlyFiles, FinalFile
<1> QED BY <1>5, <1>6, CompleteIsEnough DEF WriteCorpus

LEMMA ProposeSeals ==
    ASSUME NEW g
    PROVE  Seals("propose", Propose(g))
<1> DEFINE proposals == Proposals(g.contexts)
           early == {"proposals"}
<1>1. Keeps(Immutable("proposals", proposals), early)
  BY MadeIsNamed DEF Proposals
<1>2. Keeps(Immutable("proposal_report", ProposalReport(g.import_manifest, proposals)),
        {"proposal_report"})
  BY MadeIsNamed DEF ProposalReport
<1>3. Complete(<<Immutable("proposals", proposals), Immutable("proposal_report",
        ProposalReport(g.import_manifest, proposals))>>, early, "proposal_report")
  BY <1>1, <1>2, KeepsSecond
<1>4. EarlyFiles("propose") = early /\ FinalFile("propose") = "proposal_report"
  BY DEF EarlyFiles, FinalFile
<1> QED BY <1>3, <1>4, CompleteIsEnough DEF Propose

LEMMA FreezeSeals ==
    ASSUME NEW g, NEW lucky
    PROVE  Seals("freeze", Freeze(g, lucky))
<1> DEFINE corpus == g.proposal_report.from.corpus
           aliases == Aliases(g.proposals)
           manifest == AliasManifest(corpus, aliases)
           early == {"aliases", "alias_manifest"}
<1>1. Keeps(Immutable("aliases", aliases), early)
  BY MadeIsNamed DEF Aliases
<1>2. Keeps(Immutable("alias_manifest", manifest), early)
  BY MadeIsNamed DEF AliasManifest
<1>3. Keeps(Immutable("alias_report", AliasReport(corpus, g.proposals, manifest)),
        {"alias_report"})
  BY MadeIsNamed DEF AliasReport
<1>4. Complete(<<Immutable("aliases", aliases), Immutable("alias_manifest", manifest),
        Immutable("alias_report", AliasReport(corpus, g.proposals, manifest))>>, early,
        "alias_report")
  BY <1>1, <1>2, <1>3, KeepsThird
<1>5. EarlyFiles("freeze") = early /\ FinalFile("freeze") = "alias_report"
  BY DEF EarlyFiles, FinalFile
<1> QED BY <1>4, <1>5, CompleteIsEnough DEF Freeze

LEMMA IndexSeals ==
    ASSUME NEW g, NEW lucky
    PROVE  Seals("index", BuildIndex(g, lucky))
<1> DEFINE corpus == g.chunk_manifest.from.corpus
           database == SparseDatabase(g.streamed, g.hashed, corpus, g.alias_manifest)
           early == {"database"}
<1>1. Keeps(Immutable("database", database), early)
  BY MadeIsNamed DEF SparseDatabase
<1>2. Keeps(Immutable("index_manifest", IndexManifest(database, corpus, g.hashed,
        g.alias_manifest)), {"index_manifest"})
  BY MadeIsNamed DEF IndexManifest
<1>3. Complete(<<Immutable("database", database), Immutable("index_manifest",
        IndexManifest(database, corpus, g.hashed, g.alias_manifest))>>, early, "index_manifest")
  BY <1>1, <1>2, KeepsSecond
<1>4. EarlyFiles("index") = early /\ FinalFile("index") = "index_manifest"
  BY DEF EarlyFiles, FinalFile
<1> QED BY <1>3, <1>4, CompleteIsEnough DEF BuildIndex

LEMMA SplitSeals ==
    ASSUME NEW g
    PROVE  Seals("split", BuildSplit(g.train, g.public))
<1>1. Keeps(Immutable("split", Split(g.train, g.public)), {"split"})
  BY MadeIsNamed DEF Split
<1>2. Complete(<<Immutable("split", Split(g.train, g.public))>>, {}, "split")
  BY <1>1, KeepsFirst
<1>3. EarlyFiles("split") = {} /\ FinalFile("split") = "split"
  BY DEF EarlyFiles, FinalFile
<1> QED BY <1>2, <1>3, CompleteIsEnough DEF BuildSplit

LEMMA SampleSeals ==
    ASSUME NEW g
    PROVE  Seals("sample", BuildSample(g))
<1>1. Keeps(Immutable("sample", Sample(g.train, g.split)), {"sample"})
  BY MadeIsNamed DEF Sample
<1>2. Complete(<<Immutable("sample", Sample(g.train, g.split))>>, {}, "sample")
  BY <1>1, KeepsFirst
<1>3. EarlyFiles("sample") = {} /\ FinalFile("sample") = "sample"
  BY DEF EarlyFiles, FinalFile
<1> QED BY <1>2, <1>3, CompleteIsEnough DEF BuildSample

LEMMA RetrievalSeals ==
    ASSUME NEW g
    PROVE  Seals("retrieval", RunRetrieval(g))
<1> DEFINE output == RetrievalOutput(g.train, g.split, g.index_manifest, g.alias_manifest)
           queue == AnnotationQueue(output, g.sample)
           early == {"retrieval_output", "queue"}
<1>1. Keeps(Immutable("retrieval_output", output), early)
  BY MadeIsNamed DEF RetrievalOutput
<1>2. Keeps(Immutable("queue", queue), early)
  BY MadeIsNamed DEF AnnotationQueue
<1>3. Keeps(Immutable("retrieval_report", RetrievalReport(output, queue)), {"retrieval_report"})
  BY MadeIsNamed DEF RetrievalReport
<1>4. Complete(<<Immutable("retrieval_output", output), Immutable("queue", queue),
        Immutable("retrieval_report", RetrievalReport(output, queue))>>, early,
        "retrieval_report")
  BY <1>1, <1>2, <1>3, KeepsThird
<1>5. EarlyFiles("retrieval") = early /\ FinalFile("retrieval") = "retrieval_report"
  BY DEF EarlyFiles, FinalFile
<1> QED BY <1>4, <1>5, CompleteIsEnough DEF RunRetrieval

LEMMA SelectSeals ==
    ASSUME NEW g, NEW lucky
    PROVE  Seals("select", SelectEvidence(g, lucky))
<1> DEFINE selected == SelectedOutput(g.queue, g.ranking)
           early == {"selected_output"}
<1>1. Keeps(Immutable("selected_output", selected), early)
  BY MadeIsNamed DEF SelectedOutput
<1>2. Keeps(Immutable("selection_report", SelectionReport(g.queue, g.ranking, selected)),
        {"selection_report"})
  BY MadeIsNamed DEF SelectionReport
<1>3. Complete(<<Immutable("selected_output", selected), Immutable("selection_report",
        SelectionReport(g.queue, g.ranking, selected))>>, early, "selection_report")
  BY <1>1, <1>2, KeepsSecond
<1>4. EarlyFiles("select") = early /\ FinalFile("select") = "selection_report"
  BY DEF EarlyFiles, FinalFile
<1> QED BY <1>3, <1>4, CompleteIsEnough DEF SelectEvidence

LEMMA RagSftSeals ==
    ASSUME NEW g
    PROVE  Seals("rag_sft", BuildRagSft(g))
<1> DEFINE policy == SupportPolicy(g.index_manifest, g.alias_manifest)
           selection == MinedSelection(g.train, g.split, policy)
           provenance == SftPart("sft_provenance", g.train, g.split, selection)
           material == SftPart("sft_material", g.train, g.split, selection)
           early == {"sft_selection", "sft_provenance", "sft_material", "sft_manifest"}
<1>1. Keeps(Immutable("sft_selection", selection), early)
  BY MadeIsNamed DEF MinedSelection
<1>2. Keeps(Immutable("sft_provenance", provenance), early)
  BY MadeIsNamed DEF SftPart
<1>3. Keeps(Immutable("sft_material", material), early)
  BY MadeIsNamed DEF SftPart
<1>4. Keeps(Immutable("sft_manifest", SftManifest(provenance, material)), early)
  BY MadeIsNamed DEF SftManifest
<1>5. Keeps(Immutable("mining_report", MiningReport(policy, selection)), {"mining_report"})
  BY MadeIsNamed DEF MiningReport
<1>6. Complete(<<Immutable("sft_selection", selection), Immutable("sft_provenance",
        provenance), Immutable("sft_material", material), Immutable("sft_manifest",
        SftManifest(provenance, material)), Immutable("mining_report", MiningReport(policy,
        selection))>>, early, "mining_report")
  BY <1>1, <1>2, <1>3, <1>4, <1>5, KeepsFifth
<1>7. EarlyFiles("rag_sft") = early /\ FinalFile("rag_sft") = "mining_report"
  BY DEF EarlyFiles, FinalFile
<1> QED BY <1>6, <1>7, CompleteIsEnough DEF BuildRagSft

LEMMA ExportSeals ==
    ASSUME NEW g, NEW status
    PROVE  Seals("export_draft", Export(g, status)) /\ Seals("export_approved", Export(g, status))
<1> DEFINE benchmark == Benchmark(g.queue, g.progress.labels)
           manifest == BenchmarkManifest(g.queue, benchmark, status)
<1>1. Keeps(Immutable("benchmark", benchmark), {"benchmark"})
  BY DEF Keeps, Immutable, Benchmark, NoFile
<1>2. Keeps(Immutable("benchmark_manifest", manifest), {"benchmark_manifest"})
  BY DEF Keeps, Immutable, BenchmarkManifest, NoFile
<1>3. Quiet(Expect("benchmark", benchmark)) /\ Quiet(Expect("benchmark_manifest", manifest))
  BY DEF Quiet, Expect
<1>4. Complete(<<Expect("benchmark", benchmark), Expect("benchmark_manifest", manifest),
                 Immutable("benchmark", benchmark), Immutable("benchmark_manifest", manifest)>>,
               {"benchmark"}, "benchmark_manifest")
  BY <1>1, <1>2, <1>3, LooksFirst
<1>5. /\ EarlyFiles("export_draft") = {"benchmark"} /\ EarlyFiles("export_approved") = {"benchmark"}
      /\ FinalFile("export_draft") = "benchmark_manifest"
      /\ FinalFile("export_approved") = "benchmark_manifest"
  BY DEF EarlyFiles, FinalFile
<1> QED BY <1>4, <1>5, CompleteIsEnough DEF Export

LEMMA ValidateSeals ==
    ASSUME NEW g
    PROVE  Seals("validate", ValidateGrounding(g))
<1>1. Keeps(Immutable("grounding_report", GroundingReport(g.benchmark_manifest, g.benchmark)),
        {"grounding_report"})
  BY MadeIsNamed DEF GroundingReport
<1>2. Complete(<<Immutable("grounding_report", GroundingReport(g.benchmark_manifest,
        g.benchmark))>>, {}, "grounding_report")
  BY <1>1, KeepsFirst
<1>3. EarlyFiles("validate") = {} /\ FinalFile("validate") = "grounding_report"
  BY DEF EarlyFiles, FinalFile
<1> QED BY <1>2, <1>3, CompleteIsEnough DEF ValidateGrounding

LEMMA EvaluateSeals ==
    ASSUME NEW g
    PROVE  Seals("evaluate", EvaluateRetrieval(g))
<1>1. Keeps(Immutable("evaluation_report", EvaluationReport(g.benchmark_manifest, g.benchmark,
        g.retrieval_output, g.queue)), {"evaluation_report"})
  BY MadeIsNamed DEF EvaluationReport
<1>2. Complete(<<Immutable("evaluation_report", EvaluationReport(g.benchmark_manifest,
        g.benchmark, g.retrieval_output, g.queue))>>, {}, "evaluation_report")
  BY <1>1, KeepsFirst
<1>3. EarlyFiles("evaluate") = {} /\ FinalFile("evaluate") = "evaluation_report"
  BY DEF EarlyFiles, FinalFile
<1> QED BY <1>2, <1>3, CompleteIsEnough DEF EvaluateRetrieval

LEMMA EvaluateSetSeals ==
    ASSUME NEW g, NEW lucky
    PROVE  Seals("evaluate_set", EvaluateRetrievalSet(g, lucky))
<1>1. Keeps(Immutable("set_report", SetReport(g)), {"set_report"})
  BY MadeIsNamed DEF SetReport
<1>2. Complete(<<Immutable("set_report", SetReport(g))>>, {}, "set_report")
  BY <1>1, KeepsFirst
<1>3. EarlyFiles("evaluate_set") = {} /\ FinalFile("evaluate_set") = "set_report"
  BY DEF EarlyFiles, FinalFile
<1> QED BY <1>2, <1>3, CompleteIsEnough DEF EvaluateRetrievalSet

LEMMA OracleSeals ==
    ASSUME NEW g, NEW lucky
    PROVE  Seals("oracle", BuildOracle(g, lucky))
<1> DEFINE eligible == Oracle("oracle_queue", g, g.r0)
           o2 == Oracle("oracle_o2", g, g.r0)
           o3 == Oracle("oracle_o3", g, g.r2r)
           o4 == Oracle("oracle_o4", g, g.r0)
           report == OracleReport(g, [queue2 |-> eligible, o2 |-> o2, o3 |-> o3, o4 |-> o4])
           early == {"oracle_queue", "oracle_o2", "oracle_o3", "oracle_o4"}
<1>1. Keeps(Immutable("oracle_queue", eligible), early)
  BY MadeIsNamed DEF Oracle
<1>2. Keeps(Immutable("oracle_o2", o2), early)
  BY MadeIsNamed DEF Oracle
<1>3. Keeps(Immutable("oracle_o3", o3), early)
  BY MadeIsNamed DEF Oracle
<1>4. Keeps(Immutable("oracle_o4", o4), early)
  BY MadeIsNamed DEF Oracle
<1>5. \A outputs : Keeps(Immutable("oracle_report", OracleReport(g, outputs)), {"oracle_report"})
  BY DEF OracleReport, Made, Keeps, Immutable, NoFile
<1>6. Complete(<<Immutable("oracle_queue", eligible), Immutable("oracle_o2", o2),
                 Immutable("oracle_o3", o3), Immutable("oracle_o4", o4),
                 Immutable("oracle_report", report)>>, early, "oracle_report")
  <2> HIDE DEF eligible, o2, o3, o4, early
  <2> QED BY <1>1, <1>2, <1>3, <1>4, <1>5, KeepsFifth
<1>7. EarlyFiles("oracle") = early /\ FinalFile("oracle") = "oracle_report"
  BY DEF EarlyFiles, FinalFile
<1> QED BY <1>6, <1>7, CompleteIsEnough DEF BuildOracle

LEMMA ScoreSeals ==
    ASSUME NEW g
    PROVE  Seals("score", Score(g))
<1> DEFINE perQuery == PerQuery(g.predictions, g.references, g.imported)
           report == ScoreReport(perQuery, g.predictions, g.references, g.named)
<1>1. Keeps(Immutable("per_query", perQuery), {"per_query"})
  BY MadeIsNamed DEF PerQuery
<1>2. Keeps(Immutable("score_report", report), {"score_report"})
  BY MadeIsNamed DEF ScoreReport
<1>3. Quiet(Expect("per_query", perQuery)) /\ Quiet(Expect("score_report", report))
  BY DEF Quiet, Expect
<1>4. Complete(Score(g), {"per_query"}, "score_report")
  BY <1>1, <1>2, <1>3, LooksFirst DEF Score
<1>5. EarlyFiles("score") = {"per_query"} /\ FinalFile("score") = "score_report"
  BY DEF EarlyFiles, FinalFile
<1> QED BY <1>4, <1>5, CompleteIsEnough

\* Six looks, then six writes in the order of the paths.
LEMMA BaselineSeals ==
    ASSUME NEW g
    PROVE  Seals("baseline", BuildBaseline(g))
<1> DEFINE train == TrainQuestions(g.train_source)
           development == Development(train, g.split)
           developed == RefusalRun("development_run", development, g)
           publicRun == RefusalRun("public_run", PublicQuestions(g.public_source), g)
           predictions == RefusalPredictions(g.public_source)
           manifest == BaselineManifest(
               [split |-> g.split, development |-> developed, public |-> publicRun,
                refused |-> predictions, predictions |-> Predictions(development),
                references |-> References(development)])
           bundle == <<<<"baseline_manifest", manifest>>,
                       <<"predictions", Predictions(development)>>,
                       <<"references", References(development)>>,
                       <<"development_run", developed>>,
                       <<"public_predictions", predictions>>,
                       <<"public_run", publicRun>>>>
           expected == [k \in DOMAIN bundle |-> Expect(bundle[k][1], bundle[k][2])]
           written == [k \in DOMAIN bundle |-> Immutable(bundle[k][1], bundle[k][2])]
           early == {"baseline_manifest", "predictions", "references", "development_run",
                     "public_predictions"}
<1>1. BuildBaseline(g) = Provided(SplitIsOf(g.split, train), expected \o written)
  BY DEF BuildBaseline
<1>2. /\ manifest # NoFile /\ developed # NoFile /\ publicRun # NoFile /\ predictions # NoFile
      /\ Predictions(development) # NoFile /\ References(development) # NoFile
  BY DEF Made, NoFile, BaselineManifest, RefusalRun, RefusalPredictions, Predictions, References
<1> HIDE DEF manifest, development, developed, publicRun, predictions
<1>3. DOMAIN bundle = 1..6 /\ bundle[6][1] = "public_run"
      /\ (\A k \in 1..5 : bundle[k][1] \in early) /\ \A k \in 1..6 : bundle[k][2] # NoFile
  BY <1>2
<1> HIDE DEF bundle
<1>4. KeepsOnly(expected, early)
  <2>1. List(expected)
    BY <1>3, ListFromTo
  <2> QED BY <1>3, <2>1 DEF KeepsOnly, Quiet, Expect
<1>5. Complete(written, early, "public_run")
  <2>1. List(written) /\ DOMAIN written = 1..6
    BY <1>3, ListFromTo
  <2>2. \A k \in 1..6 : /\ written[k].do = "immutable" /\ written[k].file = bundle[k][1]
                          /\ written[k].data # NoFile
    BY <1>3 DEF Immutable
  <2> HIDE DEF written
  <2>3. Writes(written) = 1..6
    BY <2>1, <2>2 DEF Writes
  <2>4. \A k \in 1..6 : Keeps(written[k], early \union {"public_run"})
    <3> TAKE k \in 1..6
    <3>1. k \in 1..5 \/ k = 6
      OBVIOUS
    <3> QED BY <1>3, <2>2, <3>1 DEF Keeps
  <2>5. KeepsOnly(written, early \union {"public_run"})
    BY <2>1, <2>4 DEF KeepsOnly
  <2>6. EndsIn(written, early, "public_run")
    <3>1. \A k \in 1..6 : k # 6 => k < 6 /\ written[k].file \in early
      <4> TAKE k \in 1..6
      <4>1. k # 6 => k \in 1..5 /\ k < 6
        OBVIOUS
      <4> QED BY <1>3, <2>2, <4>1
    <3>2. 6 \in Writes(written) /\ written[6].file = "public_run"
      BY <1>3, <2>2, <2>3
    <3> QED BY <2>3, <3>1, <3>2 DEF EndsIn
  <2> QED BY <2>5, <2>6 DEF Complete
<1> HIDE DEF expected, written
<1>6. Complete(expected \o written, early, "public_run")
  BY <1>4, <1>5, EarlyConcat
<1>7. EarlyFiles("baseline") = early /\ FinalFile("baseline") = "public_run"
  BY DEF EarlyFiles, FinalFile
<1> QED BY <1>1, <1>6, <1>7, CompleteIsEnough

------------------------------------------------------------------------------
(* The files of the scripts.                                               *)
LEMMA PublishConcatSeals ==
    ASSUME NEW c, List(c), NEW d, List(d), NEW early, NEW final,
           \A k \in DOMAIN c : Named(c[k], early), Complete(Publish(d), early, final)
    PROVE  Complete(Publish(c \o d), early, final)
<1>1. KeepsOnly(Publish(c), early)
  BY TitledIsKept
<1>2. Publish(c \o d) = Publish(c) \o Publish(d)
  BY PublishConcat
<1> QED BY <1>1, <1>2, EarlyConcat

LEMMA ByNameIsFull ==
    ASSUME NEW c, List(c), Len(c) >= 1
    PROVE  DOMAIN ByName(c) # {}
<1>1. 1 \in DOMAIN c
  BY ListProperties
<1>2. c[1].what \in DOMAIN ByName(c)
  BY <1>1 DEF ByName
<1> QED BY <1>2

LEMMA DossierSeals ==
    ASSUME NEW id, NEW early, NEW report, Named(report, early), Paged(id) \in early
    PROVE  Complete(Dossier(id, report), early, Checked(id))
<1> DEFINE page == Made(id \o "_markdown", [report |-> report])
           checksums == Made(id \o "_checksums", [report |-> report, page |-> page])
<1>1. Named(page, early)
  BY MadeIsNamed DEF Paged
<1>2. Named(checksums, {Checked(id)})
  BY MadeIsNamed DEF Checked
<1>3. Complete(Publish(<<report, page, checksums>>), early, Checked(id))
  <2> HIDE DEF page, checksums
  <2> QED BY <1>1, <1>2, PublishThree
<1> QED BY <1>3 DEF Dossier

LEMMA FreezeBaselineSeals ==
    ASSUME NEW g, NEW lucky
    PROVE  Seals("freeze_baseline", FreezeBaseline(g, lucky))
<1> DEFINE report == Made("d063_report", [inputs |-> Inputs(g, "", BaselineEvidence)])
<1>1. Named(report, {"d063_report", Paged("d063")})
  BY DEF Named, Made, NoFile
<1>2. Complete(Dossier("d063", report), {"d063_report", Paged("d063")}, Checked("d063"))
  BY <1>1, DossierSeals
<1>3. /\ EarlyFiles("freeze_baseline") = {"d063_report", Paged("d063")}
      /\ FinalFile("freeze_baseline") = Checked("d063")
  BY DEF EarlyFiles, FinalFile
<1> QED BY <1>2, <1>3, CompleteIsEnough DEF FreezeBaseline

LEMMA ForensicsSeals ==
    ASSUME NEW g
    PROVE  Seals("forensics", TrainForensics(g))
<1> DEFINE report == Made("d064_report", [inputs |-> Inputs(g, "", ForensicsFiles)])
<1>1. Named(report, {"d064_report", Paged("d064")})
  BY DEF Named, Made, NoFile
<1>2. Complete(Dossier("d064", report), {"d064_report", Paged("d064")}, Checked("d064"))
  BY <1>1, DossierSeals
<1>3. /\ EarlyFiles("forensics") = {"d064_report", Paged("d064")}
      /\ FinalFile("forensics") = Checked("d064")
  BY DEF EarlyFiles, FinalFile
<1> QED BY <1>2, <1>3, CompleteIsEnough DEF TrainForensics

LEMMA RefineSeals ==
    ASSUME NEW g
    PROVE  Seals("refine", RefineTaxonomy(g))
<1> DEFINE refined == Made("d065_refined", [train |-> g.train, split |-> g.split])
           early == {"d065_refined", Paged("d065_refined")}
<1>1. Named(refined, early)
  BY MadeIsNamed
<1>2. Complete(Dossier("d065_refined", refined), early, Checked("d065_refined"))
  BY <1>1, DossierSeals
<1>3. EarlyFiles("refine") = early /\ FinalFile("refine") = Checked("d065_refined")
  BY DEF EarlyFiles, FinalFile
<1>4. "refine" \in DOMAIN Goes /\ Goes["refine"] = "supervise"
  BY DEF Goes
<1> QED BY <1>2, <1>3, <1>4, OnwardSeals DEF RefineTaxonomy

LEMMA SuperviseSeals ==
    ASSUME NEW g
    PROVE  Seals("supervise", Supervise(g))
<1> DEFINE groups == Supervision(g.split, Inputs(g, "first ", SupervisedFiles))
           report == Made("d065_report", [groups |-> groups])
           completion == Made("d065_markdown", [groups |-> groups, report |-> report])
           checksums == Made("d065_checksums", [groups |-> groups, report |-> report,
           completion |-> completion])
           early == {"supervision", "d065_report", "d065_markdown"}
<1>1. Named(groups, early)
  BY DEF Named, Made, NoFile, Supervision
<1>2. Named(report, early)
  BY DEF Named, Made, NoFile
<1>3. Named(completion, early)
  BY DEF Named, Made, NoFile
<1>4. Named(checksums, {"d065_checksums"})
  BY DEF Named, Made, NoFile
<1>5. Complete(Publish(<<groups, report, completion, checksums>>), early, "d065_checksums")
  BY <1>1, <1>2, <1>3, <1>4, PublishFour
<1>6. EarlyFiles("supervise") = early /\ FinalFile("supervise") = "d065_checksums"
  BY DEF EarlyFiles, FinalFile
<1> QED BY <1>5, <1>6, CompleteIsEnough DEF Supervise

LEMMA TimeoutSeals ==
    Seals("timeout", RecordTimeout)
<1>1. Named(Made("sparse_timeout", [arguments |-> Value("arguments", 1)]), {"sparse_timeout"})
  BY DEF Named, Made, NoFile
<1>2. Complete(Publish(<<Made("sparse_timeout", [arguments |-> Value("arguments", 1)])>>), {},
        "sparse_timeout")
  BY <1>1, PublishOne
<1>3. EarlyFiles("timeout") = {} /\ FinalFile("timeout") = "sparse_timeout"
  BY DEF EarlyFiles, FinalFile
<1> QED BY <1>2, <1>3, CompleteIsEnough DEF RecordTimeout

LEMMA SparsePreflightSeals ==
    ASSUME NEW g, NEW now
    PROVE  Seals("sparse_preflight", SparsePreflight(g, now))
<1>1. Named(Made("sparse_preflight", [now |-> Moment(now)]), {"sparse_preflight"})
  BY DEF Named, Made, NoFile
<1>2. Complete(Publish(<<Made("sparse_preflight", [now |-> Moment(now)])>>), {},
        "sparse_preflight")
  BY <1>1, PublishOne
<1>3. EarlyFiles("sparse_preflight") = {} /\ FinalFile("sparse_preflight") = "sparse_preflight"
  BY DEF EarlyFiles, FinalFile
<1> QED BY <1>2, <1>3, CompleteIsEnough DEF SparsePreflight

LEMMA RankingsNamed ==
    ASSUME NEW arm, NEW inputs, NEW files, arm \o "_rankings" \in files
    PROVE  Named(Rankings(arm, inputs), files)
BY MadeIsNamed DEF Rankings

LEMMA EvaluationNamed ==
    ASSUME NEW arm, NEW rankings, NEW files, arm \o "_evaluation" \in files
    PROVE  Named(Evaluation(arm, rankings), files)
BY MadeIsNamed DEF Evaluation

LEMMA ComparisonNamed ==
    ASSUME NEW arm, NEW base, NEW other, NEW files, arm \o "_comparison" \in files
    PROVE  Named(Comparison(arm, base, other), files)
BY MadeIsNamed DEF Comparison

LEMMA TournamentSeals ==
    ASSUME NEW g, NEW now
    PROVE  Seals("tournament", Tournament(g, now))
<1> DEFINE inputs == Inputs(g, "", TournamentFiles)
           sparse == Rankings("sparse", inputs)
           legal == Rankings("legal", inputs)
           first == Evaluation("sparse", sparse)
           second == Evaluation("legal", legal)
           measured == <<first, second>>
           comparison == Comparison("sparse", measured[1], measured[2])
           outputs == <<sparse, measured[1], legal, measured[2], comparison>>
           manifest == Made("sparse_manifest", ByName(outputs))
           telemetry == Made("sparse_telemetry", [now |-> Moment(now)])
           early == {"sparse" \o "_rankings", "legal" \o "_rankings", "sparse" \o "_evaluation",
                     "legal" \o "_evaluation", "sparse" \o "_comparison", "sparse_manifest"}
<1>1. /\ "sparse" \o "_rankings" \in early /\ "legal" \o "_rankings" \in early
      /\ "sparse" \o "_evaluation" \in early /\ "legal" \o "_evaluation" \in early
      /\ "sparse" \o "_comparison" \in early /\ "sparse_manifest" \in early
  BY Zenon
<1>2. Named(sparse, early) /\ Named(legal, early)
  <2> HIDE DEF inputs, early
  <2> QED BY <1>1, RankingsNamed
<1>3. Named(first, early) /\ Named(second, early)
  <2> HIDE DEF sparse, legal, early
  <2> QED BY <1>1, EvaluationNamed
<1>5. Named(comparison, early)
  <2> HIDE DEF measured, early
  <2> QED BY <1>1, ComparisonNamed
<1>6. outputs = <<sparse, first, legal, second, comparison>>
  OBVIOUS
<1>7. List(outputs) /\ Len(outputs) = 5 /\ \A k \in DOMAIN outputs : Named(outputs[k], early)
  <2> HIDE DEF sparse, legal, first, second, comparison, early, outputs
  <2> QED BY <1>2, <1>3, <1>5, <1>6 DEF List
<1>8. Named(manifest, early)
  <2> HIDE DEF outputs, early
  <2>1. DOMAIN ByName(outputs) # {}
    BY <1>7, ByNameIsFull
  <2> QED BY <1>1, <2>1, MadeIsNamed
<1>9. Named(telemetry, {"sparse_telemetry"})
  BY MadeIsNamed
<1>10. Complete(Publish(outputs \o <<manifest, telemetry>>), early, "sparse_telemetry")
  <2> HIDE DEF outputs, manifest, telemetry, early
  <2>1. Complete(Publish(<<manifest, telemetry>>), early, "sparse_telemetry")
    BY <1>8, <1>9, PublishTwo
  <2>2. List(<<manifest, telemetry>>)
    BY DEF List
  <2> QED BY <1>7, <2>1, <2>2, PublishConcatSeals
<1>11. EarlyFiles("tournament") = early /\ FinalFile("tournament") = "sparse_telemetry"
  BY DEF EarlyFiles, FinalFile
<1>12. Complete(Publish(outputs \o <<manifest, telemetry>>), EarlyFiles("tournament"),
                FinalFile("tournament"))
  BY <1>10, <1>11
<1> QED BY <1>12, CompleteIsEnough DEF Tournament

LEMMA RemediationSeals ==
    ASSUME NEW g, NEW now
    PROVE  Seals("remediation", SparseRemediation(g, now))
<1> DEFINE inputs == Inputs(g, "", RemediationFiles)
           early == {"sparse_parity"}
<1>1. Named(Made("sparse_parity", [inputs |-> inputs]), early)
  BY DEF Named, Made, NoFile
<1>2. Named(Made("sparse_profile", [inputs |-> inputs, now |-> Moment(now)]),
        {"sparse_profile"})
  BY DEF Named, Made, NoFile
<1>3. Complete(Publish(<<Made("sparse_parity", [inputs |-> inputs]), Made("sparse_profile",
        [inputs |-> inputs, now |-> Moment(now)])>>), early, "sparse_profile")
  BY <1>1, <1>2, PublishTwo
<1>4. EarlyFiles("remediation") = early /\ FinalFile("remediation") = "sparse_profile"
  BY DEF EarlyFiles, FinalFile
<1> QED BY <1>3, <1>4, CompleteIsEnough DEF SparseRemediation

LEMMA DensePreflightSeals ==
    ASSUME NEW g, NEW now
    PROVE  Seals("dense_preflight", DensePreflight(g, now))
<1> DEFINE preflight == Made("dense_preflight", [encoder |-> g.encoder, now |-> Moment(now),
        sample |-> Inputs(g, "", <<"database", "chunks">>), historical |-> g.historical_report])
<1>1. Named(preflight, {"dense_preflight"})
  BY DEF Named, Made, NoFile
<1>2. Complete(Publish(<<preflight>>), {}, "dense_preflight")
  BY <1>1, PublishOne
<1>3. EarlyFiles("dense_preflight") = {} /\ FinalFile("dense_preflight") = "dense_preflight"
  BY DEF EarlyFiles, FinalFile
<1> QED BY <1>2, <1>3, CompleteIsEnough DEF DensePreflight

LEMMA DenseIndexSeals ==
    ASSUME NEW g, NEW now
    PROVE  Seals("dense_index", BuildDenseIndex(g, now))
<1> DEFINE vectors == DenseVectors(g.encoder, g.chunks, g.rows)
           ids == DenseIds(g.rows)
           manifest == DenseManifest(g.encoder, g["pinned chunks"], vectors, ids)
           build == Made("dense_build", [preflight |-> g.dense_preflight, index |-> manifest,
           now |-> Moment(now)])
           early == {"dense_vectors", "dense_ids", "dense_manifest"}
<1>1. Named(vectors, early)
  BY DEF Named, Made, NoFile, DenseVectors
<1>2. Named(ids, early)
  BY DEF Named, Made, NoFile, DenseIds
<1>3. Named(manifest, early)
  BY DEF Named, Made, NoFile, DenseManifest
<1>4. Named(build, {"dense_build"})
  BY DEF Named, Made, NoFile
<1>5. Complete(Publish(<<vectors, ids, manifest, build>>), early, "dense_build")
  BY <1>1, <1>2, <1>3, <1>4, PublishFour
<1>6. EarlyFiles("dense_index") = early /\ FinalFile("dense_index") = "dense_build"
  BY DEF EarlyFiles, FinalFile
<1> QED BY <1>5, <1>6, CompleteIsEnough DEF BuildDenseIndex

LEMMA EncodeSeals ==
    ASSUME NEW g, NEW now
    PROVE  Seals("encode", EncodeQueries(g, now))
<1> DEFINE ids == QueryIds(Groups(g))
           vectors == QueryVectors(Groups(g), now)
           manifest == QueryManifest(vectors, ids, now)
           encoded == Publish(<<vectors, ids, manifest>>)
           early == {"query_vectors", "query_ids"}
<1>1. Named(vectors, early)
  BY DEF Named, Made, NoFile, QueryVectors
<1>2. Named(ids, early)
  BY DEF Named, Made, NoFile, QueryIds
<1>3. Named(manifest, {"query_manifest"})
  BY DEF Named, Made, NoFile, QueryManifest
<1>4. EarlyFiles("encode") = early /\ FinalFile("encode") = "query_manifest"
  BY DEF EarlyFiles, FinalFile
<1> HIDE DEF ids, vectors, manifest, early
<1>5. Complete(encoded, early, "query_manifest")
  BY <1>1, <1>2, <1>3, PublishThree
<1>6. "encode" \in DOMAIN Goes /\ Goes["encode"] = "search"
  BY DEF Goes
<1>7. \A accepted, vouched :
         Seals("encode", Provided(accepted, (IF vouched THEN <<>> ELSE encoded) \o <<GoOn("search")>>))
  <2> HIDE DEF encoded
  <2> TAKE accepted, vouched
  <2> DEFINE effects == IF vouched THEN <<>> ELSE encoded
  <2>1. Complete(effects, EarlyFiles("encode"), FinalFile("encode")) \/ effects = <<>>
    BY <1>4, <1>5
  <2> HIDE DEF effects
  <2>2. Seals("encode", Provided(accepted, effects \o <<GoOn("search")>>))
    BY <1>6, <2>1, OnwardSeals
  <2> QED BY <2>2 DEF effects
<1> USE DEF ids, vectors, manifest
<1> QED BY <1>7 DEF EncodeQueries

LEMMA SearchSeals ==
    ASSUME NEW g, NEW now
    PROVE  Seals("search", SearchDense(g, now))
<1> DEFINE shown == Inputs(g, "shown ", <<"database", "chunks">>)
           dense == Made("dense_rankings",
                         [queries |-> g.searched, index |-> g.dense_manifest, shown |-> shown])
           rrf == Made("rrf_rankings", [sparse |-> g.sparse_rankings, dense |-> dense])
           both == [sparse |-> g.sparse_rankings, dense |-> dense]
           outputs == <<dense, Evaluation("dense", dense), Made("diagnostics", both),
                        Made("dense_comparison", both), Made("union_evaluation", both),
                        rrf, Evaluation("rrf", rrf), Made("rrf_comparison", both)>>
           telemetry == Made("dense_telemetry", [now |-> Moment(now)])
           manifest == Made("dense_run",
                            [index |-> g["named index"], queries |-> g["named queries"],
                             telemetry |-> telemetry] @@ ByName(outputs))
           early == {"dense_rankings", "dense" \o "_evaluation", "diagnostics",
                     "dense_comparison", "union_evaluation", "rrf_rankings",
                     "rrf" \o "_evaluation", "rrf_comparison", "dense_telemetry"}
<1>1. /\ "dense" \o "_evaluation" \in early /\ "rrf" \o "_evaluation" \in early
      /\ "dense_rankings" \in early /\ "diagnostics" \in early /\ "dense_comparison" \in early
      /\ "union_evaluation" \in early /\ "rrf_rankings" \in early /\ "rrf_comparison" \in early
      /\ "dense_telemetry" \in early
  BY Zenon
<1>2. EarlyFiles("search") = early /\ FinalFile("search") = "dense_run"
  BY DEF EarlyFiles, FinalFile
<1> HIDE DEF shown, early
<1>3. Named(dense, early) /\ Named(rrf, early)
  BY <1>1 DEF Named, Made, NoFile
<1>4. /\ Named(Made("diagnostics", both), early) /\ Named(Made("dense_comparison", both), early)
      /\ Named(Made("union_evaluation", both), early)
      /\ Named(Made("rrf_comparison", both), early)
  <2> HIDE DEF both
  <2> QED BY <1>1 DEF Named, Made, NoFile
<1>5. Named(Evaluation("dense", dense), early) /\ Named(Evaluation("rrf", rrf), early)
  <2> HIDE DEF dense, rrf
  <2> QED BY <1>1, EvaluationNamed
<1>6. Named(telemetry, early)
  BY <1>1 DEF Named, Made, NoFile
<1>7. \A from : Named(Made("dense_run", from), {"dense_run"})
  BY DEF Named, Made, NoFile
<1>8. List(outputs) /\ \A k \in DOMAIN outputs : Named(outputs[k], early)
  <2> HIDE DEF dense, rrf, both
  <2> QED BY <1>3, <1>4, <1>5 DEF List
<1>9. Complete(Publish(<<telemetry, manifest>>), early, "dense_run")
  <2> HIDE DEF telemetry, outputs
  <2> QED BY <1>6, <1>7, PublishTwo
<1>10. Complete(Publish(outputs \o <<telemetry, manifest>>), early, "dense_run")
  <2> HIDE DEF outputs, telemetry, manifest
  <2>1. List(<<telemetry, manifest>>)
    BY DEF List
  <2> QED BY <1>8, <1>9, <2>1, PublishConcatSeals
<1>11. \A accepted : Seals("search", Provided(accepted, Publish(outputs \o <<telemetry, manifest>>)))
  <2> HIDE DEF outputs, telemetry, manifest
  <2> QED BY <1>2, <1>10, CompleteIsEnough
<1> QED BY <1>11 DEF SearchDense, shown

LEMMA ClosingSeals ==
    ASSUME NEW id, NEW evidence, NEW early, id \in early, id \o "_report" \in early
    PROVE  Complete(CloseOver(id, evidence), early, Checked(id))
<1> DEFINE stage == Made(id, [evidence |-> evidence])
           report == Made(id \o "_report", [stage |-> stage])
           checksums == Made(stage.what \o "_checksums", [stage |-> stage, report |-> report])
<1>1. Named(stage, early) /\ stage.what = id
  BY MadeIsNamed DEF Made
<1>2. Named(report, early)
  BY MadeIsNamed
<1>3. Named(checksums, {Checked(id)})
  <2> HIDE DEF stage, report
  <2>1. checksums = Made(id \o "_checksums", [stage |-> stage, report |-> report])
    BY <1>1
  <2> QED BY <2>1, MadeIsNamed DEF Checked
<1>4. Complete(Publish(<<stage, report, checksums>>), early, Checked(id))
  <2> HIDE DEF stage, report, checksums
  <2> QED BY <1>1, <1>2, <1>3, PublishThree
<1> QED BY <1>4 DEF CloseOver, Closing

LEMMA FinalizeBlockedSeals ==
    ASSUME NEW g
    PROVE  Seals("finalize_blocked", FinalizeBlocked(g))
<1> DEFINE early == {"d066_blocked", "d066_blocked" \o "_report"}
<1>1. EarlyFiles("finalize_blocked") = early /\ FinalFile("finalize_blocked") = Checked("d066_blocked")
  BY DEF EarlyFiles, FinalFile
<1>2. "d066_blocked" \in early /\ "d066_blocked" \o "_report" \in early
  BY Zenon
<1> HIDE DEF early
<1>3. \A evidence : Complete(CloseOver("d066_blocked", evidence), early, Checked("d066_blocked"))
  BY <1>2, ClosingSeals
<1> QED BY <1>1, <1>3, CompleteIsEnough DEF FinalizeBlocked

LEMMA FinalizeDenseSeals ==
    ASSUME NEW g
    PROVE  Seals("finalize_dense", FinalizeDense(g))
<1> DEFINE early == {"d066_complete", "d066_complete" \o "_report"}
<1>1. EarlyFiles("finalize_dense") = early /\ FinalFile("finalize_dense") = Checked("d066_complete")
  BY DEF EarlyFiles, FinalFile
<1>2. "d066_complete" \in early /\ "d066_complete" \o "_report" \in early
  BY Zenon
<1> HIDE DEF early
<1>3. \A evidence : Complete(CloseOver("d066_complete", evidence), early, Checked("d066_complete"))
  BY <1>2, ClosingSeals
<1> QED BY <1>1, <1>3, CompleteIsEnough DEF FinalizeDense

LEMMA FeaturesSeals ==
    ASSUME NEW g, NEW now
    PROVE  Seals("features", BuildFeatures(g, now))
<1> DEFINE features == Features(Inputs(g, "", FeatureFiles))
           split == GroupSplit(Groups(g))
           manifest == FeatureManifest(features, split, now)
           early == {"fusion_features", "fusion_split"}
<1>1. Named(features, early)
  BY DEF Named, Made, NoFile, Features
<1>2. Named(split, early)
  BY DEF Named, Made, NoFile, GroupSplit
<1>3. Named(manifest, {"feature_manifest"})
  BY DEF Named, Made, NoFile, FeatureManifest
<1>4. Complete(Publish(<<features, split, manifest>>), early, "feature_manifest")
  BY <1>1, <1>2, <1>3, PublishThree
<1>5. EarlyFiles("features") = early /\ FinalFile("features") = "feature_manifest"
  BY DEF EarlyFiles, FinalFile
<1> QED BY <1>4, <1>5, CompleteIsEnough DEF BuildFeatures

LEMMA FuseSeals ==
    ASSUME NEW g, NEW lucky, NEW now
    PROVE  Seals("fuse", Fuse(g, lucky, now))
<1> DEFINE model == Made("fusion_model", [features |-> g.fusion_features])
           rankings == Made("fusion_rankings", [model |-> model, features |-> g.fusion_features])
           rrf == Made("rrf_validation", [groups |-> Groups(g), rankings |-> g.rrf_rankings])
           learned == Made("learned_validation", [groups |-> Groups(g), rankings |-> rankings])
           comparison == Made("fusion_comparison", [rrf |-> rrf, learned |-> learned])
           manifest == Made("model_manifest", [model |-> model])
           telemetry == Made("fusion_telemetry", [now |-> Moment(now)])
           early == {"fusion_model", "fusion_rankings", "rrf_validation", "learned_validation",
                     "fusion_comparison", "model_manifest"}
<1>1. Named(model, early)
  BY DEF Named, Made, NoFile
<1>2. Named(rankings, early)
  BY DEF Named, Made, NoFile
<1>3. Named(rrf, early)
  BY DEF Named, Made, NoFile
<1>4. Named(learned, early)
  BY DEF Named, Made, NoFile
<1>5. Named(comparison, early)
  BY DEF Named, Made, NoFile
<1>6. Named(manifest, early)
  BY DEF Named, Made, NoFile
<1>7. Named(telemetry, {"fusion_telemetry"})
  BY DEF Named, Made, NoFile
<1>8. EarlyFiles("fuse") = early /\ FinalFile("fuse") = "fusion_telemetry"
  BY DEF EarlyFiles, FinalFile
<1>9. FuseOutputs(g) = <<model, rankings, rrf, learned, comparison, manifest>>
  BY DEF FuseOutputs
<1>10. List(FuseOutputs(g)) /\ \A k \in DOMAIN FuseOutputs(g) : Named(FuseOutputs(g)[k], early)
  <2> HIDE DEF model, rankings, rrf, learned, comparison, manifest, early
  <2> QED BY <1>1, <1>2, <1>3, <1>4, <1>5, <1>6, <1>9 DEF List
<1> HIDE DEF telemetry, early
<1>11. List(<<telemetry>>) /\ Complete(Publish(<<telemetry>>), early, "fusion_telemetry")
  BY <1>7, PublishOne DEF List
<1>12. Complete(Publish(FuseOutputs(g) \o <<telemetry>>), early, "fusion_telemetry")
  BY <1>10, <1>11, PublishConcatSeals
<1>13. "fuse" \in DOMAIN Goes /\ Goes["fuse"] = "record_fusion"
  BY DEF Goes
<1> QED BY <1>8, <1>12, <1>13, OnwardSeals DEF Fuse, telemetry

LEMMA RecordFusionSeals ==
    ASSUME NEW g
    PROVE  Seals("record_fusion", RecordFusion(g))
<1>1. Named(FusionRun(g), {"fusion_run"})
  BY DEF Named, Made, NoFile, FusionRun
<1>2. Complete(Publish(<<FusionRun(g)>>), {}, "fusion_run")
  BY <1>1, PublishOne
<1>3. EarlyFiles("record_fusion") = {} /\ FinalFile("record_fusion") = "fusion_run"
  BY DEF EarlyFiles, FinalFile
<1> QED BY <1>2, <1>3, CompleteIsEnough DEF RecordFusion

LEMMA FinalizeFusionSeals ==
    ASSUME NEW g
    PROVE  Seals("finalize_fusion", FinalizeFusion(g))
<1> DEFINE stage == Made("d067_stage", [run |-> g["named run"], loaded |-> Inputs(g, "",
        FusionLoaded)])
           report == Made("d067_report", [stage |-> stage])
           checksums == Made("d067_checksums", [stage |-> stage, report |-> report])
           early == {"d067_stage", "d067_report"}
<1>1. Named(stage, early)
  BY DEF Named, Made, NoFile
<1>2. Named(report, early)
  BY DEF Named, Made, NoFile
<1>3. Named(checksums, {"d067_checksums"})
  BY DEF Named, Made, NoFile
<1>4. Complete(Publish(<<stage, report, checksums>>), early, "d067_checksums")
  BY <1>1, <1>2, <1>3, PublishThree
<1>5. EarlyFiles("finalize_fusion") = early /\ FinalFile("finalize_fusion") = "d067_checksums"
  BY DEF EarlyFiles, FinalFile
<1> QED BY <1>4, <1>5, CompleteIsEnough DEF FinalizeFusion

LEMMA RerankerDatasetSeals ==
    ASSUME NEW g, NEW lucky
    PROVE  Seals("reranker_dataset", RerankerDataset(g, lucky))
<1> DEFINE groups == RerankerPart("training_groups", g)
           provenance == RerankerPart("training_provenance", g)
           manifest == TrainingManifest(groups, provenance)
           report == Made("dataset_report", [manifest |-> manifest])
           early == {"training_groups", "training_provenance", "training_manifest"}
<1>1. Named(groups, early)
  BY DEF Named, Made, NoFile, RerankerPart
<1>2. Named(provenance, early)
  BY DEF Named, Made, NoFile, RerankerPart
<1>3. Named(manifest, early)
  BY DEF Named, Made, NoFile, TrainingManifest
<1>4. Named(report, {"dataset_report"})
  BY DEF Named, Made, NoFile
<1>5. Complete(Publish(<<groups, provenance, manifest, report>>), early, "dataset_report")
  BY <1>1, <1>2, <1>3, <1>4, PublishFour
<1>6. EarlyFiles("reranker_dataset") = early /\ FinalFile("reranker_dataset") = "dataset_report"
  BY DEF EarlyFiles, FinalFile
<1> QED BY <1>5, <1>6, CompleteIsEnough DEF RerankerDataset

LEMMA VerifySeals ==
    ASSUME NEW g, NEW lucky
    PROVE  Seals("verify", VerifyAdapter(g, lucky))
<1>1. Named(ParameterAudit(g.adapter, g.training_response), {"parameter_audit"})
  BY DEF Named, Made, NoFile, ParameterAudit
<1>2. Complete(Publish(<<ParameterAudit(g.adapter, g.training_response)>>), {},
        "parameter_audit")
  BY <1>1, PublishOne
<1>3. EarlyFiles("verify") = {} /\ FinalFile("verify") = "parameter_audit"
  BY DEF EarlyFiles, FinalFile
<1> QED BY <1>2, <1>3, CompleteIsEnough DEF VerifyAdapter

LEMMA VerifyLocalSeals ==
    ASSUME NEW g
    PROVE  Seals("verify_local", VerifyLocal(g))
<1>1. Named(ParameterAudit(g.adapter, g.training_report), {"parameter_audit"})
  BY DEF Named, Made, NoFile, ParameterAudit
<1>2. Complete(Publish(<<ParameterAudit(g.adapter, g.training_report)>>), {}, "parameter_audit")
  BY <1>1, PublishOne
<1>3. EarlyFiles("verify_local") = {} /\ FinalFile("verify_local") = "parameter_audit"
  BY DEF EarlyFiles, FinalFile
<1> QED BY <1>2, <1>3, CompleteIsEnough DEF VerifyLocal

LEMMA RequestSeals ==
    ASSUME NEW g
    PROVE  Seals("request", BuildRequest(g))
<1> DEFINE request == TrainingRequest(g.training_manifest, g.model_approval)
           report == Made("request_report", [request |-> request])
           early == {"training_request"}
<1>1. Named(request, early)
  BY DEF Named, Made, NoFile, TrainingRequest
<1>2. Named(report, {"request_report"})
  BY DEF Named, Made, NoFile
<1>3. Complete(Publish(<<request, report>>), early, "request_report")
  BY <1>1, <1>2, PublishTwo
<1>4. EarlyFiles("request") = early /\ FinalFile("request") = "request_report"
  BY DEF EarlyFiles, FinalFile
<1> QED BY <1>3, <1>4, CompleteIsEnough DEF BuildRequest

LEMMA RecoverSeals ==
    ASSUME NEW g
    PROVE  Seals("recover_packing", RecoverPacking(g))
<1> DEFINE universe == Made("packing_universe", [train |-> g.train, split |-> g.split,
        index |-> g.index_manifest, selections |-> g.sft_selection])
           calibration == Made("packing_calibration", [universe |-> universe])
           packed == Packed(g, calibration)
           report == PackingReport(packed, calibration)
           early == {"packing_universe", "packing_calibration", "packed_retrieval"}
<1>1. Named(universe, early)
  BY DEF Named, Made, NoFile
<1>2. Named(calibration, early)
  BY DEF Named, Made, NoFile
<1>3. Named(packed, early)
  BY DEF Named, Made, NoFile, Packed
<1>4. Named(report, {"packing_report"})
  BY DEF Named, Made, NoFile, PackingReport
<1>5. Complete(Publish(<<universe, calibration, packed, report>>), early, "packing_report")
  BY <1>1, <1>2, <1>3, <1>4, PublishFour
<1>6. EarlyFiles("recover_packing") = early /\ FinalFile("recover_packing") = "packing_report"
  BY DEF EarlyFiles, FinalFile
<1> QED BY <1>5, <1>6, CompleteIsEnough DEF RecoverPacking

LEMMA ReplaySeals ==
    ASSUME NEW g
    PROVE  Seals("replay_packing", ReplayPacking(g))
<1>1. \A packed : Named(Made("packing_verification", [packed |-> packed, report |-> g.packing_report]),
                        {"packing_verification"})
  BY DEF Named, Made, NoFile
<1>2. \A packed : Complete(Publish(<<Made("packing_verification",
                               [packed |-> packed, report |-> g.packing_report])>>),
                           {}, "packing_verification")
  BY <1>1, PublishOne
<1>3. EarlyFiles("replay_packing") = {} /\ FinalFile("replay_packing") = "packing_verification"
  BY DEF EarlyFiles, FinalFile
<1> QED BY <1>2, <1>3, CompleteIsEnough DEF ReplayPacking

LEMMA LegalSparseSeals ==
    ASSUME NEW g, NEW now
    PROVE  Seals("legal_sparse", LegalSparse(g, now))
<1> DEFINE inputs == Inputs(g, "", <<"queue", "index_manifest", "alias_manifest">>)
           retrieval == Made("legal_retrieval", [inputs |-> inputs])
           queue == Made("legal_queue", [retrieval |-> retrieval, inputs |-> inputs])
           report == Made("legal_report", [retrieval |-> retrieval, queue |-> queue])
           telemetry == Made("legal_telemetry", [now |-> Moment(now)])
           early == {"legal_retrieval", "legal_queue", "legal_report"}
<1>1. Named(retrieval, early)
  BY DEF Named, Made, NoFile
<1>2. Named(queue, early)
  BY DEF Named, Made, NoFile
<1>3. Named(report, early)
  BY DEF Named, Made, NoFile
<1>4. Named(telemetry, {"legal_telemetry"})
  BY DEF Named, Made, NoFile
<1>5. Complete(Publish(<<retrieval, queue, report, telemetry>>), early, "legal_telemetry")
  BY <1>1, <1>2, <1>3, <1>4, PublishFour
<1>6. EarlyFiles("legal_sparse") = early /\ FinalFile("legal_sparse") = "legal_telemetry"
  BY DEF EarlyFiles, FinalFile
<1> QED BY <1>5, <1>6, CompleteIsEnough DEF LegalSparse

LEMMA RerankingSeals ==
    ASSUME NEW id, NEW inputs, NEW now, NEW early, id \o "_output" \in early, id \o "_report" \in early
    PROVE  /\ List(Reranking(id, inputs, now))
           /\ Complete(Publish(Reranking(id, inputs, now)), early, id \o "_manifest")
<1> DEFINE output == Made(id \o "_output", [inputs |-> inputs])
           report == Made(id \o "_report", [output |-> output, now |-> Moment(now)])
           manifest == Made(id \o "_manifest", [inputs |-> inputs, output |-> output,
                                                report |-> report])
<1>1. Named(output, early)
  BY MadeIsNamed
<1>2. Named(report, early)
  BY MadeIsNamed
<1>3. Named(manifest, {id \o "_manifest"})
  BY MadeIsNamed
<1>4. Complete(Publish(<<output, report, manifest>>), early, id \o "_manifest")
  <2> HIDE DEF output, report, manifest
  <2> QED BY <1>1, <1>2, <1>3, PublishThree
<1>5. Reranking(id, inputs, now) = <<output, report, manifest>>
  BY DEF Reranking
<1>6. List(<<output, report, manifest>>)
  <2> HIDE DEF output, report, manifest
  <2> QED BY DEF List
<1> QED BY <1>4, <1>5, <1>6

LEMMA LegalRerankerSeals ==
    ASSUME NEW g, NEW lucky, NEW now
    PROVE  Seals("legal_reranker", LegalReranker(g, lucky, now))
<1> DEFINE top == Made("top50_queue", [queue |-> g.queue])
           early == {"top50_queue", "legal_reranker" \o "_output", "legal_reranker" \o "_report"}
<1>1. EarlyFiles("legal_reranker") = early /\ FinalFile("legal_reranker") = "legal_reranker" \o "_manifest"
  BY DEF EarlyFiles, FinalFile
<1>2. /\ "legal_reranker" \o "_output" \in early /\ "legal_reranker" \o "_report" \in early
      /\ "top50_queue" \in early
  BY Zenon
<1> HIDE DEF early
<1>3. Named(top, early)
  BY <1>2 DEF Named, Made, NoFile
<1>4. List(<<top>>) /\ \A k \in DOMAIN <<top>> : Named(<<top>>[k], early)
  <2> HIDE DEF top
  <2> QED BY <1>3 DEF List
<1>5. \A inputs : Complete(Publish(<<top>> \o Reranking("legal_reranker", inputs, now)), early,
                           "legal_reranker" \o "_manifest")
  <2> HIDE DEF top
  <2> TAKE inputs
  <2>1. /\ List(Reranking("legal_reranker", inputs, now))
        /\ Complete(Publish(Reranking("legal_reranker", inputs, now)), early,
                    "legal_reranker" \o "_manifest")
    BY <1>2, RerankingSeals
  <2> QED BY <1>4, <2>1, PublishConcatSeals
<1> QED BY <1>1, <1>5, CompleteIsEnough DEF LegalReranker

LEMMA RebaselineSeals ==
    ASSUME NEW g, NEW lucky, NEW now
    PROVE  Seals("rebaseline", Rebaseline(g, lucky, now))
<1> DEFINE early == {"rebaseline" \o "_output", "rebaseline" \o "_report"}
<1>1. EarlyFiles("rebaseline") = early /\ FinalFile("rebaseline") = "rebaseline" \o "_manifest"
  BY DEF EarlyFiles, FinalFile
<1>2. "rebaseline" \o "_output" \in early /\ "rebaseline" \o "_report" \in early
  BY Zenon
<1> HIDE DEF early
<1>3. \A inputs : Complete(Publish(Reranking("rebaseline", inputs, now)), early,
                           "rebaseline" \o "_manifest")
  BY <1>2, RerankingSeals
<1> QED BY <1>1, <1>3, CompleteIsEnough DEF Rebaseline

LEMMA CompareRetrievalSeals ==
    ASSUME NEW g, NEW lucky
    PROVE  Seals("compare_retrieval", CompareRetrieval(g, lucky))
<1> DEFINE comparison == Made("retrieval_comparison", [inputs |-> Inputs(g, "", <<"benchmark",
        "legal_reranker_output", "rebaseline_output", "legal_reranker_report",
        "rebaseline_report">>)])
<1>1. Named(comparison, {"retrieval_comparison"})
  BY DEF Named, Made, NoFile
<1>2. Complete(Publish(<<comparison>>), {}, "retrieval_comparison")
  BY <1>1, PublishOne
<1>3. EarlyFiles("compare_retrieval") = {}
        /\ FinalFile("compare_retrieval") = "retrieval_comparison"
  BY DEF EarlyFiles, FinalFile
<1> QED BY <1>2, <1>3, CompleteIsEnough DEF CompareRetrieval

\* Generated answers, scored.
LEMMA ScoredIsNamed ==
    ASSUME NEW id, NEW predictions, NEW references, NEW early,
           id \o "_per_query" \in early, id \o "_scores" \in early
    PROVE  /\ List(Scored(id, predictions, references))
           /\ \A k \in DOMAIN Scored(id, predictions, references) :
                 Named(Scored(id, predictions, references)[k], early)
<1> DEFINE both == [predictions |-> predictions, references |-> references]
           perQuery == Made(id \o "_per_query", both)
           scores == Made(id \o "_scores", both)
<1>1. Named(perQuery, early)
  BY MadeIsNamed
<1>2. Named(scores, early)
  BY MadeIsNamed
<1>3. Scored(id, predictions, references) = <<perQuery, scores>>
  BY DEF Scored
<1> HIDE DEF perQuery, scores
<1> QED BY <1>1, <1>2, <1>3 DEF List

LEMMA NamedConcat ==
    ASSUME NEW c, List(c), NEW d, List(d), NEW files,
           \A k \in DOMAIN c : Named(c[k], files), \A k \in DOMAIN d : Named(d[k], files)
    PROVE  List(c \o d) /\ \A k \in DOMAIN (c \o d) : Named((c \o d)[k], files)
<1>1. /\ Len(c) \in Nat /\ DOMAIN c = 1..Len(c) /\ Len(d) \in Nat /\ DOMAIN d = 1..Len(d)
      /\ List(c \o d) /\ DOMAIN (c \o d) = 1..Len(c) + Len(d)
      /\ \A k \in 1..Len(c) : (c \o d)[k] = c[k]
      /\ \A k \in 1..Len(d) : (c \o d)[Len(c) + k] = d[k]
  BY ListProperties, ListConcat
<1>2. ASSUME NEW k \in DOMAIN (c \o d)
      PROVE  Named((c \o d)[k], files)
  <2>1. CASE k \in 1..Len(c)
    BY <2>1, <1>1
  <2>2. CASE k \notin 1..Len(c)
    <3> DEFINE i == k - Len(c)
    <3>1. i \in 1..Len(d) /\ k = Len(c) + i
      BY <2>2, <1>1
    <3> HIDE DEF i
    <3> QED BY <3>1, <1>1
  <2> QED BY <2>1, <2>2
<1> QED BY <1>1, <1>2

LEMMA GeneratedIsNamed ==
    ASSUME NEW id, NEW inputs, NEW queue, NEW now, NEW early,
           id \o "_predictions" \in early, id \o "_references" \in early,
           id \o "_manifest" \in early, id \o "_per_query" \in early, id \o "_scores" \in early
    PROVE  /\ Complete(Publish(Generated(id, inputs, queue, now)), early, id \o "_telemetry")
           /\ List(Generated(id, inputs, queue, now)) /\ Len(Generated(id, inputs, queue, now)) >= 1
           /\ id \o "_telemetry" \in early =>
                 \A k \in DOMAIN Generated(id, inputs, queue, now) :
                    Named(Generated(id, inputs, queue, now)[k], early)
<1> DEFINE predictions == Answers(id, inputs)
           references == GoldAnswers(id, queue)
           manifest == RunManifest(id, predictions, references, inputs, now)
           first == <<predictions, references, manifest>>
           scores == Scored(id, predictions, references)
           telemetry == Telemetry(id, now)
<1>1. Named(predictions, early)
  BY MadeIsNamed DEF Answers
<1>2. Named(references, early)
  BY MadeIsNamed DEF GoldAnswers
<1>3. Named(manifest, early)
  <2> HIDE DEF predictions, references
  <2> QED BY MadeIsNamed DEF RunManifest
<1>4. \A files : id \o "_telemetry" \in files => Named(telemetry, files)
  BY MadeIsNamed DEF Telemetry
<1>5. Generated(id, inputs, queue, now) = (first \o scores) \o <<telemetry>>
  BY DEF Generated
<1> HIDE DEF predictions, references, manifest, telemetry
<1>6. List(first) /\ Len(first) = 3 /\ \A k \in DOMAIN first : Named(first[k], early)
  BY <1>1, <1>2, <1>3 DEF List
<1>7. List(scores) /\ \A k \in DOMAIN scores : Named(scores[k], early)
  BY ScoredIsNamed
<1> HIDE DEF first, scores
<1>8. List(first \o scores) /\ \A k \in DOMAIN (first \o scores) : Named((first \o scores)[k], early)
  BY <1>6, <1>7, NamedConcat
<1>9. Len(first \o scores) \in Nat /\ Len(first \o scores) >= 3
  <2>1. Len(first \o scores) = Len(first) + Len(scores)
    BY <1>6, <1>7, ListConcat
  <2>2. Len(scores) \in Nat
    BY <1>7, ListProperties
  <2> QED BY <1>6, <2>1, <2>2
<1>10. List(<<telemetry>>) /\ Len(<<telemetry>>) = 1
  BY DEF List
<1>11. Complete(Publish(<<telemetry>>), early, id \o "_telemetry")
  BY <1>4, PublishOne
<1> DEFINE body == first \o scores
<1> HIDE DEF body
<1>12. Complete(Publish(body \o <<telemetry>>), early, id \o "_telemetry")
  BY <1>8, <1>10, <1>11, PublishConcatSeals DEF body
<1>13. List(body \o <<telemetry>>) /\ Len(body \o <<telemetry>>) >= 1
  BY <1>8, <1>9, <1>10, ListConcat DEF body
<1>14. ASSUME id \o "_telemetry" \in early
       PROVE  \A k \in DOMAIN (body \o <<telemetry>>) : Named((body \o <<telemetry>>)[k], early)
  <2>1. \A k \in DOMAIN <<telemetry>> : Named(<<telemetry>>[k], early)
    BY <1>4, <1>14
  <2> QED BY <1>8, <1>10, <2>1, NamedConcat DEF body
<1> QED BY <1>5, <1>12, <1>13, <1>14 DEF body

LEMMA FixedSeals ==
    ASSUME NEW g, NEW lucky, NEW now
    PROVE  Seals("fixed", FixedGeneration(g, lucky, now))
<1> DEFINE early == EarlyFiles("fixed")
<1>1. early = GeneratedFiles("fixed") /\ FinalFile("fixed") = "fixed" \o "_telemetry"
  BY DEF EarlyFiles, FinalFile
<1>2. /\ "fixed" \o "_predictions" \in early /\ "fixed" \o "_references" \in early
      /\ "fixed" \o "_manifest" \in early /\ "fixed" \o "_per_query" \in early
      /\ "fixed" \o "_scores" \in early
  BY <1>1, Zenon DEF GeneratedFiles
<1> HIDE DEF early
<1>3. \A inputs : Complete(Publish(Generated("fixed", inputs, g.queue, now)), early,
                           "fixed" \o "_telemetry")
  BY <1>2, GeneratedIsNamed
<1> QED BY <1>1, <1>3, CompleteIsEnough DEF FixedGeneration, early

LEMMA PromptSeals ==
    ASSUME NEW g, NEW lucky, NEW now
    PROVE  Seals("prompt_b", PromptB(g, lucky, now))
<1> DEFINE early == EarlyFiles("prompt_b")
           outputs(inputs) == Generated("prompt_b", inputs, g.queue, now)
           comparison(inputs, baseline) ==
               Made("prompt_comparison", ByName(outputs(inputs)) @@ [baseline |-> baseline])
<1>1. /\ early = GeneratedFiles("prompt_b") \union {"prompt_b" \o "_telemetry"}
      /\ FinalFile("prompt_b") = "prompt_comparison"
  BY DEF EarlyFiles, FinalFile
<1>2. /\ "prompt_b" \o "_predictions" \in early /\ "prompt_b" \o "_references" \in early
      /\ "prompt_b" \o "_manifest" \in early /\ "prompt_b" \o "_per_query" \in early
      /\ "prompt_b" \o "_scores" \in early /\ "prompt_b" \o "_telemetry" \in early
  BY <1>1, Zenon DEF GeneratedFiles
<1> HIDE DEF early
<1>3. ASSUME NEW inputs, NEW baseline
      PROVE  Complete(Publish(outputs(inputs) \o <<comparison(inputs, baseline)>>), early,
                      "prompt_comparison")
  <2>1. /\ List(outputs(inputs))
        /\ \A k \in DOMAIN outputs(inputs) : Named(outputs(inputs)[k], early)
    BY <1>2, GeneratedIsNamed
  <2>2. Named(comparison(inputs, baseline), {"prompt_comparison"})
    BY DEF Named, Made, NoFile
  <2> HIDE DEF outputs, comparison
  <2>3. /\ List(<<comparison(inputs, baseline)>>)
        /\ Complete(Publish(<<comparison(inputs, baseline)>>), early, "prompt_comparison")
    BY <2>2, PublishOne DEF List
  <2> QED BY <2>1, <2>3, PublishConcatSeals
<1> QED BY <1>1, <1>3, CompleteIsEnough DEF PromptB, early

LEMMA EndToEndSeals ==
    ASSUME NEW g, NEW lucky, NEW now
    PROVE  Seals("end_to_end", EndToEnd(g, lucky, now))
<1> DEFINE names == <<"queue", "other_queue", "fixed_predictions", "other_predictions",
        "retrieval_output", "other_ranking">>
           replayed == Inputs(g, "", names)
           queue == Made("normalized_queue", [queue |-> g.queue, other |-> g.other_queue])
           first == Made("baseline_replay", [inputs |-> replayed, now |-> Moment(now)])
           second == Made("candidate_replay", [inputs |-> replayed, now |-> Moment(now)])
           report == Made("end_to_end", [queue |-> queue, baseline |-> first,
           candidate |-> second, scores |-> Inputs(g, "", <<"fixed_per_query",
           "other_per_query">>)])
           early == {"normalized_queue", "baseline_replay", "candidate_replay"}
<1>1. Named(queue, early)
  BY DEF Named, Made, NoFile
<1>2. Named(first, early)
  BY DEF Named, Made, NoFile
<1>3. Named(second, early)
  BY DEF Named, Made, NoFile
<1>4. Named(report, {"end_to_end"})
  BY DEF Named, Made, NoFile
<1>5. Complete(Publish(<<queue, first, second, report>>), early, "end_to_end")
  BY <1>1, <1>2, <1>3, <1>4, PublishFour
<1>6. EarlyFiles("end_to_end") = early /\ FinalFile("end_to_end") = "end_to_end"
  BY DEF EarlyFiles, FinalFile
<1> QED BY <1>5, <1>6, CompleteIsEnough DEF EndToEnd

LEMMA KeepsConcat ==
    ASSUME NEW a, NEW b, NEW files, KeepsOnly(a, files), KeepsOnly(b, files)
    PROVE  KeepsOnly(a \o b, files)
<1>1. /\ List(a) /\ Len(a) \in Nat /\ DOMAIN a = 1..Len(a)
      /\ List(b) /\ Len(b) \in Nat /\ DOMAIN b = 1..Len(b)
  BY ListProperties DEF KeepsOnly
<1>2. /\ List(a \o b) /\ DOMAIN (a \o b) = 1..Len(a) + Len(b)
      /\ \A k \in 1..Len(a) : (a \o b)[k] = a[k]
      /\ \A k \in 1..Len(b) : (a \o b)[Len(a) + k] = b[k]
  BY <1>1, ListConcat
<1>3. ASSUME NEW k \in DOMAIN (a \o b)
      PROVE  Quiet((a \o b)[k]) \/ Keeps((a \o b)[k], files)
  <2>1. CASE k \in 1..Len(a)
    BY <2>1, <1>1, <1>2 DEF KeepsOnly
  <2>2. CASE k \notin 1..Len(a)
    <3> DEFINE i == k - Len(a)
    <3>1. i \in 1..Len(b) /\ k = Len(a) + i
      BY <2>2, <1>1, <1>2
    <3> HIDE DEF i
    <3> QED BY <3>1, <1>1, <1>2 DEF KeepsOnly
  <2> QED BY <2>1, <2>2
<1> QED BY <1>2, <1>3 DEF KeepsOnly

\* Outputs, a look at what is there of the scores, and the scores with what follows.
LEMMA LookedAtSeals ==
    ASSUME NEW c, List(c), NEW early, \A k \in DOMAIN c : Named(c[k], early),
           NEW id, NEW predictions, NEW references,
           id \o "_per_query" \in early, id \o "_scores" \in early,
           NEW f1, NEW d1, NEW f2, NEW d2,
           NEW last, NEW final, Named(last, {final})
    PROVE  Complete((Publish(c) \o <<Expect(f1, d1), Expect(f2, d2)>>)
                    \o Publish(Scored(id, predictions, references) \o <<last>>), early, final)
<1> DEFINE looks == <<Expect(f1, d1), Expect(f2, d2)>>
           scores == Scored(id, predictions, references)
<1>1. KeepsOnly(Publish(c), early)
  BY TitledIsKept
<1>2. KeepsOnly(looks, early)
  BY DEF KeepsOnly, List, Quiet, Expect
<1> HIDE DEF looks, scores
<1>3. KeepsOnly(Publish(c) \o looks, early)
  BY <1>1, <1>2, KeepsConcat
<1>4. List(scores) /\ \A k \in DOMAIN scores : Named(scores[k], early)
  BY ScoredIsNamed DEF scores
<1>5. List(<<last>>) /\ Complete(Publish(<<last>>), early, final)
  BY PublishOne DEF List
<1>6. Complete(Publish(scores \o <<last>>), early, final)
  BY <1>4, <1>5, PublishConcatSeals
<1>7. Complete((Publish(c) \o looks) \o Publish(scores \o <<last>>), early, final)
  BY <1>3, <1>6, EarlyConcat
<1> QED BY <1>7 DEF looks, scores

LEMMA VariantSeals ==
    ASSUME NEW id, NEW g, NEW ranking, NEW now, NEW early,
           id \o "_predictions" \in early, id \o "_references" \in early,
           id \o "_manifest" \in early, id \o "_per_query" \in early, id \o "_scores" \in early
    PROVE  Complete(Variant(id, g, ranking, now), early, id \o "_telemetry")
<1> DEFINE inputs == [what |-> "inputs", from |-> <<>>, basis |-> g.queue.basis \union ranking.basis]
           predictions == Answers(id, inputs)
           references == GoldAnswers(id, g.queue)
           manifest == RunManifest(id, predictions, references, inputs, now)
           scores == Scored(id, predictions, references)
           first == <<predictions, references, manifest>>
           telemetry == Telemetry(id, now)
<1> HIDE DEF inputs
<1>1. Named(predictions, early)
  BY MadeIsNamed DEF Answers
<1>2. Named(references, early)
  BY MadeIsNamed DEF GoldAnswers
<1>3. Named(manifest, early)
  <2> HIDE DEF predictions, references
  <2> QED BY MadeIsNamed DEF RunManifest
<1>4. Named(telemetry, {id \o "_telemetry"})
  BY MadeIsNamed DEF Telemetry
<1> HIDE DEF predictions, references, manifest, telemetry
<1>5. List(first) /\ \A k \in DOMAIN first : Named(first[k], early)
  BY <1>1, <1>2, <1>3 DEF List
<1> HIDE DEF first
<1>6. \A f1, d1, f2, d2 :
         Complete((Publish(first) \o <<Expect(f1, d1), Expect(f2, d2)>>)
                  \o Publish(scores \o <<telemetry>>), early, id \o "_telemetry")
  BY <1>4, <1>5, LookedAtSeals
<1>7. Variant(id, g, ranking, now)
      = (Publish(first) \o <<Expect(scores[1].what, scores[1]), Expect(scores[2].what, scores[2])>>)
        \o Publish(scores \o <<telemetry>>)
  BY DEF Variant, first, predictions, references, manifest, telemetry, inputs
<1> HIDE DEF scores
<1> QED BY <1>6, <1>7

LEMMA OracleO2Seals ==
    ASSUME NEW g, NEW lucky, NEW now
    PROVE  Seals("oracle_o2", GenerateO2(g, lucky, now))
<1> DEFINE early == EarlyFiles("oracle_o2")
<1>1. early = GeneratedFiles("o2") /\ FinalFile("oracle_o2") = "o2" \o "_telemetry"
  BY DEF EarlyFiles, FinalFile
<1>2. /\ "o2" \o "_predictions" \in early /\ "o2" \o "_references" \in early
      /\ "o2" \o "_manifest" \in early /\ "o2" \o "_per_query" \in early
      /\ "o2" \o "_scores" \in early
  BY <1>1, Zenon DEF GeneratedFiles
<1> HIDE DEF early
<1>3. Complete(Variant("o2", g, g.o2, now), early, "o2" \o "_telemetry")
  BY <1>2, VariantSeals
<1>4. "oracle_o2" \in DOMAIN Goes /\ Goes["oracle_o2"] = "oracle_o3"
  BY DEF Goes
<1> QED BY <1>1, <1>3, <1>4, OnwardSeals DEF GenerateO2, early

LEMMA OracleO3Seals ==
    ASSUME NEW g, NEW lucky, NEW now
    PROVE  Seals("oracle_o3", GenerateO3(g, lucky, now))
<1> DEFINE generated == GeneratedFiles("o3")
           early == EarlyFiles("oracle_o3")
           summary == Made("oracle_summary", [queue |-> g.queue, o2 |-> g.o2,
                                              o3 |-> g.o3, now |-> Moment(now)])
<1>1. early = generated \union {"o3" \o "_telemetry"} /\ FinalFile("oracle_o3") = "oracle_summary"
  BY DEF EarlyFiles, FinalFile
<1>2. /\ "o3" \o "_predictions" \in generated /\ "o3" \o "_references" \in generated
      /\ "o3" \o "_manifest" \in generated /\ "o3" \o "_per_query" \in generated
      /\ "o3" \o "_scores" \in generated
  BY Zenon DEF GeneratedFiles
<1>3. Named(summary, {"oracle_summary"})
  BY DEF Named, Made, NoFile
<1> HIDE DEF early, generated, summary
<1>4. Complete(Variant("o3", g, g.o3, now), generated, "o3" \o "_telemetry")
  BY <1>2, VariantSeals
<1>5. KeepsOnly(Variant("o3", g, g.o3, now), early)
  BY <1>1, <1>4 DEF Complete
<1>6. Complete(Publish(<<summary>>), early, "oracle_summary")
  BY <1>3, PublishOne
<1>7. Complete(Variant("o3", g, g.o3, now) \o Publish(<<summary>>), early, "oracle_summary")
  BY <1>5, <1>6, EarlyConcat
<1> QED BY <1>1, <1>7, CompleteIsEnough DEF GenerateO3, early, summary

LEMMA DeltaSeals ==
    ASSUME NEW id, NEW g, NEW named, NEW now, NEW early,
           id \o "_delta_predictions" \in early, id \o "_delta_manifest" \in early,
           id \o "_predictions" \in early, id \o "_references" \in early,
           id \o "_per_query" \in early, id \o "_scores" \in early
    PROVE  Complete(Delta(id, g, named, now), early, id \o "_manifest")
<1> DEFINE inputs == Inputs(g, "", <<"queue", "before", "after">>)
           delta == Made(id \o "_delta_predictions", [inputs |-> inputs])
           noted == Made(id \o "_delta_manifest", [delta |-> delta, now |-> Moment(now)])
           predictions == Made(id \o "_predictions", [delta |-> delta, reused |-> g.answers])
           references == GoldAnswers(id, g.queue)
           scores == Scored(id, predictions, references)
           first == <<delta, noted, predictions, references>>
           manifest == Made(id \o "_manifest",
                            [inputs |-> inputs, baseline |-> named, delta |-> delta,
                             predictions |-> predictions, references |-> references,
                             now |-> Moment(now)])
<1> HIDE DEF inputs
<1>1. Named(delta, early)
  BY MadeIsNamed
<1>2. Named(noted, early)
  <2> HIDE DEF delta
  <2> QED BY MadeIsNamed
<1>3. Named(predictions, early)
  <2> HIDE DEF delta
  <2> QED BY MadeIsNamed
<1>4. Named(references, early)
  BY MadeIsNamed DEF GoldAnswers
<1>5. Named(manifest, {id \o "_manifest"})
  <2> HIDE DEF delta, predictions, references
  <2> QED BY MadeIsNamed
<1> HIDE DEF delta, noted, predictions, references, manifest
<1>6. List(first) /\ \A k \in DOMAIN first : Named(first[k], early)
  BY <1>1, <1>2, <1>3, <1>4 DEF List
<1> HIDE DEF first
<1>7. \A f1, d1, f2, d2 :
         Complete((Publish(first) \o <<Expect(f1, d1), Expect(f2, d2)>>)
                  \o Publish(scores \o <<manifest>>), early, id \o "_manifest")
  BY <1>5, <1>6, LookedAtSeals
<1>8. Delta(id, g, named, now)
      = (Publish(first) \o <<Expect(scores[1].what, scores[1]), Expect(scores[2].what, scores[2])>>)
        \o Publish(scores \o <<manifest>>)
  BY DEF Delta, first, inputs, delta, noted, predictions, references, manifest
<1> HIDE DEF scores
<1> QED BY <1>7, <1>8

LEMMA OracleDeltaSeals ==
    ASSUME NEW g, NEW lucky, NEW now
    PROVE  Seals("oracle_delta", OracleDelta(g, lucky, now))
<1> DEFINE early == EarlyFiles("oracle_delta")
<1>1. early = DeltaFiles("o3_delta") /\ FinalFile("oracle_delta") = "o3_delta" \o "_manifest"
  BY DEF EarlyFiles, FinalFile
<1>2. /\ "o3_delta" \o "_delta_predictions" \in early /\ "o3_delta" \o "_delta_manifest" \in early
      /\ "o3_delta" \o "_predictions" \in early /\ "o3_delta" \o "_references" \in early
      /\ "o3_delta" \o "_per_query" \in early /\ "o3_delta" \o "_scores" \in early
  BY <1>1, Zenon DEF DeltaFiles
<1> HIDE DEF early
<1>3. Complete(Delta("o3_delta", g, g.named, now), early, "o3_delta" \o "_manifest")
  BY <1>2, DeltaSeals
<1> QED BY <1>1, <1>3, CompleteIsEnough DEF OracleDelta, early

LEMMA SelectionDeltaSeals ==
    ASSUME NEW g, NEW lucky, NEW now
    PROVE  Seals("selection_delta", SelectionDelta(g, lucky, now))
<1> DEFINE early == EarlyFiles("selection_delta")
<1>1. early = DeltaFiles("selection_delta") /\ FinalFile("selection_delta") = "selection_delta" \o "_manifest"
  BY DEF EarlyFiles, FinalFile
<1>2. /\ "selection_delta" \o "_delta_predictions" \in early /\ "selection_delta" \o "_delta_manifest" \in early
      /\ "selection_delta" \o "_predictions" \in early /\ "selection_delta" \o "_references" \in early
      /\ "selection_delta" \o "_per_query" \in early /\ "selection_delta" \o "_scores" \in early
  BY <1>1, Zenon DEF DeltaFiles
<1> HIDE DEF early
<1>3. Complete(Delta("selection_delta", g, g.answers, now), early, "selection_delta" \o "_manifest")
  BY <1>2, DeltaSeals
<1> QED BY <1>1, <1>3, CompleteIsEnough DEF SelectionDelta, early

LEMMA CompactionSeals ==
    ASSUME NEW g, NEW lucky, NEW now
    PROVE  Seals("compaction", Compaction(g, lucky, now))
<1> DEFINE early == EarlyFiles("compaction")
           policy == Made("compaction_policy", [train |-> g.train_source])
           predictions == Made("compact_predictions", [policy |-> policy, answers |-> g.answers])
           references == Made("compact_references", [references |-> g.references])
           manifest == Made("compact_manifest",
                            [policy |-> policy, predictions |-> predictions,
                             references |-> references, baseline |-> g.manifest])
           scores == Scored("compact", predictions, references)
           comparison == Made("compaction_comparison",
                              [scores |-> scores[1], manifest |-> manifest,
                               baseline |-> Inputs(g, "", <<"manifest", "telemetry", "per_query">>),
                               now |-> Moment(now)])
           proof == Made("compaction_proof", [answers |-> g.answers, predictions |-> predictions])
           telemetry == Telemetry("compact", now)
           state == Made("compaction_state", [comparison |-> comparison])
           first == <<policy, predictions, references, manifest>>
           last == <<comparison, proof, telemetry, state>>
<1>1. /\ early = {"compaction_policy", "compact_predictions", "compact_references",
                  "compact_manifest", "compact" \o "_per_query", "compact" \o "_scores",
                  "compaction_comparison", "compaction_proof", "compact" \o "_telemetry"}
      /\ FinalFile("compaction") = "compaction_state"
  BY DEF EarlyFiles, FinalFile
<1>2. /\ "compaction_policy" \in early /\ "compact_predictions" \in early
      /\ "compact_references" \in early /\ "compact_manifest" \in early
      /\ "compact" \o "_per_query" \in early /\ "compact" \o "_scores" \in early
      /\ "compaction_comparison" \in early /\ "compaction_proof" \in early
      /\ "compact" \o "_telemetry" \in early
  BY <1>1, Zenon
<1> HIDE DEF early
<1>3. \A from : /\ Named(Made("compaction_policy", from), early)
                /\ Named(Made("compact_predictions", from), early)
                /\ Named(Made("compact_references", from), early)
                /\ Named(Made("compact_manifest", from), early)
  BY <1>2 DEF Named, Made, NoFile
<1>4. \A from : /\ Named(Made("compaction_comparison", from), early)
                /\ Named(Made("compaction_proof", from), early)
                /\ Named(Made("compaction_state", from), {"compaction_state"})
  BY <1>2 DEF Named, Made, NoFile
<1>5. Named(telemetry, early)
  BY <1>2, MadeIsNamed DEF Telemetry
<1>6. Named(policy, early) /\ Named(predictions, early) /\ Named(references, early)
      /\ Named(manifest, early)
  BY <1>3, Zenon
<1>7. Named(comparison, early) /\ Named(proof, early) /\ Named(state, {"compaction_state"})
  BY <1>4, Zenon
<1>8. Compaction(g, lucky, now)
      = Provided(g.manifest.from.predictions = g.answers \/ lucky,
                 Publish((first \o scores) \o last))
  BY DEF Compaction
<1> HIDE DEF policy, predictions, references, manifest, comparison, proof, telemetry, state
<1>9. List(first) /\ \A k \in DOMAIN first : Named(first[k], early)
  BY <1>6 DEF List
<1>10. List(scores) /\ \A k \in DOMAIN scores : Named(scores[k], early)
  BY <1>2, ScoredIsNamed
<1>11. List(last) /\ Complete(Publish(last), early, "compaction_state")
  BY <1>5, <1>7, PublishFour DEF List
<1> HIDE DEF first, scores, last
<1>12. List(first \o scores) /\ \A k \in DOMAIN (first \o scores) : Named((first \o scores)[k], early)
  BY <1>9, <1>10, NamedConcat
<1>13. Complete(Publish((first \o scores) \o last), early, "compaction_state")
  BY <1>11, <1>12, PublishConcatSeals
<1> QED BY <1>1, <1>8, <1>13, CompleteIsEnough DEF early

LEMMA PublicEvidenceSeals ==
    ASSUME NEW g, NEW now
    PROVE  Seals("public_evidence", PublicEvidence(g, now))
<1> DEFINE inputs == Inputs(g, "", <<"public_source", "index_manifest", "alias_manifest",
                                     "parameter_manifest", "selection_report">>)
           resumed == g.evidence_checkpoints # NoFile
           rows == IF resumed THEN g.evidence_checkpoints ELSE Checkpoints(inputs, now)
           queue == Made("public_evidence", [rows |-> rows])
           report == Made("public_evidence_report",
                          [queue |-> queue, resumed |-> Value("resumed", resumed)])
           replay == Made("public_evidence_replay", [queue |-> queue])
           manifest == Made("public_evidence_manifest",
                            [queue |-> queue, report |-> report, inputs |-> inputs,
                             now |-> Moment(now)])
           first == <<Immutable("evidence_checkpoints", rows)>>
           early == {"evidence_checkpoints", "public_evidence", "public_evidence_report",
                     "public_evidence_replay"}
<1>1. EarlyFiles("public_evidence") = early /\ FinalFile("public_evidence") = "public_evidence_manifest"
  BY DEF EarlyFiles, FinalFile
<1>2. rows # NoFile
  <2>1. Checkpoints(inputs, now) # NoFile
    BY DEF Checkpoints, Made, NoFile
  <2> HIDE DEF inputs
  <2> QED BY <2>1
<1> HIDE DEF rows, inputs
<1>3. Named(queue, early)
  BY DEF Named, Made, NoFile
<1>4. Named(report, early)
  BY DEF Named, Made, NoFile
<1>5. Named(replay, early)
  BY DEF Named, Made, NoFile
<1>6. Named(manifest, {"public_evidence_manifest"})
  BY DEF Named, Made, NoFile
<1>7. KeepsOnly(first, early)
  BY <1>2 DEF KeepsOnly, List, Keeps, Immutable
<1>8. Complete(Publish(<<queue, report, replay, manifest>>), early, "public_evidence_manifest")
  <2> HIDE DEF queue, report, replay, manifest, early
  <2> QED BY <1>3, <1>4, <1>5, <1>6, PublishFour
<1>9. Complete(first \o Publish(<<queue, report, replay, manifest>>), early,
               "public_evidence_manifest")
  <2> HIDE DEF first, queue, report, replay, manifest, early
  <2> QED BY <1>7, <1>8, EarlyConcat
<1>10. \A accepted : Seals("public_evidence", Provided(accepted, first \o Publish(<<queue, report, replay, manifest>>)))
  <2> HIDE DEF first, queue, report, replay, manifest, early
  <2> QED BY <1>1, <1>9, CompleteIsEnough
<1> QED BY <1>10 DEF PublicEvidence, rows, inputs

LEMMA PrepareSeals ==
    ASSUME NEW g, NEW lucky
    PROVE  Seals("prepare", PrepareGrounding(g, lucky))
<1> DEFINE queue == WorkQueue(g)
           prefilled == Prefilled(queue, g)
           report == Made("prefill_report", [queue |-> queue, prefilled |-> prefilled,
           source |-> g.source_queue, labels |-> g.source_labeled])
           early == {"work_queue", "prefilled_queue"}
<1>1. Named(queue, early)
  BY DEF Named, Made, NoFile, WorkQueue
<1>2. Named(prefilled, early)
  BY DEF Named, Made, NoFile, Prefilled
<1>3. Named(report, {"prefill_report"})
  BY DEF Named, Made, NoFile
<1>4. Complete(Publish(<<queue, prefilled, report>>), early, "prefill_report")
  BY <1>1, <1>2, <1>3, PublishThree
<1>5. EarlyFiles("prepare") = early /\ FinalFile("prepare") = "prefill_report"
  BY DEF EarlyFiles, FinalFile
<1> QED BY <1>4, <1>5, CompleteIsEnough DEF PrepareGrounding

LEMMA FinalizeGroundingSeals ==
    ASSUME NEW g, NEW lucky
    PROVE  Seals("finalize_grounding", FinalizeGrounding(g, lucky))
<1> DEFINE assessment == Assessment(g.work_queue, g.assessed_queue)
           manifest == AssessmentManifest(g, assessment)
           report == Made("assessment_report", [assessment |-> assessment,
           manifest |-> manifest])
           comparison == Made("grounding_comparison", [assessment |-> assessment,
           baseline |-> g.baseline_assessment])
           early == {"assessment", "assessment_manifest", "assessment_report"}
<1>1. Named(assessment, early)
  BY DEF Named, Made, NoFile, Assessment
<1>2. Named(manifest, early)
  BY DEF Named, Made, NoFile, AssessmentManifest
<1>3. Named(report, early)
  BY DEF Named, Made, NoFile
<1>4. Named(comparison, {"grounding_comparison"})
  BY DEF Named, Made, NoFile
<1>5. Complete(Publish(<<assessment, manifest, report, comparison>>), early,
        "grounding_comparison")
  BY <1>1, <1>2, <1>3, <1>4, PublishFour
<1>6. EarlyFiles("finalize_grounding") = early
        /\ FinalFile("finalize_grounding") = "grounding_comparison"
  BY DEF EarlyFiles, FinalFile
<1> QED BY <1>5, <1>6, CompleteIsEnough DEF FinalizeGrounding

LEMMA AuditSeals ==
    ASSUME NEW g
    PROVE  Seals("audit_qwen", AuditCandidate(g))
<1> DEFINE audit == Made("candidate_audit", [model |-> g.candidate_model])
           early == {"candidate_audit"}
<1>1. Named(audit, early)
  BY DEF Named, Made, NoFile
<1>2. Named(CandidateParameters(g.candidate_model), {"candidate_parameters"})
  BY DEF Named, Made, NoFile, CandidateParameters
<1>3. Complete(Publish(<<audit, CandidateParameters(g.candidate_model)>>), early,
        "candidate_parameters")
  BY <1>1, <1>2, PublishTwo
<1>4. EarlyFiles("audit_qwen") = early /\ FinalFile("audit_qwen") = "candidate_parameters"
  BY DEF EarlyFiles, FinalFile
<1> QED BY <1>3, <1>4, CompleteIsEnough DEF AuditCandidate

LEMMA JudgeSeals ==
    ASSUME NEW g, NEW now
    PROVE  Seals("judge_qwen", JudgeQwen(g, now))
<1> DEFINE early == EarlyFiles("judge_qwen")
           predictions == Answers("qwen", g.answers)
           references == GoldAnswers("qwen", g.queue)
           manifest == Made("qwen_manifest",
                            [predictions |-> predictions, references |-> references,
                             answers |-> g.answers, parameters |-> g.candidate_parameters])
           scores == Scored("qwen", predictions, references)
           comparison == Made("qwen_comparison",
                              [scores |-> scores[1], manifest |-> manifest,
                               baseline |-> Inputs(g, "", <<"telemetry", "per_query",
                                                            "manifest">>)])
           telemetry == Made("qwen_telemetry", [scores |-> scores[2], answers |-> g.answers,
                                                resumed |-> Resumed(g.before, g.answers),
                                                now |-> Moment(now)])
           grounding == Made("qwen_grounding", [queue |-> g.queue, ranking |-> g.retrieval_output,
                                                predictions |-> predictions])
           state == Made("qwen_state", [comparison |-> comparison,
                                        parameters |-> g.candidate_parameters])
           first == <<predictions, references, manifest>>
           last == <<comparison, telemetry, grounding, state>>
<1>1. /\ early = {"qwen" \o "_predictions", "qwen" \o "_references", "qwen_manifest",
                  "qwen" \o "_per_query", "qwen" \o "_scores", "qwen_comparison",
                  "qwen_telemetry", "qwen_grounding"}
      /\ FinalFile("judge_qwen") = "qwen_state"
  BY DEF EarlyFiles, FinalFile
<1>2. /\ "qwen" \o "_predictions" \in early /\ "qwen" \o "_references" \in early
      /\ "qwen_manifest" \in early /\ "qwen" \o "_per_query" \in early
      /\ "qwen" \o "_scores" \in early /\ "qwen_comparison" \in early
      /\ "qwen_telemetry" \in early /\ "qwen_grounding" \in early
  BY <1>1, Zenon
<1> HIDE DEF early
<1>3. \A id, inputs, files : id \o "_predictions" \in files => Named(Answers(id, inputs), files)
  BY MadeIsNamed DEF Answers
<1>4. \A id, inputs, files : id \o "_references" \in files => Named(GoldAnswers(id, inputs), files)
  BY MadeIsNamed DEF GoldAnswers
<1>5. \A from : /\ Named(Made("qwen_manifest", from), early)
                /\ Named(Made("qwen_comparison", from), early)
                /\ Named(Made("qwen_telemetry", from), early)
                /\ Named(Made("qwen_grounding", from), early)
                /\ Named(Made("qwen_state", from), {"qwen_state"})
  BY <1>2 DEF Named, Made, NoFile
<1>6. Named(predictions, early) /\ Named(references, early) /\ Named(manifest, early)
  BY <1>2, <1>3, <1>4, <1>5, Zenon
<1>7. Named(comparison, early) /\ Named(telemetry, early) /\ Named(grounding, early)
      /\ Named(state, {"qwen_state"})
  BY <1>5, Zenon
<1>8. JudgeQwen(g, now) = Publish((first \o scores) \o last)
  BY DEF JudgeQwen
<1> HIDE DEF predictions, references, manifest, comparison, telemetry, grounding, state
<1>9. List(first) /\ \A k \in DOMAIN first : Named(first[k], early)
  BY <1>6 DEF List
<1>10. List(scores) /\ \A k \in DOMAIN scores : Named(scores[k], early)
  BY <1>2, ScoredIsNamed
<1>11. List(last) /\ Complete(Publish(last), early, "qwen_state")
  BY <1>7, PublishFour DEF List
<1> HIDE DEF first, scores, last
<1>12. List(first \o scores) /\ \A k \in DOMAIN (first \o scores) : Named((first \o scores)[k], early)
  BY <1>9, <1>10, NamedConcat
<1>13. Complete(Publish((first \o scores) \o last), early, "qwen_state")
  BY <1>11, <1>12, PublishConcatSeals
<1> QED BY <1>1, <1>8, <1>13, CompleteIsEnough DEF early

------------------------------------------------------------------------------
(* The other jobs: what they write goes into their open files.             *)
OpenEffect(j, e) ==
    \/ Quiet(e) \/ GoesOnTo(j, e)
    \/ e.do \in {"immutable", "replace"} /\ e.file \in OpenFiles(j)
Remains(j, effects) == List(effects) /\ \A k \in DOMAIN effects : OpenEffect(j, effects[k])

LEMMA RefuseIsOpen ==
    ASSUME NEW j
    PROVE  OpenEffect(j, Refuse)
BY DEF OpenEffect, Quiet, Refuse

LEMMA WriteIsOpen ==
    ASSUME NEW j, NEW f \in OpenFiles(j), NEW d
    PROVE  OpenEffect(j, Replace(f, d)) /\ OpenEffect(j, Immutable(f, d))
BY DEF OpenEffect, Replace, Immutable

LEMMA FewRemain ==
    ASSUME NEW j, NEW a, OpenEffect(j, a), NEW b, OpenEffect(j, b), NEW c, OpenEffect(j, c)
    PROVE  Remains(j, <<a>>) /\ Remains(j, <<a, b>>) /\ Remains(j, <<a, b, c>>)
<1>1. Remains(j, <<a>>)
  BY DEF Remains, List
<1>2. Remains(j, <<a, b>>)
  BY DEF Remains, List
<1>3. Remains(j, <<a, b, c>>)
  BY DEF Remains, List
<1> QED BY <1>1, <1>2, <1>3

LEMMA ProvidedRemains ==
    ASSUME NEW j, NEW accepted, NEW e, Remains(j, e)
    PROVE  Remains(j, Provided(accepted, e))
<1>1. Remains(j, <<Refuse>>)
  BY RefuseIsOpen, FewRemain
<1> QED BY <1>1 DEF Provided

LEMMA RemainsConcat ==
    ASSUME NEW j, NEW a, Remains(j, a), NEW b, Remains(j, b)
    PROVE  Remains(j, a \o b)
<1>1. /\ List(a) /\ Len(a) \in Nat /\ DOMAIN a = 1..Len(a)
      /\ List(b) /\ Len(b) \in Nat /\ DOMAIN b = 1..Len(b)
  BY ListProperties DEF Remains
<1>2. /\ List(a \o b) /\ DOMAIN (a \o b) = 1..Len(a) + Len(b)
      /\ \A k \in 1..Len(a) : (a \o b)[k] = a[k]
      /\ \A k \in 1..Len(b) : (a \o b)[Len(a) + k] = b[k]
  BY <1>1, ListConcat
<1>3. ASSUME NEW k \in DOMAIN (a \o b)
      PROVE  OpenEffect(j, (a \o b)[k])
  <2>1. CASE k \in 1..Len(a)
    BY <2>1, <1>1, <1>2 DEF Remains
  <2>2. CASE k \notin 1..Len(a)
    <3> DEFINE i == k - Len(a)
    <3>1. i \in 1..Len(b) /\ k = Len(a) + i
      BY <2>2, <1>1, <1>2
    <3> HIDE DEF i
    <3> QED BY <3>1, <1>1, <1>2 DEF Remains
  <2> QED BY <2>1, <2>2
<1> QED BY <1>2, <1>3 DEF Remains

LEMMA RemainsAppend ==
    ASSUME NEW j, NEW a, Remains(j, a), NEW b, OpenEffect(j, b)
    PROVE  Remains(j, Append(a, b))
<1> DEFINE S == {a[k] : k \in DOMAIN a} \union {b}
<1>1. a \in Seq(S) /\ b \in S
  BY DEF Remains, List
<1>2. \A e \in S : OpenEffect(j, e)
  BY DEF Remains
<1> HIDE DEF S
<1>3. Append(a, b) \in Seq(S)
  BY <1>1
<1>4. \A k \in DOMAIN Append(a, b) : Append(a, b)[k] \in S
  BY <1>3
<1> QED BY <1>2, <1>3, <1>4, SeqIsList DEF Remains

LEMMA ImportsRemain ==
    ASSUME NEW g, NEW lucky
    PROVE  /\ Remains("import_train", ImportTrain(g))
           /\ Remains("import_public", ImportPublic(g))
           /\ Remains("import_contexts", ImportContexts(g, lucky))
<1>1. /\ OpenFiles("import_train") = {"train", "train_errors"}
      /\ OpenFiles("import_public") = {"public", "public_errors"}
      /\ OpenFiles("import_contexts") = {"contexts", "import_manifest", "contexts_errors"}
  BY DEF OpenFiles
<1>2. Remains("import_train", ImportTrain(g))
  BY <1>1, WriteIsOpen, RefuseIsOpen, FewRemain DEF ImportTrain, ImportFails
<1>3. Remains("import_public", ImportPublic(g))
  BY <1>1, WriteIsOpen, RefuseIsOpen, FewRemain DEF ImportPublic, ImportFails
<1>4. Remains("import_contexts", ImportContexts(g, lucky))
  BY <1>1, WriteIsOpen, RefuseIsOpen, FewRemain DEF ImportContexts, ImportFails
<1> QED BY <1>2, <1>3, <1>4

LEMMA OneFileRemains ==
    ASSUME NEW g, NEW lucky, NEW now
    PROVE  /\ Remains("approve", Approve(g))
           /\ Remains("label_outside", LabelOutside(g))
           /\ Remains("benchmark", BenchmarkBaseline(g, now))
           /\ Remains("answer", AnswerPublic(g))
           /\ Remains("submit", SubmitBuild(g, lucky))
           /\ Remains("download", Download(g))
           /\ Remains("assess_outside", AssessOutside(g))
<1>1. /\ OpenFiles("approve") = {"approval"}
      /\ OpenFiles("label_outside") = {"labeled_queue"}
      /\ OpenFiles("benchmark") = {"performance"}
      /\ OpenFiles("answer") = {"answers"}
      /\ OpenFiles("submit") = {"submission"}
      /\ OpenFiles("download") = {"adapter"}
      /\ OpenFiles("assess_outside") = {"assessed_queue"}
  BY DEF OpenFiles
<1>2. Remains("approve", Approve(g))
  BY <1>1, WriteIsOpen, FewRemain DEF Approve
<1>3. Remains("label_outside", LabelOutside(g))
  BY <1>1, WriteIsOpen, FewRemain DEF LabelOutside
<1>4. Remains("benchmark", BenchmarkBaseline(g, now))
  BY <1>1, WriteIsOpen, FewRemain, ProvidedRemains DEF BenchmarkBaseline
<1>5. Remains("answer", AnswerPublic(g))
  BY <1>1, WriteIsOpen, FewRemain DEF AnswerPublic
<1>6. Remains("submit", SubmitBuild(g, lucky))
  BY <1>1, WriteIsOpen, FewRemain, ProvidedRemains DEF SubmitBuild
<1>7. Remains("download", Download(g))
  BY <1>1, WriteIsOpen, FewRemain DEF Download
<1>8. Remains("assess_outside", AssessOutside(g))
  BY <1>1, WriteIsOpen, FewRemain DEF AssessOutside
<1> QED BY <1>2, <1>3, <1>4, <1>5, <1>6, <1>7, <1>8

LEMMA ParityRemains ==
    ASSUME NEW g, NEW lucky
    PROVE  Remains("parity", ScorerParity(g, lucky))
<1> DEFINE report == ParityReport(g.scorer, g.parity_fixtures)
           first == Replace("parity_report", report)
           second == Replace("parity_markdown", ParityMarkdown(report))
<1>1. OpenEffect("parity", first) /\ OpenEffect("parity", second)
  BY WriteIsOpen DEF OpenFiles
<1>2. ScorerParity(g, lucky) = IF lucky THEN <<first, second>> ELSE Append(<<first, second>>, Refuse)
  BY DEF ScorerParity
<1> HIDE DEF first, second
<1>3. Remains("parity", <<first, second>>)
  BY <1>1, FewRemain
<1>4. Remains("parity", Append(<<first, second>>, Refuse))
  BY <1>3, RefuseIsOpen, RemainsAppend
<1> QED BY <1>2, <1>3, <1>4

LEMMA ImportLabelsRemains ==
    ASSUME NEW g, NEW annotator
    PROVE  Remains("import_labels", ImportLabels(g, annotator))
<1> DEFINE imported == ImportedProgress(g.queue, annotator)
<1>1. OpenEffect("import_labels", Expect("progress", imported))
  BY DEF OpenEffect, Quiet, Expect
<1>2. OpenEffect("import_labels", Replace("progress", imported))
  BY WriteIsOpen DEF OpenFiles
<1>3. Remains("import_labels", <<Expect("progress", imported), Replace("progress", imported)>>)
  BY <1>1, <1>2, FewRemain
<1> QED BY <1>3, ProvidedRemains DEF ImportLabels

LEMMA TrainingRemains ==
    ASSUME NEW g, NEW lucky, NEW now
    PROVE  /\ Remains("train_remotely", TrainRemotely(g, now))
           /\ Remains("train_locally", TrainLocally(g, lucky, now))
<1>1. /\ OpenFiles("train_remotely") = {"remote_adapter", "remote_response", "training_response"}
      /\ OpenFiles("train_locally") = {"adapter", "training_report"}
  BY DEF OpenFiles
<1>2. Remains("train_remotely", TrainRemotely(g, now))
  BY <1>1, WriteIsOpen, FewRemain, ProvidedRemains DEF TrainRemotely
<1>3. Remains("train_locally", TrainLocally(g, lucky, now))
  <2> DEFINE adapter == Adapter(g.training_groups, now)
             report == Made("training_report", [groups |-> g.training_groups, adapter |-> adapter,
                                                now |-> Moment(now)])
             rest == IF lucky THEN <<Immutable("training_report", report)>> ELSE <<Refuse>>
             first == Immutable("adapter", adapter)
  <2>1. Publish(<<report>>) = <<Immutable("training_report", report)>>
    <3>1. report.what = "training_report"
      BY DEF Made
    <3> HIDE DEF report
    <3> QED BY <3>1 DEF Publish
  <2>2. /\ OpenEffect("train_locally", first)
        /\ OpenEffect("train_locally", Immutable("training_report", report))
    BY <1>1, WriteIsOpen
  <2>3. TrainLocally(g, lucky, now) = Provided(g.adapter = NoFile, <<first>> \o rest)
    BY <2>1 DEF TrainLocally, Provided
  <2> HIDE DEF first, report
  <2>4. Remains("train_locally", <<first>>) /\ Remains("train_locally", rest)
    BY <2>2, RefuseIsOpen, FewRemain
  <2> HIDE DEF rest
  <2>5. Remains("train_locally", <<first>> \o rest)
    BY <2>4, RemainsConcat
  <2> QED BY <2>3, <2>5, ProvidedRemains
<1> QED BY <1>2, <1>3

LEMMA DevelopRemains ==
    ASSUME NEW g, NEW lucky, NEW now
    PROVE  Remains("develop_qwen", DevelopQwen(g, lucky, now))
<1>1. OpenFiles("develop_qwen") = {"qwen_answers"} /\ "develop_qwen" \in DOMAIN Goes
      /\ Goes["develop_qwen"] = "judge_qwen"
  BY DEF OpenFiles, Goes
<1>2. \A inputs : OpenEffect("develop_qwen", Kept("qwen_answers", inputs, g.before, now))
  BY <1>1, WriteIsOpen DEF Kept
<1>3. OpenEffect("develop_qwen", GoOn("judge_qwen"))
  BY <1>1 DEF OpenEffect, GoesOnTo, GoOn
<1>4. \A inputs : Remains("develop_qwen", <<Kept("qwen_answers", inputs, g.before, now),
                                            GoOn("judge_qwen")>>)
  BY <1>2, <1>3, FewRemain
<1> DEFINE accepted == /\ g.candidate_parameters = CandidateParameters(g.candidate_model)
                       /\ Ranks(g.retrieval_output, g.queue, lucky)
           inputs == Inputs(g, "", <<"queue", "retrieval_output", "candidate_parameters">>)
           effects == <<Kept("qwen_answers", inputs, g.before, now), GoOn("judge_qwen")>>
<1>5. DevelopQwen(g, lucky, now) = Provided(accepted, effects)
  BY DEF DevelopQwen
<1> HIDE DEF accepted, inputs
<1>6. Remains("develop_qwen", effects)
  BY <1>4, Zenon
<1> HIDE DEF effects
<1> QED BY <1>5, <1>6, ProvidedRemains

LEMMA AnnotateRemains ==
    ASSUME NEW g, NEW j \in {"annotate", "reannotate", "annotate_other"}, NEW annotator,
           NEW chosen \in {{}, {1}}
    PROVE  Remains(j, Annotate(g, annotator, chosen))
<1> DEFINE progress == IF g.progress = NoFile THEN Progress(g.queue, annotator, NoLabels)
                       ELSE g.progress
           targets == IF chosen = {} THEN Questions \ DOMAIN progress.labels ELSE chosen
<1>1. Cardinality(targets) \in Nat
  <2>1. IsFiniteSet(1..2)
    <3>1. 1 \in Int /\ 2 \in Int
      OBVIOUS
    <3> QED BY <3>1, FS_Interval, Zenon
  <2>2. targets \subseteq 1..2
    <3> HIDE DEF progress
    <3> QED BY DEF Questions
  <2> QED BY <2>1, <2>2, FS_Subset, FS_CardinalityType
<1>2. "progress" \in OpenFiles(j)
  BY DEF OpenFiles
<1> HIDE DEF targets, progress
<1> DEFINE saves == Saves(progress, targets)
<1>3. DOMAIN saves = 1..Cardinality(targets) /\ saves = [k \in 1..Cardinality(targets) |-> saves[k]]
  BY DEF Saves
<1>4. List(saves)
  <2> HIDE DEF saves
  <2> QED BY <1>1, <1>3, ListFromTo
<1>5. \A k \in 1..Cardinality(targets) : \E d : saves[k] = Replace("progress", d)
  BY DEF Saves
<1> HIDE DEF saves
<1>6. Remains(j, saves)
  BY <1>2, <1>3, <1>4, <1>5, WriteIsOpen DEF Remains
<1>7. Annotate(g, annotator, chosen) = Provided(Continues(progress, g.queue, annotator), saves)
  BY DEF Annotate, progress, targets, saves
<1> QED BY <1>6, <1>7, ProvidedRemains

------------------------------------------------------------------------------
(* The jobs by their names, as the workspace runs them.                    *)
SealedCommands ==
    {"corpus", "propose", "freeze", "index", "split", "sample", "retrieval",
     "select", "rag_sft", "export_draft", "export_approved", "validate",
     "evaluate", "evaluate_set", "oracle", "score", "baseline"}

LEMMA CommandsSeal ==
    ASSUME NEW j \in SealedCommands, NEW g, NEW now, NEW lucky
    PROVE  Seals(j, JobDoes(j, g, now, lucky))
<1> DEFINE P(i) == Seals(i, JobDoes(i, g, now, lucky))
<1>1. P("corpus") /\ P("propose") /\ P("freeze")
      /\ P("index") /\ P("split") /\ P("sample")
  BY CorpusSeals, ProposeSeals, FreezeSeals, IndexSeals, SplitSeals, SampleSeals DEF JobDoes
<1>2. P("retrieval") /\ P("select") /\ P("rag_sft")
      /\ P("export_draft") /\ P("export_approved") /\ P("validate")
  BY RetrievalSeals, SelectSeals, RagSftSeals, ExportSeals, ValidateSeals DEF JobDoes
<1>3. P("evaluate") /\ P("evaluate_set") /\ P("oracle")
      /\ P("score") /\ P("baseline")
  BY EvaluateSeals, EvaluateSetSeals, OracleSeals, ScoreSeals, BaselineSeals DEF JobDoes
<1> HIDE DEF P
<1>4. P(j)
  BY <1>1, <1>2, <1>3 DEF SealedCommands
<1> QED BY <1>4 DEF P

SealedScripts ==
    {"forensics", "refine", "supervise", "timeout", "sparse_preflight",
     "tournament", "remediation", "dense_preflight", "dense_index", "encode",
     "search", "finalize_blocked", "finalize_dense", "features", "fuse",
     "record_fusion", "finalize_fusion", "reranker_dataset", "verify_local",
     "request", "verify", "recover_packing", "replay_packing", "legal_sparse",
     "legal_reranker", "rebaseline", "compare_retrieval", "fixed", "prompt_b",
     "end_to_end", "oracle_o2", "oracle_o3", "oracle_delta", "selection_delta",
     "compaction", "public_evidence", "prepare", "finalize_grounding",
     "freeze_baseline", "audit_qwen", "judge_qwen"}

LEMMA ScriptsSeal ==
    ASSUME NEW j \in SealedScripts, NEW g, NEW now, NEW lucky
    PROVE  Seals(j, JobDoes(j, g, now, lucky))
<1> DEFINE P(i) == Seals(i, JobDoes(i, g, now, lucky))
<1>1. P("forensics") /\ P("refine") /\ P("supervise")
      /\ P("timeout") /\ P("sparse_preflight") /\ P("tournament")
  BY ForensicsSeals, RefineSeals, SuperviseSeals, TimeoutSeals,
     SparsePreflightSeals, TournamentSeals DEF JobDoes, ScriptDoes
<1>2. P("remediation") /\ P("dense_preflight") /\ P("dense_index")
      /\ P("encode") /\ P("search") /\ P("finalize_blocked")
  BY RemediationSeals, DensePreflightSeals, DenseIndexSeals, EncodeSeals,
     SearchSeals, FinalizeBlockedSeals DEF JobDoes, ScriptDoes
<1>3. P("finalize_dense") /\ P("features") /\ P("fuse")
      /\ P("record_fusion") /\ P("finalize_fusion") /\ P("reranker_dataset")
  BY FinalizeDenseSeals, FeaturesSeals, FuseSeals, RecordFusionSeals,
     FinalizeFusionSeals, RerankerDatasetSeals DEF JobDoes, ScriptDoes
<1>4. P("verify_local") /\ P("request") /\ P("verify")
      /\ P("recover_packing") /\ P("replay_packing") /\ P("legal_sparse")
  BY VerifyLocalSeals, RequestSeals, VerifySeals, RecoverSeals, ReplaySeals,
     LegalSparseSeals DEF JobDoes, ScriptDoes
<1>5. P("legal_reranker") /\ P("rebaseline") /\ P("compare_retrieval")
      /\ P("fixed") /\ P("prompt_b") /\ P("end_to_end")
  BY LegalRerankerSeals, RebaselineSeals, CompareRetrievalSeals, FixedSeals,
     PromptSeals, EndToEndSeals DEF JobDoes, ScriptDoes
<1>6. P("oracle_o2") /\ P("oracle_o3") /\ P("oracle_delta")
      /\ P("selection_delta") /\ P("compaction") /\ P("public_evidence")
  BY OracleO2Seals, OracleO3Seals, OracleDeltaSeals, SelectionDeltaSeals,
     CompactionSeals, PublicEvidenceSeals DEF JobDoes, ScriptDoes
<1>7. P("prepare") /\ P("finalize_grounding") /\ P("freeze_baseline")
      /\ P("audit_qwen") /\ P("judge_qwen")
  BY PrepareSeals, FinalizeGroundingSeals, FreezeBaselineSeals, AuditSeals,
     JudgeSeals DEF JobDoes, ScriptDoes
<1> HIDE DEF P
<1>8. P(j)
  BY <1>1, <1>2, <1>3, <1>4, <1>5, <1>6, <1>7 DEF SealedScripts
<1> QED BY <1>8 DEF P

OpenJobs ==
    {"import_train", "import_public", "import_contexts", "approve",
     "label_outside", "annotate", "reannotate", "annotate_other", "import_labels",
     "benchmark", "answer", "parity", "submit", "train_remotely",
     "train_locally", "download", "assess_outside", "develop_qwen"}

LEMMA OthersRemain ==
    ASSUME NEW j \in OpenJobs, NEW g, NEW now, NEW lucky
    PROVE  Remains(j, JobDoes(j, g, now, lucky))
<1> DEFINE P(i) == Remains(i, JobDoes(i, g, now, lucky))
<1>1. P("import_train") /\ P("import_public") /\ P("import_contexts")
  BY ImportsRemain DEF JobDoes
<1>2. P("approve") /\ P("label_outside") /\ P("benchmark") /\ P("answer") /\ P("submit")
  BY OneFileRemains DEF JobDoes
<1>3. P("annotate") /\ P("reannotate") /\ P("annotate_other")
  BY AnnotateRemains DEF JobDoes
<1>4. P("import_labels") /\ P("parity")
  BY ImportLabelsRemains, ParityRemains DEF JobDoes
<1>5. P("train_remotely") /\ P("train_locally") /\ P("develop_qwen")
  BY TrainingRemains, DevelopRemains DEF JobDoes, ScriptDoes
<1>6. P("download") /\ P("assess_outside")
  BY OneFileRemains DEF JobDoes, ScriptDoes
<1> HIDE DEF P
<1>7. P(j)
  BY <1>1, <1>2, <1>3, <1>4, <1>5, <1>6 DEF OpenJobs
<1> QED BY <1>7 DEF P

LEMMA ScriptNames ==
    ScriptJobs = (SealedScripts \ {"supervise", "search", "record_fusion", "oracle_o3", "judge_qwen"})
                 \union {"train_locally", "train_remotely", "download", "assess_outside",
                         "develop_qwen"}
<1>1. ScriptJobs = UNION {ToSet(Scripts[k]) : k \in {1, 2, 3, 4, 5}}
  BY DEF ScriptJobs, Scripts

<1>2. ToSet(Scripts[1]) = {"forensics", "refine", "timeout", "sparse_preflight",
                             "tournament", "remediation", "dense_preflight",
                             "dense_index", "encode"}
  BY DEF ToSet, Scripts
<1>3. ToSet(Scripts[2]) = {"finalize_blocked", "finalize_dense", "features",
                             "fuse", "finalize_fusion", "reranker_dataset",
                             "train_locally", "verify_local", "request"}
  BY DEF ToSet, Scripts
<1>4. ToSet(Scripts[3]) = {"train_remotely", "download", "verify",
                             "recover_packing", "replay_packing", "legal_sparse",
                             "legal_reranker", "rebaseline", "compare_retrieval"}
  BY DEF ToSet, Scripts
<1>5. ToSet(Scripts[4]) = {"fixed", "prompt_b", "end_to_end", "oracle_o2",
                             "oracle_delta", "selection_delta", "audit_qwen",
                             "develop_qwen"}
  BY DEF ToSet, Scripts
<1>6. ToSet(Scripts[5]) = {"compaction", "public_evidence", "prepare",
                             "assess_outside", "finalize_grounding",
                             "freeze_baseline"}
  BY DEF ToSet, Scripts
<1> QED BY <1>1, <1>2, <1>3, <1>4, <1>5, <1>6 DEF SealedScripts

LEMMA JobNames ==
    /\ SealedJobs = SealedCommands \union SealedScripts
    /\ Jobs = SealedJobs \union OpenJobs
    /\ SealedJobs \intersect OpenJobs = {}
<1>1. SealedJobs = SealedCommands \union SealedScripts
  BY ScriptNames DEF SealedJobs, SealedCommands, SealedScripts
<1>2. UNION {ToSet(Pipeline[k]) : k \in DOMAIN Pipeline}
      = UNION {ToSet(Pipeline[k]) : k \in {1, 2, 3}}
  BY DEF Pipeline
<1>3. ToSet(Pipeline[1]) = {"import_train", "import_public", "import_contexts",
                             "corpus", "propose", "approve", "freeze", "index",
                             "split", "sample"}
  BY DEF ToSet, Pipeline
<1>4. ToSet(Pipeline[2]) = {"retrieval", "select", "rag_sft", "label_outside",
                             "import_labels", "export_approved", "oracle"}
  BY DEF ToSet, Pipeline
<1>5. ToSet(Pipeline[3]) = {"validate", "evaluate", "baseline", "benchmark",
                             "answer", "parity", "submit", "score"}
  BY DEF ToSet, Pipeline
<1> DEFINE listed == UNION {ToSet(Pipeline[k]) : k \in {1, 2, 3}}
<1>0. listed = (SealedCommands \ {"export_draft", "evaluate_set"})
               \union {"import_train", "import_public", "import_contexts", "approve",
                       "label_outside", "import_labels", "benchmark", "answer",
                       "parity", "submit"}
  BY <1>3, <1>4, <1>5 DEF SealedCommands
<1> HIDE DEF listed
<1>6. Jobs = SealedJobs \union OpenJobs
  <2>1. Jobs = listed
               \union {"annotate", "reannotate", "annotate_other", "export_draft", "evaluate_set"}
               \union ScriptJobs
               \union {"supervise", "search", "record_fusion", "oracle_o3", "judge_qwen"}
    BY <1>2 DEF Jobs, listed
  <2>2. {"export_draft", "evaluate_set"} \subseteq SealedCommands
    BY DEF SealedCommands
  <2>3. {"supervise", "search", "record_fusion", "oracle_o3", "judge_qwen"} \subseteq SealedScripts
    BY DEF SealedScripts
  <2> DEFINE listedOpen == {"import_train", "import_public", "import_contexts", "approve",
                            "label_outside", "import_labels", "benchmark", "answer",
                            "parity", "submit"}
             others == {"annotate", "reannotate", "annotate_other"}
             scripts == {"train_locally", "train_remotely", "download", "assess_outside",
                         "develop_qwen"}
             two == {"export_draft", "evaluate_set"}
             five == {"supervise", "search", "record_fusion", "oracle_o3", "judge_qwen"}
  <2>4. OpenJobs = (listedOpen \union others) \union scripts
    BY DEF OpenJobs
  <2>5. Jobs = ((listed \union others) \union two) \union (ScriptJobs \union five)
    <3>1. {"annotate", "reannotate", "annotate_other", "export_draft", "evaluate_set"}
          = others \union two
      OBVIOUS
    <3> HIDE DEF others, two, five
    <3> QED BY <2>1, <3>1 DEF five
  <2> HIDE DEF listedOpen, others, scripts, two, five
  <2>6. listed = (SealedCommands \ two) \union listedOpen
    BY <1>0 DEF two, listedOpen
  <2>7. ScriptJobs = (SealedScripts \ five) \union scripts
    BY ScriptNames DEF five, scripts
  <2>8. two \subseteq SealedCommands /\ five \subseteq SealedScripts
    BY <2>2, <2>3 DEF two, five
  <2> QED BY <1>1, <2>4, <2>5, <2>6, <2>7, <2>8
<1>7. SealedJobs \intersect OpenJobs = {}
  BY <1>1 DEF OpenJobs, SealedCommands, SealedScripts
<1> QED BY <1>1, <1>6, <1>7

LEMMA EveryJob ==
    ASSUME NEW j \in Jobs, NEW g, NEW now, NEW lucky
    PROVE  IF j \in SealedJobs THEN Seals(j, JobDoes(j, g, now, lucky))
           ELSE Remains(j, JobDoes(j, g, now, lucky))
BY JobNames, CommandsSeal, ScriptsSeal, OthersRemain

------------------------------------------------------------------------------
(* The invariant behind SetOfOneRun.  A process that carries out a sealed  *)
(* job has a list in "decided" of which its effects are the rest, and what *)
(* it wrote of that list is still there: an immutable file is never        *)
(* written over, no open job and nobody outside has its files, and two     *)
(* sealed jobs that share a file would write the same into it or stop.     *)
(* The last file of a sealed job is therefore on the disk only when a run  *)
(* has put all of its outputs there.                                       *)

\* t is what is left of d after its first m effects.
Rest(t, d, m) ==
    /\ List(t) /\ Len(d) = m + Len(t)
    /\ \A k \in 1..Len(t) : t[k] = d[m + k]

OnDisk(d, m) == \A k \in Writes(d) : k <= m => disk[d[k].file] = d[k].data

Carries(p) ==
    \E d \in decided : \E m \in 0..Len(d) :
        Seals(proc[p].job, d) /\ Rest(proc[p].todo, d, m) /\ OnDisk(d, m)

SessionOK(p) ==
    /\ DOMAIN proc[p] = {"job", "pc", "got", "todo"}
    /\ proc[p].pc \in {"idle", "read", "act"}
    /\ proc[p].pc # "idle" => proc[p].job \in JobsIn(scope)
    /\ proc[p].pc = "act" =>
          /\ proc[p].todo # <<>>
          /\ IF proc[p].job \in SealedJobs THEN Carries(p)
             ELSE Remains(proc[p].job, proc[p].todo)

\* The jobs that write files, and their files, are those of the scope.
Covers ==
    /\ scope \in DOMAIN Scopes /\ DOMAIN proc = Procs
    /\ \A j \in JobsIn(scope) : JobWrites(j) \subseteq DOMAIN disk

Delivered(d) == Writes(d) # {} /\ \A k \in Writes(d) : disk[d[k].file] = d[k].data

WorkspaceInv ==
    /\ Covers
    /\ \A p \in Procs : SessionOK(p)
    /\ \A d \in decided : \E j \in SealedJobs \intersect JobsIn(scope) : Seals(j, d)
    /\ \A j \in SealedJobs \intersect JobsIn(scope) :
          disk[FinalFile(j)] # NoFile
          => \E d \in decided : Closes(d, FinalFile(j)) /\ Delivered(d)

LEMMA ScopeIsWhole ==
    ASSUME NEW s \in DOMAIN Scopes, NEW j \in JobsIn(s)
    PROVE  /\ j \in Jobs
           /\ \A e : GoesOnTo(j, e) => e.file \in JobsIn(s)
<1>1. j \in Jobs
  BY ScopesAssumption
<1>2. DOMAIN Goes = {"refine", "encode", "fuse", "oracle_o2", "develop_qwen"}
      /\ \A i \in DOMAIN Goes : Goes[i] \notin DOMAIN Goes
  BY DEF Goes
<1>3. ASSUME NEW e, GoesOnTo(j, e)
      PROVE  e.file \in JobsIn(s)
  <2> DEFINE jobs == UNION {Scopes[s].jobs[p] : p \in Procs}
  <2>1. j \in jobs
    BY <1>2, <1>3 DEF GoesOnTo, JobsIn, Whole
  <2> QED BY <2>1, <1>3 DEF GoesOnTo, JobsIn, Whole
<1> QED BY <1>1, <1>3

LEMMA RestAdvances ==
    ASSUME NEW t, NEW d, NEW m \in Nat, List(d), Rest(t, d, m), t # <<>>
    PROVE  /\ m + 1 \in DOMAIN d /\ m + 1 \in 0..Len(d) /\ Head(t) = d[m + 1]
           /\ Rest(Tail(t), d, m + 1)
           /\ Len(t) = 1 \/ Tail(t) # <<>>
<1>1. /\ List(Tail(t)) /\ Len(t) >= 1 /\ Len(Tail(t)) = Len(t) - 1 /\ Head(t) = t[1]
      /\ \A k \in 1..Len(t) - 1 : Tail(t)[k] = t[k + 1]
  BY ListTail DEF Rest
<1>2. Len(t) \in Nat /\ Len(d) \in Nat /\ DOMAIN d = 1..Len(d)
  BY ListProperties DEF Rest
<1>3. Head(t) = d[m + 1] /\ m + 1 \in DOMAIN d /\ m + 1 \in 0..Len(d)
  BY <1>1, <1>2 DEF Rest
<1>4. Rest(Tail(t), d, m + 1)
  <2>1. Len(d) = (m + 1) + Len(Tail(t))
    BY <1>1, <1>2 DEF Rest
  <2>2. ASSUME NEW k \in 1..Len(Tail(t))
        PROVE  Tail(t)[k] = d[(m + 1) + k]
    <3>1. Tail(t)[k] = t[k + 1] /\ k + 1 \in 1..Len(t) /\ m + (k + 1) = (m + 1) + k
      BY <1>1, <1>2
    <3> QED BY <3>1 DEF Rest
  <2> QED BY <1>1, <2>1, <2>2 DEF Rest
<1>5. Len(t) = 1 \/ Tail(t) # <<>>
  <2> DEFINE u == Tail(t)
  <2>1. Len(u) = Len(t) - 1
    BY <1>1
  <2> HIDE DEF u
  <2>2. u = <<>> => Len(u) = 0
    OBVIOUS
  <2>3. Len(t) = 1 \/ u # <<>>
    BY <1>2, <2>1, <2>2
  <2> QED BY <2>3 DEF u
<1> QED BY <1>3, <1>4, <1>5

LEMMA WritesAreKept ==
    ASSUME NEW j, NEW d, Seals(j, d), NEW k \in Writes(d)
    PROVE  Keeps(d[k], EarlyFiles(j) \union {FinalFile(j)})
BY DEF Seals, Writes, Quiet, GoesOnTo, Keeps

\* A write into the last file of some sealed job is the last write of its own.
LEMMA FinalIsLast ==
    ASSUME NEW i \in SealedJobs, NEW j \in SealedJobs, NEW d, Seals(j, d),
           NEW k \in Writes(d), d[k].file = FinalFile(i)
    PROVE  \A n \in Writes(d) : n # k => n < k
<1>1. PICK l \in Writes(d) :
          /\ d[l].file = FinalFile(j)
          /\ \A n \in Writes(d) : n # l => n < l /\ d[n].file \in EarlyFiles(j)
  BY DEF Seals, EndsIn
<1>2. j \in Jobs
  BY JobNames
<1>3. FinalFile(i) \notin EarlyFiles(j)
  BY <1>2, OutputsAssumption
<1> QED BY <1>1, <1>3

LEMMA DecidedFiles ==
    ASSUME WorkspaceInv, NEW d \in decided, NEW k \in Writes(d)
    PROVE  /\ d[k].data # NoFile /\ d[k].file \in DOMAIN disk
           /\ \E j \in SealedJobs \intersect JobsIn(scope) : d[k].file \in JobWrites(j)
<1>1. PICK j \in SealedJobs \intersect JobsIn(scope) : Seals(j, d)
  BY DEF WorkspaceInv
<1>2. Keeps(d[k], JobWrites(j))
  BY <1>1, WritesAreKept DEF JobWrites
<1> QED BY <1>2 DEF Keeps, WorkspaceInv, Covers

\* What a step has to leave alone for the invariant to survive.
LEMMA InvSurvives ==
    ASSUME WorkspaceInv, scope' = scope, DOMAIN disk' = DOMAIN disk, DOMAIN proc' = Procs,
           decided \subseteq decided',
           \A d \in decided' \ decided :
              \E j \in SealedJobs \intersect JobsIn(scope) : Seals(j, d),
           \A q \in Procs : proc'[q] = proc[q] \/ SessionOK(q)',
           \A d \in decided : \A k \in Writes(d) :
              disk[d[k].file] = d[k].data => disk'[d[k].file] = d[k].data,
           \A j \in SealedJobs \intersect JobsIn(scope) :
              \/ disk'[FinalFile(j)] = disk[FinalFile(j)]
              \/ \E d \in decided' : Closes(d, FinalFile(j)) /\ Delivered(d)'
    PROVE  WorkspaceInv'
<1>1. Covers'
  BY DEF WorkspaceInv, Covers
<1>2. ASSUME NEW q \in Procs
      PROVE  SessionOK(q)'
  <2>1. CASE SessionOK(q)'
    BY <2>1
  <2>2. CASE proc'[q] = proc[q]
    <3>1. SessionOK(q)
      BY DEF WorkspaceInv
    <3>2. Carries(q) => Carries(q)'
      <4> HAVE Carries(q)
      <4>1. PICK d \in decided : \E m \in 0..Len(d) :
                Seals(proc[q].job, d) /\ Rest(proc[q].todo, d, m) /\ OnDisk(d, m)
        BY DEF Carries
      <4>2. \A m \in 0..Len(d) : OnDisk(d, m) => OnDisk(d, m)'
        BY <4>1 DEF OnDisk
      <4> QED BY <2>2, <4>1, <4>2 DEF Carries
    <3> QED BY <2>2, <3>1, <3>2 DEF SessionOK
  <2> QED BY <1>2, <2>1, <2>2
<1>3. \A d \in decided' : \E j \in SealedJobs \intersect JobsIn(scope) : Seals(j, d)
  BY DEF WorkspaceInv
<1>4. ASSUME NEW j \in SealedJobs \intersect JobsIn(scope), disk'[FinalFile(j)] # NoFile
      PROVE  \E d \in decided' : Closes(d, FinalFile(j)) /\ Delivered(d)'
  <2>1. CASE disk'[FinalFile(j)] = disk[FinalFile(j)]
    <3>1. PICK d \in decided : Closes(d, FinalFile(j)) /\ Delivered(d)
      BY <2>1, <1>4 DEF WorkspaceInv
    <3>2. Delivered(d)'
      BY <3>1 DEF Delivered
    <3> QED BY <3>1, <3>2
  <2> QED BY <2>1, <1>4
<1> QED BY <1>1, <1>2, <1>3, <1>4 DEF WorkspaceInv

LEMMA WorkspaceInitEstablishes == Init => WorkspaceInv
<1> SUFFICES ASSUME Init PROVE WorkspaceInv
  OBVIOUS
<1>1. Covers
  BY ScopesAssumption DEF Init, Covers
<1>2. \A p \in Procs : SessionOK(p)
  BY DEF Init, SessionOK, Idle
<1>3. \A j \in SealedJobs \intersect JobsIn(scope) : disk[FinalFile(j)] = NoFile
  BY ScopesAssumption DEF Init
<1> QED BY <1>1, <1>2, <1>3 DEF WorkspaceInv, Init

LEMMA IdleIsOK ==
    ASSUME WorkspaceInv, NEW p \in Procs, Ends(p)
    PROVE  /\ SessionOK(p)' /\ DOMAIN proc' = Procs
           /\ \A q \in Procs : proc'[q] = proc[q] \/ SessionOK(q)'
BY DEF WorkspaceInv, Covers, Ends, SessionOK, Idle

\* Nothing on the disk changes and nothing is decided.
LEMMA SessionsOnly ==
    ASSUME WorkspaceInv, UNCHANGED <<scope, disk, decided>>, DOMAIN proc' = Procs,
           \A q \in Procs : proc'[q] = proc[q] \/ SessionOK(q)'
    PROVE  WorkspaceInv'
BY InvSurvives, Zenon

LEMMA StartKeepsInv ==
    ASSUME WorkspaceInv, NEW p \in Procs, NEW j \in Scopes[scope].jobs[p], Start(p, j)
    PROVE  WorkspaceInv'
<1>1. j \in JobsIn(scope)
  BY DEF JobsIn, Whole
<1>2. DOMAIN proc = Procs
  BY DEF WorkspaceInv, Covers
<1>3. proc'[p] = [job |-> j, pc |-> "read", got |-> NoGot, todo |-> <<>>] /\ DOMAIN proc' = Procs
      /\ \A q \in Procs \ {p} : proc'[q] = proc[q]
  BY <1>2 DEF Start
<1>4. SessionOK(p)'
  BY <1>1, <1>3 DEF SessionOK, Start
<1> QED BY <1>3, <1>4, SessionsOnly DEF Start

LEMMA ReadKeepsInv ==
    ASSUME WorkspaceInv, NEW p \in Procs, ReadNext(p)
    PROVE  WorkspaceInv'
<1>1. SessionOK(p) /\ DOMAIN proc = Procs
  BY DEF WorkspaceInv, Covers
<1>2. /\ DOMAIN proc' = Procs /\ \A q \in Procs \ {p} : proc'[q] = proc[q]
      /\ DOMAIN proc'[p] = DOMAIN proc[p] /\ proc'[p].job = proc[p].job
      /\ proc'[p].pc = "read"
  BY <1>1 DEF ReadNext, SessionOK
<1>3. SessionOK(p)'
  BY <1>1, <1>2 DEF SessionOK, ReadNext
<1> QED BY <1>2, <1>3, SessionsOnly DEF ReadNext

LEMMA RestOfAll ==
    ASSUME NEW d, List(d)
    PROVE  Rest(d, d, 0) /\ 0 \in 0..Len(d) /\ \A k \in DOMAIN d : k >= 1
BY ListProperties DEF Rest

LEMMA DecideKeepsInv ==
    ASSUME WorkspaceInv, NEW p \in Procs, Decide(p)
    PROVE  WorkspaceInv'
<1> DEFINE j == proc[p].job
           got == proc[p].got
           missing == \E a \in DOMAIN got \ Optional[j] : got[a] = NoFile
<1>1. SessionOK(p) /\ DOMAIN proc = Procs /\ scope \in DOMAIN Scopes
  BY DEF WorkspaceInv, Covers
<1>2. j \in JobsIn(scope) /\ j \in Jobs
  BY <1>1, ScopeIsWhole DEF SessionOK, Decide
<1>3. CASE missing
  BY <1>3, IdleIsOK, SessionsOnly DEF Decide
<1>4. CASE ~missing
  <2>1. PICK now \in Clock[j], lucky \in Luck[j] :
            LET effects == JobDoes(j, got, now, lucky)
            IN  /\ proc' = IF effects = <<>> THEN [proc EXCEPT ![p] = Idle]
                           ELSE [proc EXCEPT ![p].pc = "act", ![p].todo = effects]
                /\ decided' = IF j \in SealedJobs THEN decided \union {effects} ELSE decided
    BY <1>4 DEF Decide
  <2>0. PICK effects : effects = JobDoes(j, got, now, lucky)
    OBVIOUS
  <2>2. IF j \in SealedJobs THEN Seals(j, effects) ELSE Remains(j, effects)
    BY <1>2, <2>0, EveryJob
  <2>3. /\ proc' = IF effects = <<>> THEN [proc EXCEPT ![p] = Idle]
                   ELSE [proc EXCEPT ![p].pc = "act", ![p].todo = effects]
        /\ decided' = IF j \in SealedJobs THEN decided \union {effects} ELSE decided
    BY <2>0, <2>1
  <2>4. SessionOK(p)'
    <3>1. CASE effects = <<>>
      BY <1>1, <2>3, <3>1, IdleIsOK DEF Ends
    <3>2. CASE effects # <<>>
      <4>1. /\ proc'[p].todo = effects /\ proc'[p].pc = "act" /\ proc'[p].job = j
            /\ DOMAIN proc'[p] = {"job", "pc", "got", "todo"}
        BY <1>1, <2>3, <3>2 DEF SessionOK
      <4>2. CASE j \in SealedJobs
        <5>1. Seals(j, effects) /\ effects \in decided'
          BY <2>2, <2>3, <4>2
        <5>2. Rest(effects, effects, 0) /\ 0 \in 0..Len(effects)
              /\ \A k \in DOMAIN effects : k >= 1 /\ k \in Nat
          BY <5>1, RestOfAll, ListProperties DEF Seals
        <5>3. OnDisk(effects, 0)'
          BY <5>2 DEF OnDisk, Writes
        <5>4. Carries(p)'
          BY <4>1, <5>1, <5>2, <5>3 DEF Carries
        <5> QED BY <1>2, <3>2, <4>1, <4>2, <5>4 DEF SessionOK, Decide
      <4>3. CASE j \notin SealedJobs
        BY <1>2, <2>2, <3>2, <4>1, <4>3 DEF SessionOK, Decide
      <4> QED BY <4>2, <4>3
    <3> QED BY <3>1, <3>2
  <2>5. DOMAIN proc' = Procs /\ \A q \in Procs : proc'[q] = proc[q] \/ SessionOK(q)'
    BY <1>1, <2>3, <2>4
  <2>6. UNCHANGED <<scope, disk>>
    BY DEF Decide
  <2>7. decided \subseteq decided'
        /\ \A d \in decided' \ decided :
              \E i \in SealedJobs \intersect JobsIn(scope) : Seals(i, d)
    BY <1>2, <2>2, <2>3
  <2> HIDE DEF j, got
  <2> QED BY <2>5, <2>6, <2>7, InvSurvives, Zenon
<1> QED BY <1>3, <1>4

LEMMA TailRemains ==
    ASSUME NEW j, NEW t, Remains(j, t), t # <<>>
    PROVE  Remains(j, Tail(t)) /\ OpenEffect(j, Head(t)) /\ (Len(t) = 1 \/ Tail(t) # <<>>)
<1>1. /\ List(Tail(t)) /\ Len(t) >= 1 /\ Len(Tail(t)) = Len(t) - 1 /\ Head(t) = t[1]
      /\ \A k \in 1..Len(t) - 1 : Tail(t)[k] = t[k + 1]
      /\ Len(t) \in Nat /\ DOMAIN t = 1..Len(t)
  BY ListTail, ListProperties DEF Remains
<1>2. DOMAIN Tail(t) = 1..Len(t) - 1
  BY <1>1, ListProperties
<1>3. \A k \in 1..Len(t) - 1 : k + 1 \in DOMAIN t
  BY <1>1
<1>4. Remains(j, Tail(t)) /\ OpenEffect(j, Head(t))
  BY <1>1, <1>2, <1>3 DEF Remains
<1>5. Rest(t, t, 0)
  BY RestOfAll DEF Remains
<1> QED BY <1>4, <1>5, RestAdvances DEF Remains

\* What a process carries out next, and that it is where SessionOK says when it is
\* done with it.
LEMMA ProceedsIsOK ==
    ASSUME WorkspaceInv, NEW p \in Procs, proc[p].pc = "act", Proceeds(p),
           scope' = scope, decided' = decided,
           \A d \in decided : \A k \in Writes(d) :
              disk[d[k].file] = d[k].data => disk'[d[k].file] = d[k].data,
           Effect(p).do \in {"immutable", "replace"} =>
              disk'[Effect(p).file] = Effect(p).data
    PROVE  /\ SessionOK(p)' /\ DOMAIN proc' = Procs
           /\ \A q \in Procs : proc'[q] = proc[q] \/ SessionOK(q)'
<1> DEFINE j == proc[p].job
           t == proc[p].todo
<1>1. SessionOK(p) /\ DOMAIN proc = Procs
  BY DEF WorkspaceInv, Covers
<1>2. proc' = IF Len(t) = 1 THEN [proc EXCEPT ![p] = Idle] ELSE [proc EXCEPT ![p].todo = Tail(t)]
  BY DEF Proceeds
<1>3. SessionOK(p)'
  <2>1. CASE Len(t) = 1
    BY <1>1, <1>2, <2>1 DEF SessionOK, Idle
  <2>2. CASE Len(t) # 1
    <3>1. /\ proc'[p].todo = Tail(t) /\ proc'[p].pc = "act" /\ proc'[p].job = j
          /\ DOMAIN proc'[p] = {"job", "pc", "got", "todo"}
      BY <1>1, <1>2, <2>2 DEF SessionOK
    <3>2. CASE j \in SealedJobs
      <4>1. PICK d \in decided : \E m \in 0..Len(d) : Seals(j, d) /\ Rest(t, d, m) /\ OnDisk(d, m)
        BY <1>1, <3>2 DEF SessionOK, Carries
      <4>2. PICK m \in 0..Len(d) : Seals(j, d) /\ Rest(t, d, m) /\ OnDisk(d, m)
        BY <4>1
      <4>3. List(d) /\ m \in Nat /\ t # <<>>
        BY <1>1, <4>2 DEF Seals, SessionOK
      <4>4. /\ m + 1 \in DOMAIN d /\ m + 1 \in 0..Len(d) /\ Head(t) = d[m + 1]
            /\ Rest(Tail(t), d, m + 1) /\ Tail(t) # <<>>
        BY <2>2, <4>2, <4>3, RestAdvances
      <4>5. \A k \in Writes(d) : k \in Nat
        BY <4>3, ListProperties DEF Writes
      <4>6. OnDisk(d, m + 1)'
        <5>1. ASSUME NEW k \in Writes(d), k <= m + 1
              PROVE  disk'[d[k].file] = d[k].data
          <6>1. CASE k <= m
            BY <4>2, <6>1 DEF OnDisk
          <6>2. CASE ~(k <= m)
            <7>1. k = m + 1
              BY <4>3, <4>5, <5>1, <6>2
            <7> QED BY <7>1, <4>4 DEF Effect, Writes
          <6> QED BY <6>1, <6>2
        <5> QED BY <5>1 DEF OnDisk
      <4>7. Carries(p)'
        BY <3>1, <4>2, <4>4, <4>6 DEF Carries
      <4> QED BY <1>1, <3>1, <3>2, <4>4, <4>7 DEF SessionOK
    <3>3. CASE j \notin SealedJobs
      BY <1>1, <2>2, <3>1, <3>3, TailRemains DEF SessionOK
    <3> QED BY <3>2, <3>3
  <2> QED BY <2>1, <2>2
<1> QED BY <1>1, <1>2, <1>3

LEMMA CheckKeepsInv ==
    ASSUME WorkspaceInv, NEW p \in Procs, CheckExpected(p)
    PROVE  WorkspaceInv'
<1>1. CASE Proceeds(p)
  <2>1. Effect(p).do = "expect" /\ proc[p].pc = "act"
    BY DEF CheckExpected, Acting, Effect
  <2>2. DOMAIN proc' = Procs /\ \A q \in Procs : proc'[q] = proc[q] \/ SessionOK(q)'
    BY <1>1, <2>1, ProceedsIsOK DEF CheckExpected
  <2> QED BY <2>2, SessionsOnly DEF CheckExpected
<1>2. CASE Ends(p)
  BY <1>2, IdleIsOK, SessionsOnly DEF CheckExpected
<1> QED BY <1>1, <1>2 DEF CheckExpected

LEMMA GoesWhereItMay ==
    ASSUME WorkspaceInv, NEW p \in Procs, proc[p].pc = "act", Effect(p).do = "go_on"
    PROVE  GoesOnTo(proc[p].job, Effect(p))
<1> DEFINE j == proc[p].job
           t == proc[p].todo
<1>1. SessionOK(p) /\ t # <<>> /\ Head(t).do = "go_on"
  BY DEF WorkspaceInv, SessionOK, Effect
<1>2. CASE j \in SealedJobs
  <2>1. PICK d \in decided : \E m \in 0..Len(d) : Seals(j, d) /\ Rest(t, d, m)
    BY <1>1, <1>2 DEF SessionOK, Carries
  <2>2. PICK k \in DOMAIN d : Head(t) = d[k]
    BY <1>1, <2>1, RestAdvances DEF Seals
  <2> QED BY <1>1, <2>1, <2>2 DEF Seals, Quiet, Keeps, Effect
<1>3. CASE j \notin SealedJobs
  <2>1. OpenEffect(j, Head(t))
    BY <1>1, <1>3, TailRemains DEF SessionOK
  <2> QED BY <1>1, <2>1 DEF OpenEffect, Quiet, Effect
<1> QED BY <1>2, <1>3

LEMMA GoesOnKeepsInv ==
    ASSUME WorkspaceInv, NEW p \in Procs, GoesOn(p)
    PROVE  WorkspaceInv'
<1> DEFINE j == proc[p].job
           t == proc[p].todo
<1>1. SessionOK(p) /\ DOMAIN proc = Procs /\ scope \in DOMAIN Scopes
  BY DEF WorkspaceInv, Covers
<1>2. t # <<>> /\ j \in JobsIn(scope) /\ Head(t).do = "go_on"
  BY <1>1 DEF SessionOK, GoesOn, Acting
<1>3. GoesOnTo(j, Head(t))
  BY GoesWhereItMay DEF GoesOn, Acting, Effect
<1>4. Head(t).file \in JobsIn(scope)
  BY <1>1, <1>2, <1>3, ScopeIsWhole
<1>5. /\ DOMAIN proc' = Procs /\ \A q \in Procs \ {p} : proc'[q] = proc[q]
      /\ DOMAIN proc'[p] = DOMAIN proc[p] /\ proc'[p].job = Head(t).file
      /\ proc'[p].pc = "read"
  BY <1>1 DEF GoesOn, Effect, SessionOK
<1>6. SessionOK(p)'
  BY <1>1, <1>4, <1>5 DEF SessionOK, GoesOn
<1> QED BY <1>5, <1>6, SessionsOnly DEF GoesOn

\* A file of no sealed job changes.
LEMMA OtherFile ==
    ASSUME WorkspaceInv, NEW f, NEW c, disk' = [disk EXCEPT ![f] = c],
           \A i \in SealedJobs \intersect JobsIn(scope) : f \notin JobWrites(i)
    PROVE  /\ DOMAIN disk' = DOMAIN disk
           /\ \A d \in decided : \A k \in Writes(d) :
                 disk[d[k].file] = d[k].data => disk'[d[k].file] = d[k].data
           /\ \A i \in SealedJobs \intersect JobsIn(scope) :
                 disk'[FinalFile(i)] = disk[FinalFile(i)]
<1>1. \A d \in decided : \A k \in Writes(d) : d[k].file \in DOMAIN disk /\ d[k].file # f
  BY DecidedFiles
<1>2. \A i \in SealedJobs \intersect JobsIn(scope) : FinalFile(i) \in JobWrites(i)
  BY DEF JobWrites
<1>3. \A i \in SealedJobs \intersect JobsIn(scope) : FinalFile(i) \in DOMAIN disk /\ FinalFile(i) # f
  BY <1>2 DEF WorkspaceInv, Covers
<1> QED BY <1>1, <1>3

\* What an open job writes is of no sealed job.
LEMMA OpenFile ==
    ASSUME WorkspaceInv, NEW p \in Procs, proc[p].pc = "act", proc[p].job \notin SealedJobs,
           Effect(p).do \in {"immutable", "replace"}
    PROVE  /\ Effect(p).file \in DOMAIN disk
           /\ \A i \in SealedJobs \intersect JobsIn(scope) : Effect(p).file \notin JobWrites(i)
<1> DEFINE j == proc[p].job
<1>1. SessionOK(p) /\ scope \in DOMAIN Scopes
  BY DEF WorkspaceInv, Covers
<1>2. Remains(j, proc[p].todo) /\ proc[p].todo # <<>> /\ j \in JobsIn(scope)
  BY <1>1 DEF SessionOK
<1>3. OpenEffect(j, Effect(p))
  BY <1>2, TailRemains DEF Effect
<1>4. Effect(p).file \in OpenFiles(j)
  BY <1>3 DEF OpenEffect, Quiet, GoesOnTo
<1>5. Effect(p).file \in JobWrites(j) /\ j \in Jobs
  BY <1>1, <1>2, <1>4, ScopeIsWhole DEF JobWrites
<1>6. \A i \in SealedJobs : JobWrites(i) \intersect JobWrites(j) = {}
  BY <1>5, OutputsAssumption
<1> QED BY <1>2, <1>5, <1>6 DEF WorkspaceInv, Covers

LEMMA ChangesDisk ==
    ASSUME NEW f, NEW c, NEW q, Changes(f, c, q)
    PROVE  disk' = [disk EXCEPT ![f] = c] /\ (f \in DOMAIN disk => disk'[f] = c)
BY DEF Changes

\* An open job writes, over what is there or where nothing is.
LEMMA OpenWriteKeepsInv ==
    ASSUME WorkspaceInv, NEW p \in Procs, proc[p].pc = "act", proc[p].job \notin SealedJobs,
           Effect(p).do \in {"immutable", "replace"},
           Changes(Effect(p).file, Effect(p).data, p), Proceeds(p), UNCHANGED <<scope, decided>>
    PROVE  WorkspaceInv'
<1> DEFINE f == Effect(p).file
           c == Effect(p).data
<1>1. disk' = [disk EXCEPT ![f] = c] /\ disk'[f] = c
  BY OpenFile, ChangesDisk
<1>2. \A i \in SealedJobs \intersect JobsIn(scope) : f \notin JobWrites(i)
  BY OpenFile
<1>3. /\ DOMAIN disk' = DOMAIN disk
      /\ \A d \in decided : \A k \in Writes(d) :
            disk[d[k].file] = d[k].data => disk'[d[k].file] = d[k].data
      /\ \A i \in SealedJobs \intersect JobsIn(scope) :
            disk'[FinalFile(i)] = disk[FinalFile(i)]
  BY <1>1, <1>2, OtherFile
<1>4. DOMAIN proc' = Procs /\ \A q \in Procs : proc'[q] = proc[q] \/ SessionOK(q)'
  BY <1>1, <1>3, ProceedsIsOK
<1> QED BY <1>3, <1>4, InvSurvives

\* A sealed job writes where nothing is.
LEMMA SealedWriteKeepsInv ==
    ASSUME WorkspaceInv, NEW p \in Procs, proc[p].pc = "act", proc[p].job \in SealedJobs,
           Effect(p).do \in {"immutable", "replace"}, disk[Effect(p).file] = NoFile,
           Changes(Effect(p).file, Effect(p).data, p), Proceeds(p), UNCHANGED <<scope, decided>>
    PROVE  WorkspaceInv'
<1> DEFINE j == proc[p].job
           t == proc[p].todo
           f == Effect(p).file
           c == Effect(p).data
<1>1. SessionOK(p)
  BY DEF WorkspaceInv
<1>2. PICK d \in decided : \E m \in 0..Len(d) : Seals(j, d) /\ Rest(t, d, m) /\ OnDisk(d, m)
  BY <1>1 DEF SessionOK, Carries
<1>3. PICK m \in 0..Len(d) : Seals(j, d) /\ Rest(t, d, m) /\ OnDisk(d, m)
  BY <1>2
<1>4. List(d) /\ m \in Nat /\ t # <<>>
  BY <1>1, <1>3 DEF Seals, SessionOK
<1>5. m + 1 \in DOMAIN d /\ Effect(p) = d[m + 1]
  BY <1>3, <1>4, RestAdvances DEF Effect
<1>6. m + 1 \in Writes(d) /\ d[m + 1].file = f /\ d[m + 1].data = c
  BY <1>5 DEF Writes
<1>7. f \in DOMAIN disk
  BY <1>6, DecidedFiles
<1>8. disk' = [disk EXCEPT ![f] = c] /\ disk'[f] = c /\ DOMAIN disk' = DOMAIN disk
  BY <1>7, ChangesDisk
<1>9. ASSUME NEW e \in decided, NEW k \in Writes(e), disk[e[k].file] = e[k].data
      PROVE  disk'[e[k].file] = e[k].data
  <2>1. e[k].file \in DOMAIN disk /\ e[k].file # f
    BY <1>9, DecidedFiles
  <2> QED BY <1>8, <1>9, <2>1
<1>10. DOMAIN proc' = Procs /\ \A q \in Procs : proc'[q] = proc[q] \/ SessionOK(q)'
  BY <1>8, <1>9, ProceedsIsOK
<1>11. ASSUME NEW i \in SealedJobs \intersect JobsIn(scope), FinalFile(i) = f
       PROVE  Closes(d, f) /\ Delivered(d)'
  <2>1. \A n \in Writes(d) : n # m + 1 => n < m + 1
    BY <1>3, <1>6, <1>11, FinalIsLast
  <2>2. \A n \in Writes(d) : n \in Nat
    BY <1>4, ListProperties DEF Writes
  <2>3. ASSUME NEW n \in Writes(d), n # m + 1
        PROVE  disk'[d[n].file] = d[n].data
    <3>1. n <= m
      BY <1>4, <2>1, <2>2, <2>3
    <3> QED BY <1>3, <1>9, <3>1 DEF OnDisk
  <2>4. Closes(d, f)
    BY <1>4, <1>6, <2>1, <2>2 DEF Closes
  <2> QED BY <1>6, <1>8, <2>3, <2>4 DEF Delivered
<1>12. ASSUME NEW i \in SealedJobs \intersect JobsIn(scope)
       PROVE  disk'[FinalFile(i)] = disk[FinalFile(i)]
              \/ \E e \in decided' : Closes(e, FinalFile(i)) /\ Delivered(e)'
  <2>1. CASE FinalFile(i) = f
    BY <2>1, <1>2, <1>11
  <2>2. CASE FinalFile(i) # f
    <3>1. FinalFile(i) \in DOMAIN disk
      BY DEF JobWrites, WorkspaceInv, Covers
    <3> QED BY <3>1, <2>2, <1>8
  <2> QED BY <2>1, <2>2
<1> QED BY <1>8, <1>9, <1>10, <1>12, InvSurvives

LEMMA ImmutableKeepsInv ==
    ASSUME WorkspaceInv, NEW p \in Procs, WriteImmutable(p)
    PROVE  WorkspaceInv'
<1>1. proc[p].pc = "act" /\ Effect(p).do \in {"immutable", "replace"}
  BY DEF WriteImmutable, Acting, Effect
<1>2. CASE /\ disk[Effect(p).file] = NoFile
           /\ Changes(Effect(p).file, Effect(p).data, p)
           /\ Proceeds(p)
  BY <1>1, <1>2, SealedWriteKeepsInv, OpenWriteKeepsInv DEF WriteImmutable
<1>3. CASE disk[Effect(p).file] = Effect(p).data /\ Proceeds(p) /\ UNCHANGED <<disk, torn>>
  <2>1. DOMAIN proc' = Procs /\ \A q \in Procs : proc'[q] = proc[q] \/ SessionOK(q)'
    BY <1>1, <1>3, ProceedsIsOK DEF WriteImmutable
  <2> QED BY <1>3, <2>1, SessionsOnly DEF WriteImmutable
<1>4. CASE StopsShort(p) /\ UNCHANGED disk
  BY <1>4, IdleIsOK, SessionsOnly DEF WriteImmutable, StopsShort
<1> QED BY <1>2, <1>3, <1>4 DEF WriteImmutable

LEMMA ReplaceKeepsInv ==
    ASSUME WorkspaceInv, NEW p \in Procs, WriteReplace(p)
    PROVE  WorkspaceInv'
<1> DEFINE j == proc[p].job
           t == proc[p].todo
<1>1. proc[p].pc = "act" /\ Effect(p).do = "replace"
  BY DEF WriteReplace, Acting, Effect
<1>2. SessionOK(p)
  BY DEF WorkspaceInv
<1>3. j \notin SealedJobs
  <2> SUFFICES ASSUME j \in SealedJobs PROVE FALSE
    OBVIOUS
  <2>1. PICK d \in decided : \E m \in 0..Len(d) : Seals(j, d) /\ Rest(t, d, m)
    BY <1>1, <1>2 DEF SessionOK, Carries
  <2>2. PICK k \in DOMAIN d : Head(t) = d[k]
    BY <1>1, <1>2, <2>1, RestAdvances DEF Seals, SessionOK
  <2> QED BY <1>1, <2>1, <2>2 DEF Seals, Quiet, Keeps, GoesOnTo, Effect
<1> QED BY <1>1, <1>3, OpenWriteKeepsInv DEF WriteReplace

LEMMA EditKeepsInv ==
    ASSUME WorkspaceInv, NEW e \in Exchanges[scope], Edit(e.file, e.data)
    PROVE  WorkspaceInv'
<1>1. scope \in DOMAIN Scopes
  BY DEF WorkspaceInv, Covers
<1>2. \A i \in SealedJobs \intersect JobsIn(scope) : e.file \notin JobWrites(i)
  BY <1>1, ScopesAssumption
<1>3. disk' = [disk EXCEPT ![e.file] = e.data]
  BY ChangesDisk DEF Edit
<1>4. /\ DOMAIN disk' = DOMAIN disk
      /\ \A d \in decided : \A k \in Writes(d) :
            disk[d[k].file] = d[k].data => disk'[d[k].file] = d[k].data
      /\ \A i \in SealedJobs \intersect JobsIn(scope) :
            disk'[FinalFile(i)] = disk[FinalFile(i)]
  BY <1>2, <1>3, OtherFile
<1>5. DOMAIN proc' = Procs /\ \A q \in Procs : proc'[q] = proc[q]
  BY DEF Edit, WorkspaceInv, Covers
<1> QED BY <1>4, <1>5, InvSurvives DEF Edit

LEMMA WorkspaceNextPreserves == WorkspaceInv /\ [Next]_vars => WorkspaceInv'
<1> SUFFICES ASSUME WorkspaceInv, [Next]_vars PROVE WorkspaceInv'
  OBVIOUS
<1>1. ASSUME NEW p \in Procs, Step(p)
      PROVE  WorkspaceInv'
  <2>1. CASE \E j \in Scopes[scope].jobs[p] : Start(p, j)
    BY <2>1, StartKeepsInv
  <2>2. CASE ReadNext(p)
    BY <2>2, ReadKeepsInv
  <2>3. CASE Decide(p)
    BY <2>3, DecideKeepsInv
  <2>4. CASE WriteReplace(p)
    BY <2>4, ReplaceKeepsInv
  <2>5. CASE WriteImmutable(p)
    BY <2>5, ImmutableKeepsInv
  <2>6. CASE CheckExpected(p)
    BY <2>6, CheckKeepsInv
  <2>7. CASE GoesOn(p)
    BY <2>7, GoesOnKeepsInv
  <2>8. CASE Refused(p)
    BY <2>8, IdleIsOK, SessionsOnly DEF Refused
  <2>9. CASE Kill(p)
    <3>1. Ends(p) /\ UNCHANGED <<scope, disk, decided>>
      BY <2>9 DEF Kill, StopsShort
    <3> QED BY <3>1, IdleIsOK, SessionsOnly
  <2> QED BY <1>1, <2>1, <2>2, <2>3, <2>4, <2>5, <2>6, <2>7, <2>8, <2>9 DEF Step
<1>2. ASSUME NEW e \in Exchanges[scope], Edit(e.file, e.data)
      PROVE  WorkspaceInv'
  BY <1>2, EditKeepsInv
<1>3. CASE UNCHANGED vars
  <2>1. UNCHANGED <<scope, disk, decided>> /\ proc' = proc
    BY <1>3 DEF vars
  <2> QED BY <2>1, SessionsOnly DEF WorkspaceInv, Covers
<1> QED BY <1>1, <1>2, <1>3 DEF Next

LEMMA WorkspaceInvHolds == Spec => []WorkspaceInv
BY WorkspaceInitEstablishes, WorkspaceNextPreserves, PTL DEF Spec

\* Once the file that a job writes last is there, all that a single run of it writes
\* is there with it, for every job of the workspace that goes through
\* write_immutable_bytes with all of its outputs, whatever the processes, their number,
\* what they read, and how often they are killed.
THEOREM SetsAreOfOneRun == Spec => []SetOfOneRun
<1>1. WorkspaceInv => SetOfOneRun
  <2> SUFFICES ASSUME WorkspaceInv, NEW d \in decided, NEW f \in DOMAIN disk,
                      Closes(d, f), disk[f] # NoFile
               PROVE  \E e \in decided :
                         Closes(e, f) /\ \A k \in Writes(e) : disk[e[k].file] = e[k].data
    BY DEF SetOfOneRun
  <2>1. PICK j \in SealedJobs \intersect JobsIn(scope) : Seals(j, d)
    BY DEF WorkspaceInv
  <2>2. PICK n \in Writes(d) : d[n].file = f /\ \A k \in Writes(d) : k <= n
    BY DEF Closes
  <2>3. PICK l \in Writes(d) : d[l].file = FinalFile(j) /\ \A k \in Writes(d) : k # l => k < l
    BY <2>1, <2>2 DEF Seals, EndsIn
  <2>4. l \in Int /\ n \in Int
    BY <2>1, ListProperties DEF Seals, Writes
  <2>5. f = FinalFile(j)
    BY <2>2, <2>3, <2>4
  <2>6. \E e \in decided : Closes(e, FinalFile(j)) /\ Delivered(e)
    BY <2>5 DEF WorkspaceInv
  <2> QED BY <2>5, <2>6 DEF Delivered
<1> QED BY <1>1, WorkspaceInvHolds, PTL

LEMMA NoneIsNoJob == "none" \notin Jobs
BY JobNames DEF OpenJobs, SealedCommands, SealedScripts

\* What a step does to the counters, to what disturbed the runs and to a process.
StepShape ==
    /\ scope' = scope
    /\ edits' = edits \/ (edits < Scopes[scope].maxEdits /\ edits' = edits + 1)
    /\ kills' = kills \/ (kills < Scopes[scope].maxKills /\ kills' = kills + 1)
    /\ torn' \in {torn, torn \union {"overlap"}, torn \union {"cut"}}
    /\ \A q \in Procs : \/ proc'[q] = proc[q] \/ proc'[q] = Idle
                         \/ proc'[q].pc # "idle"

LEMMA StepHasShape ==
    ASSUME TypeOK, WorkspaceInv, [Next]_vars
    PROVE  StepShape
<1>1. /\ DOMAIN proc = Procs
      /\ \A p \in Procs : DOMAIN proc[p] = {"job", "pc", "got", "todo"}
  BY DEF WorkspaceInv, Covers, SessionOK
<1>2. ASSUME NEW p \in Procs, Step(p)
      PROVE  StepShape
  <2>1. CASE \E j \in Scopes[scope].jobs[p] : Start(p, j)
    BY <1>1, <2>1 DEF StepShape, Start
  <2>2. CASE ReadNext(p)
    BY <1>1, <2>2 DEF StepShape, ReadNext
  <2>3. CASE Decide(p)
    <3>1. \/ Ends(p) \/ \E t : proc' = [proc EXCEPT ![p].pc = "act", ![p].todo = t]
      BY <2>3 DEF Decide, Ends
    <3> QED BY <1>1, <2>3, <3>1 DEF StepShape, Decide, Ends
  <2>4. CASE WriteReplace(p)
    BY <1>1, <2>4 DEF StepShape, WriteReplace, Changes, Proceeds, Acting
  <2>5. CASE WriteImmutable(p)
    BY <1>1, <2>5 DEF StepShape, WriteImmutable, Changes, Proceeds, StopsShort, Ends, Acting
  <2>6. CASE CheckExpected(p)
    BY <1>1, <2>6 DEF StepShape, CheckExpected, Proceeds, Ends, Acting
  <2>7. CASE GoesOn(p)
    BY <1>1, <2>7 DEF StepShape, GoesOn, Acting
  <2>8. CASE Refused(p)
    BY <1>1, <2>8 DEF StepShape, Refused, Ends
  <2>9. CASE Kill(p)
    BY <1>1, <2>9 DEF StepShape, Kill, StopsShort, Ends
  <2> QED BY <1>2, <2>1, <2>2, <2>3, <2>4, <2>5, <2>6, <2>7, <2>8, <2>9 DEF Step
<1>3. ASSUME NEW e \in Exchanges[scope], Edit(e.file, e.data)
      PROVE  StepShape
  BY <1>1, <1>3 DEF StepShape, Edit, Changes
<1>4. CASE UNCHANGED vars
  BY <1>4 DEF StepShape, vars
<1> QED BY <1>2, <1>3, <1>4 DEF Next

\* The workspace keeps to its types: a process has a job while it is not idle and
\* something left to do while it acts, and nobody exceeds the bounds of the scope.
THEOREM WorkspaceTypeCorrect == Spec => []TypeOK
<1>1. Init => TypeOK
  BY ScopesAssumption DEF Init, TypeOK, Idle
<1>2. ASSUME TypeOK, WorkspaceInv, [Next]_vars
      PROVE  TypeOK'
  <2>1. /\ scope \in DOMAIN Scopes /\ StepShape
        /\ Scopes[scope].maxEdits \in Nat /\ Scopes[scope].maxKills \in Nat
    BY <1>2, StepHasShape, ScopesAssumption DEF TypeOK
  <2>2. WorkspaceInv'
    BY <1>2, WorkspaceNextPreserves
  <2>3. \A p \in Procs : proc'[p].job \in JobsIn(scope') => proc'[p].job # "none"
    BY <2>2, ScopeIsWhole, NoneIsNoJob DEF WorkspaceInv, Covers
  <2>4. edits' \in 0..Scopes[scope'].maxEdits /\ kills' \in 0..Scopes[scope'].maxKills
    BY <1>2, <2>1 DEF TypeOK, StepShape
  <2>5. torn' \subseteq {"mixed", "overlap", "cut"}
    BY <1>2, <2>1 DEF TypeOK, StepShape
  <2>6. ASSUME NEW p \in Procs
        PROVE  /\ proc'[p].pc \in {"idle", "read", "act"}
               /\ proc'[p].pc = "idle" <=> proc'[p].job = "none"
               /\ proc'[p].pc = "act" => proc'[p].todo # <<>>
    <3>1. SessionOK(p)'
      BY <2>2 DEF WorkspaceInv
    <3>2. proc'[p].pc = "idle" => proc'[p].job = "none"
      BY <1>2, <2>1 DEF TypeOK, StepShape, Idle
    <3> QED BY <2>3, <3>1, <3>2 DEF SessionOK
  <2> QED BY <2>1, <2>4, <2>5, <2>6 DEF TypeOK, StepShape
<1> QED BY <1>1, <1>2, WorkspaceInvHolds, PTL DEF Spec

------------------------------------------------------------------------------
(* One process moves at a time; what it writes is its job's.               *)
WritesNow(p) ==
    /\ proc[p].pc = "act" /\ Effect(p).do \in {"immutable", "replace"}
    /\ Changes(Effect(p).file, Effect(p).data, p) /\ Proceeds(p)

ReadsNow(p) ==
    LET k == Cardinality(DOMAIN proc[p].got) + 1
        reads == Reads[proc[p].job]
    IN  /\ proc[p].pc = "read" /\ k <= Len(reads)
        /\ proc'[p].pc = "read" /\ proc'[p].job = proc[p].job
        /\ proc'[p].got = And(proc[p].got, reads[k].as, disk[reads[k].file])

DecidesNow(p) ==
    LET j == proc[p].job
    IN  /\ proc[p].pc = "read" /\ proc'[p].pc = "act"
        /\ Cardinality(DOMAIN proc[p].got) = Len(Reads[j])
        /\ ~\E a \in DOMAIN proc[p].got \ Optional[j] : proc[p].got[a] = NoFile
        /\ proc'[p].job = j /\ proc'[p].got = proc[p].got
        /\ \E now \in Clock[j], lucky \in Luck[j] :
              proc'[p].todo = JobDoes(j, proc[p].got, now, lucky)

\* The process goes on to another job.
TurnsNow(p) ==
    /\ proc[p].pc = "act" /\ Effect(p).do = "go_on" /\ proc'[p].pc = "read"
    /\ proc'[p].job = Effect(p).file /\ proc'[p].got = proc[p].got

StartsNow(p) ==
    \E j : Start(p, j) /\ proc'[p] = [job |-> j, pc |-> "read", got |-> NoGot, todo |-> <<>>]

Moves(p) ==
    \/ disk' = disk /\ \/ proc'[p] = Idle \/ StartsNow(p) \/ ReadsNow(p) \/ DecidesNow(p)
                       \/ TurnsNow(p)
                       \/ proc[p].pc = "act" /\ Proceeds(p) /\ disk[Effect(p).file]
                             \in {NoFile, Effect(p).data} /\ Effect(p).do = "expect"
                       \/ proc[p].pc = "act" /\ Proceeds(p) /\ disk[Effect(p).file]
                             = Effect(p).data /\ Effect(p).do = "immutable"
    \/ WritesNow(p)

LEMMA OneMoves ==
    ASSUME WorkspaceInv, NEW p \in Procs, Step(p)
    PROVE  /\ scope' = scope /\ torn \subseteq torn'
           /\ \A q \in Procs \ {p} : proc'[q] = proc[q]
           /\ Moves(p)
<1> DEFINE Others == \A q \in Procs \ {p} : proc'[q] = proc[q]
           Rest1 == scope' = scope /\ torn \subseteq torn'
<1>1. /\ DOMAIN proc = Procs /\ DOMAIN proc[p] = {"job", "pc", "got", "todo"}
  BY DEF WorkspaceInv, Covers, SessionOK
<1>2. CASE \E j \in Scopes[scope].jobs[p] : Start(p, j)
  <2>1. PICK j : Start(p, j)
    BY <1>2
  <2>2. proc'[p] = [job |-> j, pc |-> "read", got |-> NoGot, todo |-> <<>>] /\ disk' = disk
    BY <1>1, <2>1 DEF Start
  <2>3. Moves(p)
    BY <2>1, <2>2 DEF Moves, StartsNow
  <2>4. Others /\ Rest1
    BY <1>1, <2>1 DEF Start
  <2> QED BY <2>3, <2>4
<1>3. CASE ReadNext(p)
  <2>1. ReadsNow(p) /\ disk' = disk
    BY <1>1, <1>3 DEF ReadNext, ReadsNow
  <2>2. Others /\ Rest1
    BY <1>1, <1>3 DEF ReadNext
  <2> QED BY <2>1, <2>2 DEF Moves
<1>4. CASE Decide(p)
  <2>1. Others /\ Rest1 /\ disk' = disk
    <3>1. \/ Ends(p) \/ \E t : proc' = [proc EXCEPT ![p].pc = "act", ![p].todo = t]
      BY <1>4 DEF Decide, Ends
    <3> QED BY <1>1, <1>4, <3>1 DEF Decide, Ends
  <2>2. CASE Ends(p)
    BY <1>1, <2>1, <2>2 DEF Moves, Ends
  <2>3. CASE ~Ends(p)
    <3>1. DecidesNow(p)
      BY <1>1, <1>4, <2>3 DEF Decide, DecidesNow, Ends
    <3> QED BY <2>1, <3>1 DEF Moves
  <2> QED BY <2>2, <2>3
<1>5. CASE WriteReplace(p)
  <2>1. WritesNow(p)
    BY <1>5 DEF WriteReplace, WritesNow, Acting, Effect
  <2>2. Others /\ Rest1
    BY <1>1, <1>5 DEF WriteReplace, Changes, Proceeds
  <2> QED BY <2>1, <2>2 DEF Moves
<1>6. CASE WriteImmutable(p)
  <2>1. Others /\ Rest1
    BY <1>1, <1>6 DEF WriteImmutable, Changes, Proceeds, StopsShort, Ends
  <2>2. proc[p].pc = "act" /\ Effect(p).do = "immutable"
    BY <1>6 DEF WriteImmutable, Acting, Effect
  <2>3. Moves(p)
    <3>1. CASE /\ disk[Effect(p).file] = NoFile
               /\ Changes(Effect(p).file, Effect(p).data, p)
               /\ Proceeds(p)
      BY <2>2, <3>1 DEF Moves, WritesNow
    <3>2. CASE disk[Effect(p).file] = Effect(p).data /\ Proceeds(p) /\ UNCHANGED <<disk, torn>>
      BY <2>2, <3>2 DEF Moves
    <3>3. CASE StopsShort(p) /\ UNCHANGED disk
      BY <1>1, <3>3 DEF Moves, StopsShort, Ends
    <3> QED BY <1>6, <3>1, <3>2, <3>3 DEF WriteImmutable
  <2> QED BY <2>1, <2>3
<1>7. CASE CheckExpected(p)
  <2>1. Others /\ Rest1 /\ disk' = disk
    BY <1>1, <1>7 DEF CheckExpected, Proceeds, Ends
  <2>2. proc[p].pc = "act" /\ Effect(p).do = "expect"
    BY <1>7 DEF CheckExpected, Acting, Effect
  <2>3. CASE disk[Effect(p).file] \in {NoFile, Effect(p).data}
    BY <1>7, <2>1, <2>2, <2>3 DEF Moves, CheckExpected
  <2>4. CASE disk[Effect(p).file] \notin {NoFile, Effect(p).data}
    BY <1>1, <1>7, <2>1, <2>4 DEF Moves, CheckExpected, Ends
  <2> QED BY <2>1, <2>3, <2>4
<1>8. CASE GoesOn(p)
  <2>1. TurnsNow(p) /\ disk' = disk
    BY <1>1, <1>8 DEF GoesOn, TurnsNow, Acting, Effect
  <2>2. Others /\ Rest1
    BY <1>1, <1>8 DEF GoesOn
  <2> QED BY <2>1, <2>2 DEF Moves
<1>9. CASE Refused(p) \/ Kill(p)
  <2>1. Ends(p) /\ disk' = disk /\ Rest1
    BY <1>9 DEF Refused, Kill, StopsShort
  <2>2. Others /\ proc'[p] = Idle
    BY <1>1, <2>1 DEF Ends
  <2> QED BY <2>1, <2>2 DEF Moves
<1> QED BY <1>2, <1>3, <1>4, <1>5, <1>6, <1>7, <1>8, <1>9 DEF Step

LEMMA WritesItsOwn ==
    ASSUME WorkspaceInv, NEW p \in Procs, proc[p].pc = "act",
           Effect(p).do \in {"immutable", "replace"}
    PROVE  /\ proc[p].job \in Jobs /\ proc[p].job \in JobsIn(scope)
           /\ Effect(p).file \in JobWrites(proc[p].job)
           /\ Effect(p).file \in DOMAIN disk
<1> DEFINE j == proc[p].job
           t == proc[p].todo
<1>1. SessionOK(p) /\ scope \in DOMAIN Scopes
  BY DEF WorkspaceInv, Covers
<1>2. t # <<>> /\ j \in JobsIn(scope) /\ j \in Jobs
  BY <1>1, ScopeIsWhole DEF SessionOK
<1>3. Effect(p).file \in JobWrites(j)
  <2>1. CASE j \in SealedJobs
    <3>1. PICK d \in decided : \E m \in 0..Len(d) : Seals(j, d) /\ Rest(t, d, m)
      BY <1>1, <2>1 DEF SessionOK, Carries
    <3>2. PICK k \in DOMAIN d : Head(t) = d[k]
      BY <1>2, <3>1, RestAdvances DEF Seals
    <3>3. k \in Writes(d)
      BY <3>2 DEF Writes, Effect
    <3>4. Keeps(d[k], JobWrites(j))
      BY <2>1, <3>1, <3>3, WritesAreKept DEF JobWrites
    <3> QED BY <3>2, <3>4 DEF Keeps, Effect
  <2>2. CASE j \notin SealedJobs
    <3>1. OpenEffect(j, Effect(p))
      BY <1>1, <1>2, <2>2, TailRemains DEF SessionOK, Effect
    <3> QED BY <2>2, <3>1 DEF OpenEffect, Quiet, GoesOnTo, JobWrites
  <2> QED BY <2>1, <2>2
<1> QED BY <1>2, <1>3 DEF WorkspaceInv, Covers

------------------------------------------------------------------------------
(* Labels stay.                                                            *)
Sessions == {"annotate", "reannotate", "annotate_other"}

Grows(old, new) ==
    \A x \in DOMAIN LabelsOf(old) :
        /\ x \in DOMAIN LabelsOf(new)
        /\ LabelsOf(old)[x] = "by_hand" => LabelsOf(new)[x] = "by_hand"

Legible(content) == content = NoFile \/ "labels" \in DOMAIN content

\* Each write of t adds to the labels that are there when it takes place, if content
\* is what there is now.
Climbs(t, content) ==
    \A k \in DOMAIN t : t[k].do # "refuse" =>
        /\ t[k].file = "progress"
        /\ t[k].do \in {"immutable", "replace"} =>
              /\ Legible(t[k].data)
              /\ Grows(IF k = 1 THEN content ELSE t[k - 1].data, t[k].data)

\* What a session has read is what there is.
Loaded(p) ==
    /\ DOMAIN proc[p].got \in {{}, {"queue"}, {"queue", "progress"}}
    /\ "progress" \in DOMAIN proc[p].got => proc[p].got["progress"] = disk["progress"]

LabelsOK(p) ==
    /\ proc[p].pc = "read" /\ proc[p].job \in Sessions => Loaded(p)
    /\ proc[p].pc = "act" /\ proc[p].job \in LabelJobs => Climbs(proc[p].todo, disk["progress"])

LabelInv ==
    "progress" \in DOMAIN disk /\ "overlap" \notin torn =>
        Legible(disk["progress"]) /\ \A p \in Procs : LabelsOK(p)

LEMMA NoneToGrow == \A c : Grows(NoFile, c) /\ Grows(c, c)
BY DEF Grows, LabelsOf, NoLabels


LEMMA LabelledGrows ==
    ASSUME NEW progress, "labels" \in DOMAIN progress, NEW A, NEW B, A \subseteq B
    PROVE  /\ Legible(Labelled(progress, A))
           /\ Grows(progress, Labelled(progress, A))
           /\ Grows(Labelled(progress, A), Labelled(progress, B))
<1> DEFINE L(questions) == [q \in questions \union DOMAIN progress.labels |->
                               IF q \in questions THEN "by_hand" ELSE progress.labels[q]]
<1>1. ASSUME NEW questions
      PROVE  /\ DOMAIN L(questions) = questions \union DOMAIN progress.labels
             /\ \A q \in DOMAIN L(questions) :
                   L(questions)[q] = IF q \in questions THEN "by_hand" ELSE progress.labels[q]
  OBVIOUS
<1>2. "labels" \notin DOMAIN NoFile
  BY DEF NoFile
<1>3. \A questions : /\ "labels" \in DOMAIN Labelled(progress, questions)
                     /\ Labelled(progress, questions).labels = L(questions)
  BY DEF Labelled
<1> HIDE DEF L
<1>4. \A questions : LabelsOf(Labelled(progress, questions)) = L(questions)
  BY <1>2, <1>3 DEF LabelsOf
<1>5. LabelsOf(progress) = progress.labels
  BY <1>2 DEF LabelsOf
<1>6. Grows(progress, Labelled(progress, A))
  <2> DEFINE new == L(A)
  <2>1. LabelsOf(Labelled(progress, A)) = new
    BY <1>4
  <2>2. \A x \in DOMAIN progress.labels :
            x \in DOMAIN new /\ (progress.labels[x] = "by_hand" => new[x] = "by_hand")
    BY <1>1
  <2> HIDE DEF new
  <2> QED BY <1>5, <2>1, <2>2 DEF Grows
<1>7. Grows(Labelled(progress, A), Labelled(progress, B))
  <2> DEFINE old == L(A)
             new == L(B)
  <2>1. LabelsOf(Labelled(progress, A)) = old /\ LabelsOf(Labelled(progress, B)) = new
    BY <1>4
  <2>2. /\ DOMAIN old = A \union DOMAIN progress.labels
        /\ \A x \in DOMAIN old : old[x] = IF x \in A THEN "by_hand" ELSE progress.labels[x]
    BY <1>1
  <2>3. /\ DOMAIN new = B \union DOMAIN progress.labels
        /\ \A x \in DOMAIN new : new[x] = IF x \in B THEN "by_hand" ELSE progress.labels[x]
    BY <1>1
  <2> HIDE DEF old, new
  <2>4. \A x \in DOMAIN old :
            x \in DOMAIN new /\ (old[x] = "by_hand" => new[x] = "by_hand")
    BY <2>2, <2>3
  <2> QED BY <2>1, <2>4 DEF Grows
<1> QED BY <1>3, <1>6, <1>7 DEF Legible

LEMMA QuestionsAreFew == \A targets \in SUBSET Questions : Cardinality(targets) \in Nat
<1>1. IsFiniteSet(1..2)
  <2>1. 1 \in Int /\ 2 \in Int
    OBVIOUS
  <2> QED BY <2>1, FS_Interval, Zenon
<1>2. Questions = 1..2
  BY DEF Questions
<1> QED BY <1>1, <1>2, FS_Subset, FS_CardinalityType

LEMMA SavesClimb ==
    ASSUME NEW progress, "labels" \in DOMAIN progress,
           NEW targets \in SUBSET Questions,
           NEW content \in {NoFile, progress}
    PROVE  Climbs(Saves(progress, targets), content)
<1>0. Cardinality(targets) \in Nat
  BY QuestionsAreFew
<1> DEFINE n == Cardinality(targets)
           first(k) == {q \in targets : Cardinality({r \in targets : r <= q}) <= k}
<1>1. /\ DOMAIN Saves(progress, targets) = 1..n
      /\ \A k \in 1..n : Saves(progress, targets)[k]
                           = Replace("progress", Labelled(progress, first(k)))
  BY DEF Saves
<1>2. \A k \in 1..n : Saves(progress, targets)[k].data = Labelled(progress, first(k))
  BY <1>1 DEF Replace
<1>3. \A k \in 1..n : k = 1 \/ k - 1 \in 1..n
  BY <1>0
<1>4. \A k \in 1..n : k # 1 => first(k - 1) \subseteq first(k)
  <2> SUFFICES ASSUME NEW k \in 1..n, k # 1, NEW q \in targets,
                      Cardinality({r \in targets : r <= q}) <= k - 1
               PROVE  Cardinality({r \in targets : r <= q}) <= k
    OBVIOUS
  <2> DEFINE R == {r \in targets : r <= q}
  <2>1. Cardinality(R) \in Nat
    BY QuestionsAreFew
  <2> HIDE DEF R
  <2> QED BY <2>1 DEF R
<1> HIDE DEF first
<1>5. \A c \in {NoFile, progress} : \A A : Grows(c, Labelled(progress, A))
  BY LabelledGrows, NoneToGrow
<1>6. ASSUME NEW k \in 1..n
      PROVE  /\ Legible(Labelled(progress, first(k)))
             /\ Grows(IF k = 1 THEN content ELSE Saves(progress, targets)[k - 1].data,
                      Labelled(progress, first(k)))
  <2>1. Legible(Labelled(progress, first(k)))
    BY LabelledGrows
  <2>2. CASE k = 1
    BY <1>5, <2>1, <2>2
  <2>3. CASE k # 1
    <3>1. Saves(progress, targets)[k - 1].data = Labelled(progress, first(k - 1))
      BY <1>2, <1>3, <2>3
    <3> QED BY <1>4, <2>1, <2>3, <3>1, LabelledGrows
  <2> QED BY <2>2, <2>3
<1> QED BY <1>1, <1>2, <1>6 DEF Climbs, Replace

LEMMA AnnotateClimbs ==
    ASSUME NEW g, Legible(g.progress), NEW annotator, NEW chosen \in {{}, {1}}
    PROVE  Climbs(Annotate(g, annotator, chosen), g.progress)
<1> DEFINE progress == IF g.progress = NoFile THEN Progress(g.queue, annotator, NoLabels)
                       ELSE g.progress
           targets == IF chosen = {} THEN Questions \ DOMAIN progress.labels ELSE chosen
<1>1. "labels" \in DOMAIN progress /\ g.progress \in {NoFile, progress}
  BY DEF Legible, Progress
<1>2. targets \in SUBSET Questions
  <2> HIDE DEF progress
  <2> QED BY DEF Questions
<1> HIDE DEF progress, targets
<1>3. Climbs(Saves(progress, targets), g.progress)
  BY <1>1, <1>2, SavesClimb
<1>4. Climbs(<<Refuse>>, g.progress)
  BY DEF Climbs, Refuse
<1>5. Annotate(g, annotator, chosen)
        = Provided(Continues(progress, g.queue, annotator), Saves(progress, targets))
  BY DEF Annotate, progress, targets
<1> QED BY <1>3, <1>4, <1>5 DEF Provided

LEMMA ImportClimbs ==
    ASSUME NEW g, NEW annotator, NEW content
    PROVE  Climbs(ImportLabels(g, annotator), content)
<1> DEFINE imported == ImportedProgress(g.queue, annotator)
           both == <<Expect("progress", imported), Replace("progress", imported)>>
<1>1. Legible(imported) /\ Grows(imported, imported)
  BY NoneToGrow DEF Legible, ImportedProgress, Progress
<1> HIDE DEF imported
<1>2. /\ DOMAIN both = {1, 2} /\ both[1].file = "progress" /\ both[2].file = "progress"
      /\ both[1].do = "expect" /\ both[1].data = imported /\ both[2].data = imported
  BY DEF Expect, Replace
<1> HIDE DEF both
<1>3. Climbs(both, content)
  BY <1>1, <1>2 DEF Climbs
<1>4. Climbs(<<Refuse>>, content)
  BY DEF Climbs, Refuse
<1> QED BY <1>3, <1>4 DEF ImportLabels, Provided, both, imported

\* One of the effects takes place: the rest climbs from what it leaves.
LEMMA ClimbsOn ==
    ASSUME NEW t, List(t), t # <<>>, NEW c, NEW d, Climbs(t, c),
           \/ Head(t).do \in {"immutable", "replace"} /\ d = Head(t).data
           \/ Head(t).do = "expect" /\ c \in {NoFile, Head(t).data} /\ d = c
    PROVE  Climbs(Tail(t), d)
<1>1. /\ List(Tail(t)) /\ Len(t) >= 1 /\ Len(Tail(t)) = Len(t) - 1 /\ Head(t) = t[1]
      /\ \A k \in 1..Len(t) - 1 : Tail(t)[k] = t[k + 1]
      /\ Len(t) \in Nat /\ DOMAIN t = 1..Len(t)
  BY ListTail, ListProperties
<1>2. DOMAIN Tail(t) = 1..Len(t) - 1
  BY <1>1, ListProperties
<1> SUFFICES ASSUME NEW k \in 1..Len(t) - 1, t[k + 1].do # "refuse"
             PROVE  /\ t[k + 1].file = "progress"
                    /\ t[k + 1].do \in {"immutable", "replace"} =>
                          /\ Legible(t[k + 1].data)
                          /\ Grows(IF k = 1 THEN d ELSE Tail(t)[k - 1].data, t[k + 1].data)
  BY <1>1, <1>2 DEF Climbs
<1>3. k + 1 \in DOMAIN t /\ k + 1 # 1 /\ (k + 1) - 1 = k
  BY <1>1
<1>4. /\ t[k + 1].file = "progress"
      /\ t[k + 1].do \in {"immutable", "replace"} =>
            Legible(t[k + 1].data) /\ Grows(t[k].data, t[k + 1].data)
  BY <1>3 DEF Climbs
<1>5. CASE k = 1
  BY <1>1, <1>4, <1>5, NoneToGrow
<1>6. CASE k # 1
  <2>1. k - 1 \in 1..Len(t) - 1 /\ (k - 1) + 1 = k
    BY <1>1, <1>6
  <2>2. Tail(t)[k - 1] = t[k]
    BY <1>1, <2>1
  <2> QED BY <1>4, <1>6, <2>2
<1> QED BY <1>5, <1>6

\* What a process is left with when it has carried out an effect.
LEMMA WhatIsLeft ==
    ASSUME WorkspaceInv, NEW p \in Procs, Proceeds(p)
    PROVE  \/ proc'[p] = Idle
           \/ /\ proc'[p].pc = proc[p].pc /\ proc'[p].job = proc[p].job
              /\ proc'[p].got = proc[p].got /\ proc'[p].todo = Tail(proc[p].todo)
<1>1. DOMAIN proc = Procs /\ DOMAIN proc[p] = {"job", "pc", "got", "todo"}
  BY DEF WorkspaceInv, Covers, SessionOK
<1> QED BY <1>1 DEF Proceeds

LEMMA LabelJobsAreOpen ==
    /\ Sessions \subseteq LabelJobs
    /\ \A j \in LabelJobs : j \in Jobs /\ j \notin SealedJobs /\ j \notin DOMAIN Goes
    /\ \A j \in DOMAIN Goes : Goes[j] \notin LabelJobs
<1>1. \A j \in LabelJobs : j \in OpenJobs
  BY DEF LabelJobs, OpenJobs
<1>2. \A j \in LabelJobs : j \in Jobs /\ j \notin SealedJobs
  BY <1>1, JobNames
<1> QED BY <1>2 DEF Sessions, LabelJobs, Goes

LEMMA SessionReads ==
    ASSUME NEW j \in Sessions
    PROVE  /\ Len(Reads[j]) = 2 /\ DOMAIN Reads[j] = {1, 2}
           /\ Reads[j][1] = Read("queue", "queue")
           /\ Reads[j][2] = Read("progress", "progress")
<1>1. Reads[j] = AnnotateReads
  BY LabelJobsAreOpen DEF Reads, JobReads, Sessions
<1> QED BY <1>1 DEF AnnotateReads, Files

\* An acting label job has its list, and each of its writes is into the progress.
LEMMA OthersKeepLabels ==
    ASSUME WorkspaceInv, LabelInv, "progress" \in DOMAIN disk,
           "overlap" \notin torn, "overlap" \notin torn',
           NEW p \in Procs, NEW q \in Procs \ {p}, proc'[q] = proc[q],
           disk' = disk \/ WritesNow(p)
    PROVE  LabelsOK(q)'
<1>1. LabelsOK(q)
  BY DEF LabelInv
<1>2. CASE disk'["progress"] = disk["progress"]
  BY <1>1, <1>2 DEF LabelsOK, Loaded
<1>3. CASE disk'["progress"] # disk["progress"]
  <2>1. WritesNow(p)
    BY <1>3
  <2> DEFINE c == Effect(p).data
  <2>2. Effect(p).file = "progress" /\ disk'["progress"] = c /\ c # disk["progress"]
    BY <1>3, <2>1 DEF WritesNow, Changes
  <2>3. ~UsedBy(q, "progress") /\ ~Contests(q, "progress", c)
    BY <2>1, <2>2 DEF WritesNow, Changes
  <2>4. ~(proc[q].pc # "idle" /\ proc[q].job \in Sessions)
    BY <2>3, SessionReads DEF UsedBy, Running, Read
  <2>5. ASSUME proc[q].pc = "act", proc[q].job \in LabelJobs
        PROVE  Climbs(proc[q].todo, c)
    <3> DEFINE t == proc[q].todo
    <3>1. Climbs(t, disk["progress"])
      BY <1>1, <2>5 DEF LabelsOK
    <3>2. \A k \in DOMAIN t : t[k].file = "progress" => t[k].data = c
      BY <2>3 DEF Contests
    <3> HIDE DEF c, t
    <3>3. ASSUME NEW k \in DOMAIN t, t[k].do # "refuse"
          PROVE  /\ t[k].file = "progress"
                 /\ t[k].do \in {"immutable", "replace"} =>
                       /\ Legible(t[k].data)
                       /\ Grows(IF k = 1 THEN c ELSE t[k - 1].data, t[k].data)
      <4>1. /\ t[k].file = "progress"
            /\ t[k].do \in {"immutable", "replace"} =>
                  /\ Legible(t[k].data)
                  /\ k # 1 => Grows(t[k - 1].data, t[k].data)
        BY <3>1, <3>3 DEF Climbs
      <4>2. t[k].data = c /\ Grows(c, c)
        BY <3>2, <4>1, NoneToGrow
      <4> QED BY <4>1, <4>2
    <3>4. Climbs(t, c)
      BY <3>3 DEF Climbs
    <3> QED BY <3>4 DEF t
  <2> HIDE DEF c
  <2> QED BY <2>2, <2>4, <2>5 DEF LabelsOK
<1> QED BY <1>2, <1>3

LEMMA SessionsClimb ==
    ASSUME NEW j \in LabelJobs, NEW g, NEW now, NEW lucky, NEW content, Legible(content),
           j \in Sessions => g.progress = content
    PROVE  Climbs(JobDoes(j, g, now, lucky), content)
<1>1. j = "annotate" => JobDoes(j, g, now, lucky) = Annotate(g, "ann", {})
  BY DEF JobDoes
<1>2. j = "reannotate" => JobDoes(j, g, now, lucky) = Annotate(g, "ann", {1})
  BY DEF JobDoes
<1>3. j = "annotate_other" => JobDoes(j, g, now, lucky) = Annotate(g, "bob", {})
  BY DEF JobDoes
<1>4. j = "import_labels" => JobDoes(j, g, now, lucky) = ImportLabels(g, "ann")
  BY DEF JobDoes
<1> QED BY <1>1, <1>2, <1>3, <1>4, AnnotateClimbs, ImportClimbs DEF LabelJobs, Sessions

\* What the process that moves does to the labels, and where it stands then.
LEMMA OwnLabels ==
    ASSUME WorkspaceInv, LabelInv, "progress" \in DOMAIN disk,
           "overlap" \notin torn, NEW p \in Procs, Moves(p)
    PROVE  /\ LabelsOK(p)' /\ Legible(disk'["progress"])
           /\ Grows(disk["progress"], disk'["progress"])
<1> DEFINE j == proc[p].job
           t == proc[p].todo
           content == disk["progress"]
<1>1. LabelsOK(p) /\ Legible(content) /\ SessionOK(p)
  BY DEF LabelInv, WorkspaceInv
<1>2. Grows(content, content)
  BY NoneToGrow
<1>3. proc[p].pc = "act" /\ j \in LabelJobs => t # <<>> /\ List(t) /\ Climbs(t, content)
  BY <1>1, LabelJobsAreOpen DEF SessionOK, LabelsOK, Remains
<1>4. CASE disk' = disk /\ ~WritesNow(p)
  <2>1. CASE proc'[p] = Idle
    BY <1>1, <1>2, <1>4, <2>1 DEF LabelsOK, Idle
  <2>2. CASE StartsNow(p)
    <3>1. proc'[p].pc = "read" /\ DOMAIN proc'[p].got = {}
      BY <2>2 DEF StartsNow, NoGot
    <3> QED BY <1>1, <1>2, <1>4, <3>1 DEF LabelsOK, Loaded
  <2>3. CASE ReadsNow(p)
    <3>1. LabelsOK(p)'
      <4> SUFFICES ASSUME j \in Sessions
                   PROVE  Loaded(p)'
        BY <2>3 DEF LabelsOK, ReadsNow
      <4> DEFINE got == proc[p].got
                 k == Cardinality(DOMAIN got) + 1
                 r == Reads[j][k]
      <4>1. Loaded(p) /\ k <= 2
        BY <1>1, <2>3, SessionReads DEF LabelsOK, ReadsNow
      <4>2. proc'[p].got = And(got, r.as, disk[r.file])
        BY <2>3 DEF ReadsNow
      <4>3. /\ DOMAIN proc'[p].got = DOMAIN got \union {r.as}
            /\ proc'[p].got[r.as] = disk[r.file]
        <5>1. PICK after : after = proc'[p].got
          BY Zenon
        <5>2. PICK g, a, c : g = got /\ a = r.as /\ c = disk[r.file]
          BY Zenon
        <5>3. after = And(g, a, c)
          BY <4>2, <5>1, <5>2, Zenon
        <5>4. DOMAIN after = DOMAIN g \union {a} /\ after[a] = c
          BY <5>3 DEF And
        <5> QED BY <5>1, <5>2, <5>4, Zenon
      <4>4. CASE DOMAIN got = {}
        <5>1. k = 1
          BY <4>4, FS_EmptySet
        <5>2. r.as = "queue"
          BY <5>1, SessionReads DEF Read
        <5> QED BY <4>3, <4>4, <5>2 DEF Loaded
      <4>5. CASE DOMAIN got = {"queue"}
        <5>1. k = 2
          <6>1. Cardinality({"queue"}) = 1
            BY FS_Singleton
          <6> QED BY <4>5, <6>1
        <5>2. r.as = "progress" /\ r.file = "progress"
          BY <5>1, SessionReads DEF Read
        <5> QED BY <1>4, <4>3, <4>5, <5>2 DEF Loaded
      <4>6. CASE DOMAIN got = {"queue", "progress"}
        <5>1. Cardinality({"queue", "progress"}) = 2
          <6>1. /\ IsFiniteSet({"queue"}) /\ Cardinality({"queue"}) = 1
                /\ {"queue"} \union {"progress"} = {"queue", "progress"}
            BY FS_Singleton
          <6>2. "progress" \notin {"queue"}
            OBVIOUS
          <6>3. Cardinality({"queue"} \union {"progress"}) = Cardinality({"queue"}) + 1
            BY <6>1, <6>2, FS_AddElement
          <6> QED BY <6>1, <6>3
        <5> QED BY <4>1, <4>6, <5>1
      <4> QED BY <4>1, <4>4, <4>5, <4>6 DEF Loaded
    <3> QED BY <1>1, <1>2, <1>4, <3>1
  <2>4. CASE DecidesNow(p)
    <3>1. PICK now, lucky : proc'[p].todo = JobDoes(j, proc[p].got, now, lucky)
      BY <2>4 DEF DecidesNow
    <3>2. ASSUME j \in Sessions
          PROVE  proc[p].got["progress"] = content
      <4>1. Loaded(p) /\ Cardinality(DOMAIN proc[p].got) = 2
        BY <1>1, <2>4, <3>2, SessionReads DEF LabelsOK, DecidesNow
      <4>2. Cardinality({}) = 0 /\ Cardinality({"queue"}) = 1
        BY FS_EmptySet, FS_Singleton
      <4> QED BY <4>1, <4>2 DEF Loaded
    <3>3. j \in LabelJobs => Climbs(JobDoes(j, proc[p].got, now, lucky), content)
      BY <1>1, <3>2, SessionsClimb
    <3> QED BY <1>1, <1>2, <1>4, <2>4, <3>1, <3>3 DEF LabelsOK, DecidesNow
  <2>5. CASE TurnsNow(p)
    <3>1. GoesOnTo(j, Effect(p))
      BY <2>5, GoesWhereItMay DEF TurnsNow
    <3>2. proc'[p].job \notin LabelJobs
      BY <2>5, <3>1, LabelJobsAreOpen DEF TurnsNow, GoesOnTo
    <3> QED BY <1>1, <1>2, <1>4, <3>2, LabelJobsAreOpen DEF LabelsOK
  <2>6. CASE /\ proc[p].pc = "act" /\ Proceeds(p)
             /\ \/ Effect(p).do = "expect" /\ disk[Effect(p).file] \in {NoFile, Effect(p).data}
                \/ Effect(p).do = "immutable" /\ disk[Effect(p).file] = Effect(p).data
    <3>1. CASE proc'[p] = Idle
      BY <1>1, <1>2, <1>4, <3>1 DEF LabelsOK, Idle
    <3>2. CASE /\ proc'[p].pc = "act" /\ proc'[p].job = j /\ proc'[p].todo = Tail(t)
      <4>1. j \in LabelJobs => Climbs(Tail(t), content)
        <5> SUFFICES ASSUME j \in LabelJobs PROVE Climbs(Tail(t), content)
          OBVIOUS
        <5>1. 1 \in DOMAIN t /\ Head(t) = t[1]
          BY <1>3, <2>6, ListTail, ListProperties
        <5>2. Head(t).file = "progress"
          BY <1>3, <2>6, <5>1 DEF Climbs, Effect
        <5> QED BY <1>3, <2>6, <5>2, ClimbsOn DEF Effect
      <4> QED BY <1>1, <1>2, <1>4, <3>2, <4>1 DEF LabelsOK
    <3> QED BY <2>6, <3>1, <3>2, WhatIsLeft
  <2> QED BY <1>4, <2>1, <2>2, <2>3, <2>4, <2>5, <2>6 DEF Moves
<1>5. CASE WritesNow(p)
  <2> DEFINE e == Effect(p)
  <2>1. /\ proc[p].pc = "act" /\ e.do \in {"immutable", "replace"} /\ Proceeds(p)
        /\ disk' = [disk EXCEPT ![e.file] = e.data]
    BY <1>5 DEF WritesNow, Changes
  <2>2. CASE j \in LabelJobs
    <3>1. 1 \in DOMAIN t /\ e = t[1]
      BY <1>3, <2>1, <2>2, ListTail, ListProperties DEF Effect
    <3>2. e.file = "progress" /\ Legible(e.data) /\ Grows(content, e.data)
      BY <1>3, <2>1, <2>2, <3>1 DEF Climbs
    <3>3. disk'["progress"] = e.data
      BY <2>1, <3>2
    <3>4. Climbs(Tail(t), e.data)
      BY <1>3, <2>1, <2>2, ClimbsOn DEF Effect
    <3>5. LabelsOK(p)'
      BY <2>1, <3>3, <3>4, WhatIsLeft DEF LabelsOK, Idle
    <3> QED BY <3>2, <3>3, <3>5
  <2>3. CASE j \notin LabelJobs
    <3>1. e.file # "progress"
      BY <2>1, <2>3, WritesItsOwn, WritersAssumption
    <3>2. disk'["progress"] = content
      BY <2>1, <3>1
    <3>3. proc'[p].pc # "read" /\ proc'[p].job \notin LabelJobs
      BY <2>1, <2>3, WhatIsLeft DEF Idle, LabelJobs
    <3> QED BY <1>1, <1>2, <3>2, <3>3 DEF LabelsOK
  <2> QED BY <2>2, <2>3
<1> QED BY <1>4, <1>5 DEF Moves

LEMMA LabelsStep ==
    ASSUME WorkspaceInv, LabelInv, [Next]_vars
    PROVE  /\ LabelInv'
           /\ "progress" \in DOMAIN disk /\ "overlap" \notin torn' =>
                 Grows(disk["progress"], disk'["progress"])
<1>1. ASSUME NEW p \in Procs, Step(p)
      PROVE  /\ LabelInv'
             /\ "progress" \in DOMAIN disk /\ "overlap" \notin torn' =>
                   Grows(disk["progress"], disk'["progress"])
  <2>1. /\ torn \subseteq torn' /\ Moves(p)
        /\ \A q \in Procs \ {p} : proc'[q] = proc[q]
    BY <1>1, OneMoves
  <2>2. disk' = disk \/ WritesNow(p)
    BY <2>1 DEF Moves
  <2>3. DOMAIN disk' = DOMAIN disk
    BY <2>2 DEF WritesNow, Changes
  <2>4. ASSUME "progress" \in DOMAIN disk, "overlap" \notin torn'
        PROVE  /\ \A q \in Procs : LabelsOK(q)'
               /\ Legible(disk'["progress"]) /\ Grows(disk["progress"], disk'["progress"])
    BY <2>1, <2>2, <2>4, OwnLabels, OthersKeepLabels
  <2> QED BY <2>3, <2>4 DEF LabelInv
<1>2. ASSUME NEW e \in Exchanges[scope], Edit(e.file, e.data)
      PROVE  /\ LabelInv'
             /\ "progress" \in DOMAIN disk /\ "overlap" \notin torn' =>
                   Grows(disk["progress"], disk'["progress"])
  <2>1. e.file # "progress"
    BY SourcesAssumption DEF WorkspaceInv, Covers
  <2>2. /\ disk' = [disk EXCEPT ![e.file] = e.data] /\ proc' = proc
        /\ "overlap" \notin torn' => "overlap" \notin torn
    BY <1>2 DEF Edit, Changes
  <2> QED BY <2>1, <2>2, NoneToGrow DEF LabelInv, LabelsOK, Loaded
<1>3. CASE UNCHANGED vars
  BY <1>3, NoneToGrow DEF vars, LabelInv, LabelsOK, Loaded
<1> QED BY <1>1, <1>2, <1>3 DEF Next

\* A label stays: for any number of sessions and imports, whatever they are asked
\* to do and wherever they are killed, as long as nobody writes the progress file
\* under a session that loaded it.
THEOREM LabelsStay == Spec => LabelsAreKept
<1>1. Init => LabelInv
  <2> SUFFICES ASSUME Init, "progress" \in DOMAIN disk
               PROVE  Legible(disk["progress"]) /\ \A p \in Procs : LabelsOK(p)
    BY DEF LabelInv
  <2>1. Legible(disk["progress"])
    BY SourcesAssumption DEF Init, Legible
  <2> QED BY <2>1 DEF Init, LabelsOK, Idle
<1>2. WorkspaceInv /\ LabelInv /\ [Next]_vars => LabelInv'
  BY LabelsStep
<1>3. ASSUME WorkspaceInv, LabelInv, [Next]_vars
      PROVE  [("progress" \in DOMAIN disk /\ "overlap" \notin torn')
              => LET before == LabelsOf(disk["progress"])
                     after == LabelsOf(disk'["progress"])
                 IN  \A x \in DOMAIN before :
                        x \in DOMAIN after /\ (before[x] = "by_hand" => after[x] = "by_hand")]_vars
  BY <1>3, LabelsStep DEF Grows
<1> QED BY <1>1, <1>2, <1>3, WorkspaceInvHolds, PTL DEF Spec, LabelsAreKept

------------------------------------------------------------------------------
(* Corpus, proposals and aliases are of one version.                       *)

\* The names under which a process has read, and what it has read is what there is.
ReadSoFar(p) ==
    LET reads == Reads[proc[p].job]
    IN  \E n \in 0..Len(reads) : DOMAIN proc[p].got = {reads[k].as : k \in 1..n}

Fresh(p) ==
    LET reads == Reads[proc[p].job]
    IN  \A k \in DOMAIN reads : reads[k].as \in DOMAIN proc[p].got =>
            proc[p].got[reads[k].as] = disk[reads[k].file]

Agree(a, b) == \A s, t \in a \union b : s[1] = t[1] => s[2] = t[2]

JoinsNothing(p) ==
    (\A a \in DOMAIN proc[p].got : Coherent(proc[p].got[a])) =>
        \A k \in Writes(proc[p].todo) : Coherent(proc[p].todo[k].data)

Reports(p) ==
    \A k \in Writes(proc[p].todo) :
        proc[p].todo[k].file = "proposal_report" => IsReport(proc[p].todo[k].data)

SteadyOK(p) ==
    /\ proc[p].pc = "read" /\ proc[p].job \in SteadyJobs \union {"import_contexts"}
          => ReadSoFar(p) /\ Fresh(p)
    /\ proc[p].pc = "act" /\ proc[p].job \in SteadyJobs => JoinsNothing(p) /\ Reports(p)

\* An import writes the contexts first and their manifest then, from what is still its
\* source.
Importing(p) == proc[p].pc = "act" /\ proc[p].job = "import_contexts"
Imports(source) ==
    <<Replace("contexts", Contexts(source)), Replace("import_manifest", ImportManifest(source)),
      Replace("contexts_errors", Empty)>>
Imported(t) == \A k \in DOMAIN t : t[k].file \notin {"contexts", "import_manifest"}
ImportOK(p) ==
    LET source == disk["contexts_source"]
        t == proc[p].todo
    IN  \/ t = Imports(source)
        \/ t = Tail(Imports(source)) /\ disk["contexts"] = Contexts(source)
        \/ Imported(t)

\* The contexts and the manifest are of one version, or an import is between the two
\* and nobody reads them.
PairAgrees ==
    Coherent(disk["contexts"]) /\ Coherent(disk["import_manifest"]) =>
        Agree(disk["contexts"].basis, disk["import_manifest"].basis)
HalfWay ==
    /\ \E p \in Procs : Importing(p) /\ proc[p].todo = Tail(Imports(disk["contexts_source"]))
    /\ \A p \in Procs : ~(proc[p].pc = "read" /\ proc[p].job \in {"corpus", "propose"})

ReadsInPlace ==
    \A j \in JobsIn(scope) : \A k \in DOMAIN Reads[j] : Reads[j][k].file \in DOMAIN disk

CoherenceInv ==
    /\ ReadsInPlace
    /\ torn = {} =>
          /\ \A p \in Procs : SteadyOK(p)
          /\ "proposal_report" \in DOMAIN disk => IsReport(disk["proposal_report"])
          /\ {"corpus", "propose"} \intersect JobsIn(scope) # {} =>
                /\ \A p \in Procs : Importing(p) => ImportOK(p)
                /\ PairAgrees \/ HalfWay

LEMMA CoherentAlone == \A c : Coherent(c) <=> Agree(c.basis, c.basis)
BY DEF Coherent, Agree

LEMMA AgreeWithin ==
    ASSUME NEW c, NEW a, NEW b, Agree(a, b), c.basis \subseteq a \union b
    PROVE  Coherent(c)
BY DEF Coherent, Agree

\* What corpus, propose and freeze set out to write is of the versions they read.
LEMMA CorpusJoins ==
    ASSUME NEW g, g.hashed = g.streamed, Agree(g.streamed.basis, g.import_manifest.basis)
    PROVE  \A k \in DOMAIN WriteCorpus(g) : Coherent(WriteCorpus(g)[k].data)
<1> DEFINE chunks == Chunks(g.streamed)
           manifest == ChunkManifest(g.import_manifest, g.hashed, chunks)
           report == CorpusReport(g.import_manifest, chunks)
           markdown == CorpusMarkdown(report)
           both == g.streamed.basis \union g.import_manifest.basis
<1>1. chunks.basis = g.streamed.basis
  BY DEF Chunks, Made
<1>2. report.basis = g.import_manifest.basis \union chunks.basis
  BY DEF CorpusReport, Made
<1>3. manifest.basis = g.import_manifest.basis \union g.hashed.basis \union chunks.basis
  BY DEF ChunkManifest, Made
<1>4. markdown.basis = report.basis
  BY DEF CorpusMarkdown, Made
<1>5. WriteCorpus(g) = <<Immutable("chunks", chunks), Immutable("chunk_manifest", manifest),
                         Immutable("corpus_report", report),
                         Immutable("corpus_markdown", markdown)>>
  BY DEF WriteCorpus
<1> HIDE DEF chunks, manifest, report, markdown
<1>6. Coherent(chunks) /\ Coherent(manifest) /\ Coherent(report) /\ Coherent(markdown)
  BY <1>1, <1>2, <1>3, <1>4, AgreeWithin
<1> QED BY <1>5, <1>6 DEF Immutable

LEMMA ProposeJoins ==
    ASSUME NEW g, Agree(g.contexts.basis, g.import_manifest.basis)
    PROVE  \A k \in DOMAIN Propose(g) : Coherent(Propose(g)[k].data)
<1> DEFINE proposals == Proposals(g.contexts)
           report == ProposalReport(g.import_manifest, proposals)
<1>1. proposals.basis = g.contexts.basis
  BY DEF Proposals, Made
<1>2. report.basis = g.import_manifest.basis \union proposals.basis
  BY DEF ProposalReport, Made
<1>3. Propose(g) = <<Immutable("proposals", proposals), Immutable("proposal_report", report)>>
  BY DEF Propose
<1> HIDE DEF proposals, report
<1>4. Coherent(proposals) /\ Coherent(report)
  BY <1>1, <1>2, AgreeWithin
<1> QED BY <1>3, <1>4 DEF Immutable

LEMMA FreezeJoins ==
    ASSUME NEW g, NEW lucky, IsReport(g.proposal_report), g.proposal_report # NoFile,
           Coherent(g.proposal_report)
    PROVE  \A k \in Writes(Freeze(g, lucky)) : Coherent(Freeze(g, lucky)[k].data)
<1> DEFINE corpus == g.proposal_report.from.corpus
           aliases == Aliases(g.proposals)
           manifest == AliasManifest(corpus, aliases)
           report == AliasReport(corpus, g.proposals, manifest)
           accepted ==
               /\ g.proposals = g.approval.from.proposals
               /\ g.proposal_report.from.proposals = g.approval.from.proposals
               /\ ProvenanceHolds(g.proposals, g.contexts, lucky)
           effects == <<Immutable("aliases", aliases), Immutable("alias_manifest", manifest),
                        Immutable("alias_report", report)>>
<1>1. Freeze(g, lucky) = Provided(accepted, effects)
  BY DEF Freeze
<1>2. CASE ~accepted
  <2>1. Freeze(g, lucky) = <<Refuse>>
    BY <1>1, <1>2 DEF Provided
  <2> QED BY <2>1 DEF Writes, Refuse
<1>3. CASE accepted
  <2>1. g.proposal_report.basis = corpus.basis \union g.proposals.basis
    BY <1>3 DEF IsReport, ProposalReport, Made
  <2>2. Agree(corpus.basis, g.proposals.basis)
    BY <2>1 DEF Coherent, Agree
  <2>3. aliases.basis = g.proposals.basis
    BY DEF Aliases, Made
  <2>4. manifest.basis = corpus.basis \union aliases.basis
    BY DEF AliasManifest, Made
  <2>5. report.basis = (corpus.basis \union g.proposals.basis) \union manifest.basis
    BY DEF AliasReport, Made
  <2> HIDE DEF corpus, aliases, manifest, report
  <2>6. Coherent(aliases) /\ Coherent(manifest) /\ Coherent(report)
    BY <2>2, <2>3, <2>4, <2>5, AgreeWithin
  <2>7. Freeze(g, lucky) = effects
    BY <1>1, <1>3 DEF Provided
  <2> QED BY <2>6, <2>7 DEF Immutable, Writes
<1> QED BY <1>2, <1>3

\* What an import sets out to write.
LEMMA ImportImports ==
    ASSUME NEW g, NEW steady
    PROVE  LET t == ImportContexts(g, steady)
           IN  t = Imports(g.contexts_source) \/ Imported(t)
<1>1. CASE Malformed(g.contexts_source) \/ ~steady
  BY <1>1 DEF ImportContexts, ImportFails, Imported, Replace, Refuse
<1>2. CASE ~(Malformed(g.contexts_source) \/ ~steady)
  BY <1>2 DEF ImportContexts, Imports
<1> QED BY <1>1, <1>2

LEMMA ImportsInTurn ==
    ASSUME NEW source
    PROVE  /\ Head(Imports(source)) = Replace("contexts", Contexts(source))
           /\ Head(Tail(Imports(source))) = Replace("import_manifest", ImportManifest(source))
           /\ Imported(Tail(Tail(Imports(source))))
           /\ Tail(Imports(source)) # Tail(Tail(Imports(source)))
<1> DEFINE a == Replace("contexts", Contexts(source))
           b == Replace("import_manifest", ImportManifest(source))
           c == Replace("contexts_errors", Empty)
<1>1. Imports(source) = <<a, b, c>>
  BY DEF Imports
<1>2. Tail(<<a, b, c>>) = <<b, c>> /\ Tail(<<b, c>>) = <<c>>
  OBVIOUS
<1>3. c.file = "contexts_errors"
  BY DEF Replace
<1> HIDE DEF a, b, c
<1>4. Imported(<<c>>)
  BY <1>3 DEF Imported
<1> QED BY <1>1, <1>2, <1>4 DEF a, b

\* The names under which a job reads are told apart, so that their number tells which
\* have been read.
LEMMA ReadInOrder ==
    ASSUME NEW reads, List(reads), \A k, l \in DOMAIN reads : reads[k].as = reads[l].as => k = l,
           NEW n \in 0..Len(reads)
    PROVE  Cardinality({reads[k].as : k \in 1..n}) = n
<1> DEFINE S == {reads[k].as : k \in 1..n}
           f == [k \in 1..n |-> reads[k].as]
<1>1. DOMAIN reads = 1..Len(reads) /\ Len(reads) \in Nat /\ n \in Nat
  BY ListProperties
<1>2. 1..n \subseteq DOMAIN reads
  BY <1>1
<1>3. \A k, l \in 1..n : reads[k].as = reads[l].as => k = l
  BY <1>2
<1>4. ExistsBijection(1..n, S)
  <2>1. f \in [1..n -> S] /\ \A s \in S : \E k \in 1..n : f[k] = s
    OBVIOUS
  <2>2. \A k, l \in 1..n : f[k] = f[l] => k = l
    BY <1>3
  <2> HIDE DEF f, S
  <2>3. f \in Bijection(1..n, S)
    BY <2>1, <2>2 DEF Bijection, Injection, Surjection, IsInjective
  <2> QED BY <2>3 DEF ExistsBijection
<1> QED BY <1>1, <1>4, FS_CountingElements

ReadsApart(reads) ==
    List(reads) /\ \A k, l \in DOMAIN reads : reads[k].as = reads[l].as => k = l

LEMMA SteadyReads ==
    /\ Reads["corpus"] = CorpusReads /\ Reads["propose"] = ProposeReads
    /\ Reads["freeze"] = FreezeReads /\ Reads["import_contexts"] = ImportContextsReads
    /\ \A j \in SteadyJobs \union {"import_contexts"} : ReadsApart(Reads[j])
<1>1. {"corpus", "propose", "freeze", "import_contexts"} \subseteq Jobs
  BY JobNames DEF SealedCommands, OpenJobs
<1>2. /\ Reads["corpus"] = CorpusReads /\ Reads["propose"] = ProposeReads
      /\ Reads["freeze"] = FreezeReads /\ Reads["import_contexts"] = ImportContextsReads
  BY <1>1 DEF Reads, JobReads
<1>3. ReadsApart(CorpusReads)
  <2>1. DOMAIN CorpusReads = 1..3 /\ CorpusReads = [k \in 1..3 |-> CorpusReads[k]]
    BY DEF CorpusReads
  <2>2. List(CorpusReads)
    BY <2>1, ListFromTo
  <2> QED BY <2>1, <2>2 DEF ReadsApart, CorpusReads, Read
<1>4. ReadsApart(ProposeReads)
  <2>1. DOMAIN ProposeReads = 1..2 /\ ProposeReads = [k \in 1..2 |-> ProposeReads[k]]
    BY DEF ProposeReads, Files
  <2>2. List(ProposeReads)
    BY <2>1, ListFromTo
  <2> QED BY <2>1, <2>2 DEF ReadsApart, ProposeReads, Files, Read
<1>5. ReadsApart(FreezeReads)
  <2>1. DOMAIN FreezeReads = 1..4 /\ FreezeReads = [k \in 1..4 |-> FreezeReads[k]]
    BY DEF FreezeReads, Files
  <2>2. List(FreezeReads)
    BY <2>1, ListFromTo
  <2> QED BY <2>1, <2>2 DEF ReadsApart, FreezeReads, Files, Read
<1>6. ReadsApart(ImportContextsReads)
  <2>1. DOMAIN ImportContextsReads = 1..1
        /\ ImportContextsReads = [k \in 1..1 |-> ImportContextsReads[k]]
    BY DEF ImportContextsReads, Files
  <2>2. List(ImportContextsReads)
    BY <2>1, ListFromTo
  <2> QED BY <2>1, <2>2 DEF ReadsApart, ImportContextsReads, Files, Read
<1> QED BY <1>2, <1>3, <1>4, <1>5, <1>6 DEF SteadyJobs

\* All has been read, and it is what there is.
LEMMA AllIsRead ==
    ASSUME NEW p \in Procs, ReadSoFar(p), Fresh(p), ReadsApart(Reads[proc[p].job]),
           Cardinality(DOMAIN proc[p].got) = Len(Reads[proc[p].job]),
           NEW k \in DOMAIN Reads[proc[p].job]
    PROVE  /\ Reads[proc[p].job][k].as \in DOMAIN proc[p].got
           /\ proc[p].got[Reads[proc[p].job][k].as] = disk[Reads[proc[p].job][k].file]
<1> DEFINE reads == Reads[proc[p].job]
<1>1. PICK n \in 0..Len(reads) : DOMAIN proc[p].got = {reads[i].as : i \in 1..n}
  BY DEF ReadSoFar
<1>2. n = Len(reads) /\ DOMAIN reads = 1..Len(reads)
  <2>1. List(reads) /\ Cardinality({reads[i].as : i \in 1..n}) = n
    BY ReadInOrder DEF ReadsApart
  <2>2. DOMAIN reads = 1..Len(reads) /\ Len(reads) \in Nat
    BY <2>1, ListProperties
  <2> QED BY <1>1, <2>1, <2>2
<1>3. reads[k].as \in DOMAIN proc[p].got
  BY <1>1, <1>2, Zenon
<1> QED BY <1>3 DEF Fresh

LEMMA ReadsOn ==
    ASSUME NEW p \in Procs, ReadSoFar(p), Fresh(p), ReadsApart(Reads[proc[p].job]),
           ReadsNow(p), disk' = disk
    PROVE  ReadSoFar(p)' /\ Fresh(p)'
<1> DEFINE reads == Reads[proc[p].job]
           got == proc[p].got
<1>1. PICK n \in 0..Len(reads) : DOMAIN got = {reads[i].as : i \in 1..n}
  BY DEF ReadSoFar
<1>2. Cardinality(DOMAIN got) = n
  BY <1>1, ReadInOrder DEF ReadsApart
<1>3. DOMAIN reads = 1..Len(reads) /\ Len(reads) \in Nat
  BY ListProperties, Zenon DEF ReadsApart
<1>4. n + 1 \in DOMAIN reads /\ n + 1 \in 0..Len(reads)
  BY <1>2, <1>3 DEF ReadsNow
<1>5. PICK R : R = reads
  BY Zenon
<1>6. PICK after, before, d : after = proc'[p].got /\ before = got /\ d = disk
  BY Zenon
<1>7. after = And(before, R[n + 1].as, d[R[n + 1].file])
  <2>1. after = And(got, reads[n + 1].as, disk[reads[n + 1].file])
    BY <1>2, <1>6, Zenon DEF ReadsNow
  <2> QED BY <1>5, <1>6, <2>1, Zenon
<1>8. /\ DOMAIN after = DOMAIN before \union {R[n + 1].as}
      /\ after[R[n + 1].as] = d[R[n + 1].file]
      /\ \A a \in DOMAIN before : a # R[n + 1].as => after[a] = before[a]
  <2>1. PICK name, content : name = R[n + 1].as /\ content = d[R[n + 1].file]
    BY Zenon
  <2>2. after = [a \in DOMAIN before \union {name} |-> IF a = name THEN content ELSE before[a]]
    BY <1>7, <2>1, Zenon DEF And
  <2>3. /\ DOMAIN after = DOMAIN before \union {name} /\ after[name] = content
        /\ \A a \in DOMAIN before : a # name => after[a] = before[a]
    BY <2>2
  <2> QED BY <2>1, <2>3, Zenon
<1>9. DOMAIN after = {R[i].as : i \in 1..n + 1}
  <2>1. \A i \in 1..n + 1 : i \in 1..n \/ i = n + 1
    BY <1>1
  <2>2. n + 1 \in 1..n + 1 /\ \A i \in 1..n : i \in 1..n + 1
    BY <1>1
  <2>3. DOMAIN before = {R[i].as : i \in 1..n}
    BY <1>1, <1>5, <1>6, Zenon
  <2> QED BY <1>8, <2>1, <2>2, <2>3, Zenon
<1>10. ASSUME NEW k \in DOMAIN R, R[k].as \in DOMAIN after
       PROVE  after[R[k].as] = d[R[k].file]
  <2>1. CASE R[k].as = R[n + 1].as
    <3>1. n + 1 \in DOMAIN R /\ ReadsApart(R)
      BY <1>4, <1>5, Zenon
    <3>2. k = n + 1
      BY <1>10, <2>1, <3>1, Zenon DEF ReadsApart
    <3> QED BY <1>8, <3>2, Zenon
  <2>2. CASE R[k].as # R[n + 1].as
    <3>1. R[k].as \in DOMAIN before
      BY <1>8, <1>10, <2>2, Zenon
    <3>2. before[R[k].as] = d[R[k].file]
      BY <1>5, <1>6, <1>10, <3>1, Zenon DEF Fresh
    <3> QED BY <1>8, <2>2, <3>1, <3>2, Zenon
  <2> QED BY <2>1, <2>2, Zenon
<1>11. Reads[proc'[p].job] = R
  BY <1>5, Zenon DEF ReadsNow
<1>12. ReadSoFar(p)'
  BY <1>4, <1>5, <1>6, <1>9, <1>11 DEF ReadSoFar
<1>13. Fresh(p)'
  BY <1>6, <1>10, <1>11, Zenon DEF Fresh
<1> QED BY <1>12, <1>13

\* While nothing is torn, what a running process reads is not changed by others.
LEMMA Undisturbed ==
    ASSUME WorkspaceInv, ReadsInPlace, NEW f, NEW c, NEW q, Changes(f, c, q),
           "overlap" \notin torn', NEW p \in Procs \ {q}, proc[p].pc # "idle",
           NEW k \in DOMAIN Reads[proc[p].job]
    PROVE  disk'[Reads[proc[p].job][k].file] = disk[Reads[proc[p].job][k].file]
<1> DEFINE g == Reads[proc[p].job][k].file
<1>1. g \in DOMAIN disk
  BY DEF WorkspaceInv, SessionOK, ReadsInPlace
<1>2. CASE g = f
  <2>1. UsedBy(p, f)
    BY <1>2 DEF UsedBy, Running
  <2>2. c = disk[f]
    BY <2>1 DEF Changes
  <2> QED BY <1>1, <1>2, <2>2 DEF Changes
<1>3. CASE g # f
  BY <1>1, <1>3 DEF Changes
<1> QED BY <1>2, <1>3

LEMMA TodoIsList ==
    ASSUME WorkspaceInv, NEW p \in Procs, proc[p].pc = "act"
    PROVE  /\ List(proc[p].todo) /\ proc[p].todo # <<>>
           /\ 1 \in DOMAIN proc[p].todo /\ Effect(p) = proc[p].todo[1]
<1>1. List(proc[p].todo) /\ proc[p].todo # <<>>
  BY DEF WorkspaceInv, SessionOK, Carries, Rest, Remains
<1> QED BY <1>1, ListTail, ListProperties DEF Effect

\* A process with a replacement next in hand carries it out, or its run is cut.
LEMMA ReplacesOrIsCut ==
    ASSUME NEW p \in Procs, Step(p), "cut" \notin torn', proc[p].pc = "act",
           Effect(p).do = "replace"
    PROVE  WritesNow(p)
<1>1. ~Kill(p)
  BY DEF Kill, StopsShort
<1>2. WriteReplace(p)
  BY <1>1 DEF Step, Start, Running, ReadNext, Decide, WriteImmutable, CheckExpected, GoesOn,
              Refused, Acting, Effect
<1> QED BY <1>2 DEF WriteReplace, WritesNow, Acting, Effect

\* What a job that pairs files decides on, when it has read what there is.
LEMMA DecidesSteadily ==
    ASSUME WorkspaceInv, CoherenceInv, torn = {}, NEW p \in Procs, DecidesNow(p)
    PROVE  /\ proc[p].job \in SteadyJobs => JoinsNothing(p)' /\ Reports(p)'
           /\ /\ {"corpus", "propose"} \intersect JobsIn(scope) # {}
              /\ proc[p].job = "import_contexts"
              => \/ proc'[p].todo = Imports(disk["contexts_source"])
                 \/ Imported(proc'[p].todo)
<1> DEFINE j == proc[p].job
           reads == Reads[j]
<1>1. /\ proc[p].pc = "read" /\ Cardinality(DOMAIN proc[p].got) = Len(reads)
      /\ proc'[p].got = proc[p].got
      /\ j \in JobsIn(scope) /\ SteadyOK(p)
  BY DEF DecidesNow, WorkspaceInv, SessionOK, CoherenceInv
<1>2. PICK g : g = proc[p].got
  OBVIOUS
<1>3. PICK t : t = proc'[p].todo
  OBVIOUS
<1>4. PICK now, lucky : t = JobDoes(j, g, now, lucky)
  BY <1>2, <1>3 DEF DecidesNow
<1>5. j \in SteadyJobs \union {"import_contexts"} =>
        \A k \in DOMAIN reads : reads[k].as \in DOMAIN g /\ g[reads[k].as] = disk[reads[k].file]
  BY <1>1, <1>2, AllIsRead, SteadyReads DEF SteadyOK
<1>6. ASSUME j \in {"corpus", "propose"}
      PROVE  PairAgrees
  BY <1>1, <1>6 DEF CoherenceInv, HalfWay
<1>7. CASE j = "corpus"
  <2>1. /\ DOMAIN reads = {1, 2, 3} /\ reads[1] = Read("import_manifest", "import_manifest")
        /\ reads[2] = Read("hashed", "contexts") /\ reads[3] = Read("streamed", "contexts")
    BY <1>7, SteadyReads DEF CorpusReads
  <2>2. /\ {"import_manifest", "hashed", "streamed"} \subseteq DOMAIN g
        /\ g.import_manifest = disk["import_manifest"]
        /\ g.hashed = disk["contexts"] /\ g.streamed = disk["contexts"]
    BY <1>5, <1>7, <2>1 DEF Read, SteadyJobs
  <2>3. t = WriteCorpus(g)
    BY <1>4, <1>7 DEF JobDoes
  <2>4. ASSUME \A a \in DOMAIN g : Coherent(g[a])
        PROVE  \A k \in Writes(t) : Coherent(t[k].data)
    <3>1. Agree(g.streamed.basis, g.import_manifest.basis)
      BY <1>6, <1>7, <2>2, <2>4 DEF PairAgrees
    <3> QED BY <2>2, <2>3, <3>1, CorpusJoins DEF Writes
  <2>5. \A k \in Writes(t) : t[k].file # "proposal_report"
    BY <2>3 DEF WriteCorpus, Immutable, Writes
  <2> QED BY <1>1, <1>2, <1>3, <1>7, <2>4, <2>5 DEF JoinsNothing, Reports
<1>8. CASE j = "propose"
  <2>1. /\ DOMAIN reads = {1, 2} /\ reads[1] = Read("import_manifest", "import_manifest")
        /\ reads[2] = Read("contexts", "contexts")
    BY <1>8, SteadyReads DEF ProposeReads, Files
  <2>2. /\ {"import_manifest", "contexts"} \subseteq DOMAIN g
        /\ g.import_manifest = disk["import_manifest"] /\ g.contexts = disk["contexts"]
    BY <1>5, <1>8, <2>1 DEF Read, SteadyJobs
  <2>3. t = Propose(g)
    BY <1>4, <1>8 DEF JobDoes
  <2>4. ASSUME \A a \in DOMAIN g : Coherent(g[a])
        PROVE  \A k \in Writes(t) : Coherent(t[k].data)
    <3>1. Agree(g.contexts.basis, g.import_manifest.basis)
      BY <1>6, <1>8, <2>2, <2>4 DEF PairAgrees
    <3> QED BY <2>3, <3>1, ProposeJoins DEF Writes
  <2>5. ASSUME NEW k \in Writes(t), t[k].file = "proposal_report"
        PROVE  IsReport(t[k].data)
    <3>1. t[k].data = ProposalReport(g.import_manifest, Proposals(g.contexts))
      BY <2>3, <2>5 DEF Propose, Immutable, Writes
    <3> QED BY <3>1 DEF IsReport, ProposalReport, Made
  <2> QED BY <1>1, <1>2, <1>3, <1>8, <2>4, <2>5 DEF JoinsNothing, Reports
<1>9. CASE j = "freeze"
  <2>1. DOMAIN reads = {1, 2, 3, 4} /\ reads[3] = Read("proposal_report", "proposal_report")
    BY <1>9, SteadyReads DEF FreezeReads, Files
  <2>2. "proposal_report" \in DOMAIN g /\ g.proposal_report = disk["proposal_report"]
    BY <1>5, <1>9, <2>1 DEF Read, SteadyJobs
  <2>3. "proposal_report" \in DOMAIN disk
    BY <1>1, <1>9, <2>1 DEF CoherenceInv, ReadsInPlace, Read
  <2>4. g.proposal_report # NoFile
    <3>1. Optional["freeze"] = {}
      BY JobNames DEF Optional, JobOptional, ScriptOptional, SealedCommands
    <3> QED BY <1>2, <1>9, <2>2, <3>1 DEF DecidesNow
  <2>5. t = Freeze(g, lucky)
    BY <1>4, <1>9 DEF JobDoes
  <2>6. ASSUME \A a \in DOMAIN g : Coherent(g[a])
        PROVE  \A k \in Writes(t) : Coherent(t[k].data)
    BY <2>2, <2>3, <2>4, <2>5, <2>6, FreezeJoins DEF CoherenceInv
  <2>7. \A k \in Writes(t) : t[k].file # "proposal_report"
    BY <2>5 DEF Freeze, Provided, Refuse, Immutable, Writes
  <2> QED BY <1>1, <1>2, <1>3, <1>9, <2>6, <2>7 DEF JoinsNothing, Reports
<1>10. CASE j = "import_contexts"
  <2>1. DOMAIN reads = {1} /\ reads[1] = Read("contexts_source", "contexts_source")
    BY <1>10, SteadyReads DEF ImportContextsReads, Files
  <2>2. g.contexts_source = disk["contexts_source"]
    BY <1>5, <1>10, <2>1 DEF Read
  <2>3. t = ImportContexts(g, lucky)
    BY <1>4, <1>10 DEF JobDoes
  <2> QED BY <1>3, <1>10, <2>2, <2>3, ImportImports DEF SteadyJobs
<1> QED BY <1>7, <1>8, <1>9, <1>10 DEF SteadyJobs

LEMMA TailJoins ==
    ASSUME WorkspaceInv, NEW p \in Procs, proc[p].pc = "act", JoinsNothing(p), Reports(p),
           proc'[p].got = proc[p].got, proc'[p].todo = Tail(proc[p].todo)
    PROVE  JoinsNothing(p)' /\ Reports(p)'
<1>1. PICK t : t = proc[p].todo
  OBVIOUS
<1>2. PICK u : u = proc'[p].todo
  OBVIOUS
<1>3. List(t) /\ t # <<>> /\ u = Tail(t)
  BY <1>1, <1>2, TodoIsList
<1>4. \A k \in DOMAIN u : k + 1 \in DOMAIN t /\ u[k] = t[k + 1]
  <2>1. /\ List(Tail(t)) /\ Len(Tail(t)) = Len(t) - 1 /\ Len(t) \in Nat /\ DOMAIN t = 1..Len(t)
        /\ \A k \in 1..Len(t) - 1 : Tail(t)[k] = t[k + 1]
    BY <1>3, ListTail, ListProperties
  <2>2. DOMAIN u = 1..Len(t) - 1
    BY <1>3, <2>1, ListProperties
  <2> QED BY <1>3, <2>1, <2>2
<1>5. \A k \in Writes(u) : k + 1 \in Writes(t) /\ u[k] = t[k + 1]
  BY <1>4 DEF Writes
<1> QED BY <1>1, <1>2, <1>5 DEF JoinsNothing, Reports

LEMMA TailIsImported ==
    ASSUME NEW t, List(t), t # <<>>, Imported(t)
    PROVE  Imported(Tail(t))
<1>1. /\ List(Tail(t)) /\ Len(Tail(t)) = Len(t) - 1 /\ Len(t) \in Nat /\ DOMAIN t = 1..Len(t)
      /\ \A k \in 1..Len(t) - 1 : Tail(t)[k] = t[k + 1]
  BY ListTail, ListProperties
<1>2. DOMAIN Tail(t) = 1..Len(t) - 1
  BY <1>1, ListProperties
<1>3. \A k \in 1..Len(t) - 1 : k + 1 \in DOMAIN t
  BY <1>1
<1> QED BY <1>1, <1>2, <1>3 DEF Imported

LEMMA OthersStaySteady ==
    ASSUME WorkspaceInv, CoherenceInv, torn = {}, torn' = {}, NEW p, NEW q \in Procs \ {p},
           proc'[q] = proc[q], disk' = disk \/ \E f, c : Changes(f, c, p)
    PROVE  SteadyOK(q)'
<1>1. SteadyOK(q)
  BY DEF CoherenceInv
<1>2. CASE disk' = disk
  BY <1>1, <1>2 DEF SteadyOK, ReadSoFar, Fresh, JoinsNothing, Reports
<1>3. CASE \E f, c : Changes(f, c, p)
  <2>1. proc[q].pc # "idle" => \A k \in DOMAIN Reads[proc[q].job] :
            disk'[Reads[proc[q].job][k].file] = disk[Reads[proc[q].job][k].file]
    BY <1>3, Undisturbed DEF CoherenceInv
  <2>2. Fresh(q) /\ proc[q].pc = "read" => Fresh(q)'
    BY <2>1 DEF Fresh
  <2> QED BY <1>1, <2>2 DEF SteadyOK, ReadSoFar, JoinsNothing, Reports
<1> QED BY <1>2, <1>3

\* The source of an import stays while others move.
LEMMA SourceStays ==
    ASSUME WorkspaceInv, ReadsInPlace, NEW p, NEW q \in Procs \ {p}, Importing(q),
           "overlap" \notin torn', disk' = disk \/ \E f, c : Changes(f, c, p)
    PROVE  disk'["contexts_source"] = disk["contexts_source"]
<1>1. /\ Reads[proc[q].job] = ImportContextsReads /\ proc[q].pc # "idle"
  BY SteadyReads DEF Importing
<1>2. /\ 1 \in DOMAIN Reads[proc[q].job]
      /\ Reads[proc[q].job][1].file = "contexts_source"
  BY <1>1 DEF ImportContextsReads, Files, Read
<1> QED BY <1>1, <1>2, Undisturbed

LEMMA SteadyJobNames ==
    /\ SteadyJobs \subseteq SealedJobs
    /\ \A j \in SteadyJobs \union {"import_contexts"} :
          j \in Jobs /\ j \notin DOMAIN Goes
    /\ \A j \in DOMAIN Goes : Goes[j] \notin SteadyJobs \union {"import_contexts"}
<1>1. SteadyJobs \subseteq SealedJobs /\ "import_contexts" \in OpenJobs
  BY JobNames DEF SteadyJobs, SealedCommands, OpenJobs
<1> QED BY <1>1, JobNames DEF SteadyJobs, Goes

LEMMA OwnStaysSteady ==
    ASSUME WorkspaceInv, CoherenceInv, torn = {}, NEW p \in Procs, Moves(p)
    PROVE  SteadyOK(p)'
<1>1. SteadyOK(p)
  BY DEF CoherenceInv
<1>2. CASE proc'[p] = Idle
  BY <1>2 DEF SteadyOK, Idle
<1>3. CASE StartsNow(p)
  <2>1. PICK j : proc'[p] = [job |-> j, pc |-> "read", got |-> NoGot, todo |-> <<>>]
    BY <1>3 DEF StartsNow
  <2>2. proc'[p].pc = "read" /\ DOMAIN proc'[p].got = {} /\ proc'[p].job = j
    BY <2>1 DEF NoGot
  <2>3. ASSUME j \in SteadyJobs \union {"import_contexts"}
        PROVE  0 \in 0..Len(Reads[j])
    <3>1. List(Reads[j])
      BY <2>3, SteadyReads, Zenon DEF ReadsApart
    <3>2. Len(Reads[j]) \in Nat
      BY <3>1, ListProperties
    <3> QED BY <3>2
  <2>4. {Reads[j][k].as : k \in 1..0} = {}
    OBVIOUS
  <2> QED BY <2>2, <2>3, <2>4 DEF SteadyOK, ReadSoFar, Fresh
<1>4. CASE ReadsNow(p) /\ disk' = disk
  BY <1>1, <1>4, ReadsOn, SteadyReads DEF SteadyOK, ReadsNow
<1>5. CASE DecidesNow(p)
  <2>1. proc'[p].pc = "act" /\ proc'[p].job = proc[p].job
    BY <1>5 DEF DecidesNow
  <2> QED BY <1>5, <2>1, DecidesSteadily DEF SteadyOK
<1>6. CASE TurnsNow(p)
  <2>1. proc'[p].job \notin SteadyJobs \union {"import_contexts"}
    BY <1>6, GoesWhereItMay, SteadyJobNames DEF TurnsNow, GoesOnTo
  <2> QED BY <2>1 DEF SteadyOK
<1>7. CASE proc[p].pc = "act" /\ Proceeds(p)
  <2>1. CASE /\ proc'[p].pc = proc[p].pc /\ proc'[p].job = proc[p].job
             /\ proc'[p].got = proc[p].got /\ proc'[p].todo = Tail(proc[p].todo)
    BY <1>1, <1>7, <2>1, TailJoins DEF SteadyOK
  <2> QED BY <1>2, <1>7, <2>1, WhatIsLeft
<1> QED BY <1>2, <1>3, <1>4, <1>5, <1>6, <1>7 DEF Moves, WritesNow

\* An import writes the contexts, then their manifest.
LEMMA ImportWrites ==
    ASSUME WorkspaceInv, NEW p \in Procs, Importing(p), WritesNow(p), ImportOK(p)
    PROVE  LET source == disk["contexts_source"]
           IN  \/ /\ proc[p].todo = Imports(source) /\ Effect(p).file = "contexts"
                  /\ disk'["contexts"] = Contexts(source)
                  /\ disk'["import_manifest"] = disk["import_manifest"]
                  /\ proc'[p].pc = "act" /\ proc'[p].job = "import_contexts"
                  /\ proc'[p].todo = Tail(Imports(source))
               \/ /\ proc[p].todo = Tail(Imports(source)) /\ disk["contexts"] = Contexts(source)
                  /\ disk'["contexts"] = Contexts(source)
                  /\ disk'["import_manifest"] = ImportManifest(source)
                  /\ Imported(proc'[p].todo)
               \/ /\ Imported(proc[p].todo) /\ Imported(proc'[p].todo)
                  /\ disk'["contexts"] = disk["contexts"]
                  /\ disk'["import_manifest"] = disk["import_manifest"]
<1> DEFINE t == proc[p].todo
           e == Effect(p)
<1>1. PICK source : source = disk["contexts_source"]
  OBVIOUS
<1>2. /\ List(t) /\ t # <<>> /\ 1 \in DOMAIN t /\ e = t[1] /\ e = Head(t)
  BY TodoIsList DEF Importing, Effect
<1>3. disk' = [disk EXCEPT ![e.file] = e.data] /\ e.file \in DOMAIN disk /\ Proceeds(p)
  BY WritesItsOwn DEF WritesNow, Changes
<1>4. Imported(Idle.todo)
  BY DEF Imported, Idle
<1>5. CASE t = Imports(source)
  <2>1. e.file = "contexts" /\ e.data = Contexts(source)
    BY <1>2, <1>5, ImportsInTurn DEF Replace
  <2>2. Len(t) # 1
    BY <1>5 DEF Imports
  <2>3. DOMAIN proc = Procs /\ DOMAIN proc[p] = {"job", "pc", "got", "todo"}
    BY DEF WorkspaceInv, Covers, SessionOK
  <2>4. proc'[p].pc = "act" /\ proc'[p].job = "import_contexts" /\ proc'[p].todo = Tail(t)
    BY <1>3, <2>2, <2>3 DEF Proceeds, Importing
  <2> QED BY <1>1, <1>3, <1>5, <2>1, <2>4
<1>6. CASE t = Tail(Imports(source)) /\ disk["contexts"] = Contexts(source)
  <2>1. e.file = "import_manifest" /\ e.data = ImportManifest(source)
    BY <1>2, <1>6, ImportsInTurn DEF Replace
  <2>2. Imported(proc'[p].todo)
    BY <1>3, <1>4, <1>6, ImportsInTurn, WhatIsLeft
  <2> QED BY <1>1, <1>3, <1>6, <2>1, <2>2
<1>7. CASE Imported(t)
  <2>1. e.file \notin {"contexts", "import_manifest"}
    BY <1>2, <1>7 DEF Imported
  <2>2. Imported(proc'[p].todo)
    BY <1>2, <1>3, <1>4, <1>7, TailIsImported, WhatIsLeft
  <2> QED BY <1>3, <1>7, <2>1, <2>2
<1> QED BY <1>1, <1>5, <1>6, <1>7 DEF ImportOK

\* An import that has the manifest still to write has it next.
LEMMA ManifestIsNext ==
    ASSUME WorkspaceInv, NEW p \in Procs, NEW source, Importing(p),
           proc[p].todo = Tail(Imports(source))
    PROVE  /\ Effect(p).do = "replace" /\ Effect(p).file = "import_manifest"
           /\ \A j \in {"corpus", "propose"} : Writing(p, j)
<1>1. Effect(p) = Replace("import_manifest", ImportManifest(source))
  BY ImportsInTurn DEF Effect
<1>2. /\ proc[p].pc = "act" /\ 1 \in DOMAIN proc[p].todo /\ proc[p].todo[1] = Effect(p)
  BY TodoIsList DEF Importing
<1>3. \A j \in {"corpus", "propose"} :
          1 \in DOMAIN Reads[j] /\ Reads[j][1].file = "import_manifest"
  BY SteadyReads DEF CorpusReads, ProposeReads, Files, Read
<1>4. Effect(p).do = "replace" /\ Effect(p).file = "import_manifest"
  BY <1>1 DEF Replace
<1> QED BY <1>2, <1>3, <1>4 DEF Writing

\* An import writes.
LEMMA PairStaysOverWrites ==
    ASSUME WorkspaceInv, CoherenceInv, torn = {}, torn' = {},
           {"corpus", "propose"} \intersect JobsIn(scope) # {},
           NEW p \in Procs, Importing(p), WritesNow(p),
           \A q \in Procs \ {p} : proc'[q] = proc[q]
    PROVE  /\ \A q \in Procs : Importing(q)' => ImportOK(q)'
           /\ PairAgrees' \/ HalfWay'
<1>1. PICK source : source = disk["contexts_source"]
  OBVIOUS
<1>2. /\ \A q \in Procs : Importing(q) => ImportOK(q)
      /\ PairAgrees \/ HalfWay
  BY DEF CoherenceInv
<1>3. disk'["contexts_source"] = source
  <2>1. Effect(p).file \in OpenFiles("import_contexts")
    <3>1. "import_contexts" \notin SealedJobs
      BY JobNames DEF OpenJobs
    <3> QED BY <3>1, WritesItsOwn DEF JobWrites, Importing, WritesNow
  <2>2. Effect(p).file # "contexts_source"
    BY <2>1 DEF OpenFiles
  <2> QED BY <1>1, <2>2 DEF WritesNow, Changes
<1>4. CASE /\ proc[p].todo = Imports(source) /\ Effect(p).file = "contexts"
           /\ disk'["contexts"] = Contexts(source)
           /\ disk'["import_manifest"] = disk["import_manifest"]
           /\ proc'[p].pc = "act" /\ proc'[p].job = "import_contexts"
           /\ proc'[p].todo = Tail(Imports(source))
  <2>1. \A q \in Procs : Importing(q)' => ImportOK(q)'
    BY <1>1, <1>2, <1>3, <1>4 DEF Importing, ImportOK
  <2>2. ASSUME HalfWay \/ disk["contexts"] # Contexts(source)
        PROVE  HalfWay'
    <3>1. \A q \in Procs \ {p} : ~(proc[q].pc = "read" /\ proc[q].job \in {"corpus", "propose"})
      <4>1. CASE HalfWay
        BY <4>1 DEF HalfWay
      <4>2. CASE disk["contexts"] # Contexts(source)
        <5>1. \A q \in Procs \ {p} : ~UsedBy(q, "contexts")
          BY <1>4, <4>2 DEF WritesNow, Changes
        <5>2. \A j \in {"corpus", "propose"} :
                  2 \in DOMAIN Reads[j] /\ Reads[j][2].file = "contexts"
          BY SteadyReads DEF CorpusReads, ProposeReads, Files, Read
        <5> QED BY <5>1, <5>2 DEF UsedBy, Running
      <4> QED BY <2>2, <4>1, <4>2
    <3>2. Importing(p)' /\ (proc[p].todo = Tail(Imports(disk["contexts_source"])))'
      BY <1>3, <1>4 DEF Importing
    <3>3. \A q \in Procs : ~(proc'[q].pc = "read" /\ proc'[q].job \in {"corpus", "propose"})
      BY <1>4, <3>1
    <3> QED BY <3>2, <3>3 DEF HalfWay
  <2>3. ASSUME PairAgrees, disk["contexts"] = Contexts(source)
        PROVE  PairAgrees'
    BY <1>4, <2>3 DEF PairAgrees
  <2> QED BY <1>2, <2>1, <2>2, <2>3
<1>5. CASE /\ proc[p].todo = Tail(Imports(source)) /\ disk["contexts"] = Contexts(source)
           /\ disk'["contexts"] = Contexts(source)
           /\ disk'["import_manifest"] = ImportManifest(source)
           /\ Imported(proc'[p].todo)
  <2>1. \A q \in Procs : Importing(q)' => ImportOK(q)'
    BY <1>1, <1>2, <1>3, <1>5 DEF Importing, ImportOK
  <2>2. Contexts(source).basis = source.basis /\ ImportManifest(source).basis = source.basis
    BY DEF Contexts, ImportManifest, Made
  <2>3. PairAgrees'
    BY <1>5, <2>2 DEF PairAgrees, Coherent, Agree
  <2> QED BY <2>1, <2>3
<1>6. CASE /\ Imported(proc[p].todo) /\ Imported(proc'[p].todo)
           /\ disk'["contexts"] = disk["contexts"]
           /\ disk'["import_manifest"] = disk["import_manifest"]
  <2>1. \A q \in Procs : Importing(q)' => ImportOK(q)'
    BY <1>1, <1>2, <1>3, <1>6 DEF Importing, ImportOK
  <2>2. PairAgrees => PairAgrees'
    BY <1>6 DEF PairAgrees
  <2>3. ASSUME HalfWay
        PROVE  HalfWay'
    <3>1. PICK r \in Procs : Importing(r) /\ proc[r].todo = Tail(Imports(source))
      BY <1>1, <2>3 DEF HalfWay
    <3>2. ~Imported(proc[r].todo)
      BY <3>1, ManifestIsNext, TodoIsList DEF Imported, Importing
    <3>3. r # p
      BY <1>6, <3>2
    <3>4. proc'[p].pc # "read"
      BY WhatIsLeft DEF WritesNow, Importing, Idle
    <3> QED BY <1>3, <2>3, <3>1, <3>3, <3>4 DEF HalfWay, Importing
  <2> QED BY <1>2, <2>1, <2>2, <2>3
<1> QED BY <1>1, <1>2, <1>4, <1>5, <1>6, ImportWrites

LEMMA PairStays ==
    ASSUME WorkspaceInv, CoherenceInv, torn = {}, torn' = {},
           {"corpus", "propose"} \intersect JobsIn(scope) # {},
           NEW p \in Procs, Step(p)
    PROVE  /\ \A q \in Procs : Importing(q)' => ImportOK(q)'
           /\ PairAgrees' \/ HalfWay'
<1>1. PICK source : source = disk["contexts_source"]
  OBVIOUS
<1>2. /\ \A q \in Procs : Importing(q) => ImportOK(q)
      /\ PairAgrees \/ HalfWay
  BY DEF CoherenceInv
<1>3. Moves(p) /\ \A q \in Procs \ {p} : proc'[q] = proc[q]
  BY OneMoves
<1>4. CASE Importing(p) /\ WritesNow(p)
  BY <1>3, <1>4, PairStaysOverWrites
<1>5. CASE ~(Importing(p) /\ WritesNow(p))
  <2>1. /\ disk'["contexts"] = disk["contexts"]
        /\ disk'["import_manifest"] = disk["import_manifest"]
    <3>1. CASE disk' = disk
      BY <3>1
    <3>2. CASE WritesNow(p)
      <4>1. proc[p].job # "import_contexts"
        BY <1>5, <3>2 DEF WritesNow, Importing
      <4>2. Effect(p).file \notin {"contexts", "import_manifest"}
        BY <3>2, <4>1, WritesItsOwn, WritersAssumption DEF WritesNow
      <4> QED BY <3>2, <4>2 DEF WritesNow, Changes
    <3> QED BY <1>3, <3>1, <3>2 DEF Moves
  <2>2. \A q \in Procs \ {p} : Importing(q) => disk'["contexts_source"] = source
    <3>1. disk' = disk \/ \E f, c : Changes(f, c, p)
      BY <1>3 DEF Moves, WritesNow
    <3> QED BY <1>1, <3>1, SourceStays DEF CoherenceInv
  <2>3. \A q \in Procs \ {p} : Importing(q)' => ImportOK(q)'
    BY <1>1, <1>2, <1>3, <2>1, <2>2 DEF Importing, ImportOK
  <2>4. Importing(p)' => ImportOK(p)'
    <3>1. CASE DecidesNow(p) /\ disk' = disk
      <4> SUFFICES ASSUME Importing(p)'
                   PROVE  ImportOK(p)'
        OBVIOUS
      <4>1. proc[p].job = "import_contexts"
        BY <3>1 DEF DecidesNow, Importing
      <4> QED BY <3>1, <4>1, DecidesSteadily DEF ImportOK
    <3>2. CASE /\ proc[p].pc = "act" /\ Proceeds(p) /\ ~WritesNow(p)
               /\ Effect(p).do \in {"expect", "immutable"}
      <4> SUFFICES ASSUME Importing(p)'
                   PROVE  Imported(proc'[p].todo)
        BY DEF ImportOK
      <4>1. /\ proc[p].job = "import_contexts" /\ proc'[p].todo = Tail(proc[p].todo)
        BY <3>2, WhatIsLeft DEF Importing, Idle
      <4>2. Importing(p) /\ List(proc[p].todo) /\ proc[p].todo # <<>>
        BY <3>2, <4>1, TodoIsList DEF Importing
      <4>3. proc[p].todo # Imports(source)
        BY <3>2, ImportsInTurn DEF Effect, Replace
      <4>4. proc[p].todo # Tail(Imports(source))
        BY <3>2, <4>2, ManifestIsNext
      <4> QED BY <1>1, <1>2, <4>1, <4>2, <4>3, <4>4, TailIsImported DEF ImportOK
    <3>3. CASE WritesNow(p)
      BY <1>5, <3>3, WhatIsLeft DEF WritesNow, Importing, Idle
    <3>4. CASE proc'[p].pc # "act"
      BY <3>4 DEF Importing
    <3>5. \/ DecidesNow(p) /\ disk' = disk
          \/ /\ proc[p].pc = "act" /\ Proceeds(p) /\ ~WritesNow(p)
             /\ Effect(p).do \in {"expect", "immutable"}
          \/ WritesNow(p)
          \/ proc'[p].pc # "act"
      <4>1. ReadsNow(p) \/ TurnsNow(p) => proc'[p].pc = "read"
        BY DEF ReadsNow, TurnsNow
      <4>2. proc'[p] = Idle => proc'[p].pc = "idle"
        BY DEF Idle
      <4>3. ASSUME StartsNow(p)
            PROVE  proc'[p].pc = "read"
        <5>1. PICK j : /\ Start(p, j)
                       /\ proc'[p] = [job |-> j, pc |-> "read", got |-> NoGot, todo |-> <<>>]
          BY <4>3 DEF StartsNow
        <5> QED BY <5>1
      <4> QED BY <1>3, <4>1, <4>2, <4>3 DEF Moves
    <3> QED BY <3>1, <3>2, <3>3, <3>4, <3>5
  <2>5. PairAgrees => PairAgrees'
    BY <2>1 DEF PairAgrees
  <2>6. ASSUME HalfWay
        PROVE  HalfWay'
    <3>1. PICK r \in Procs : Importing(r) /\ proc[r].todo = Tail(Imports(source))
      BY <1>1, <2>6 DEF HalfWay
    <3>2. r # p
      <4> SUFFICES ASSUME r = p PROVE FALSE
        OBVIOUS
      <4> QED BY <1>5, <3>1, ManifestIsNext, ReplacesOrIsCut DEF Importing
    <3>3. ~(proc'[p].pc = "read" /\ proc'[p].job \in {"corpus", "propose"})
      <4>1. CASE StartsNow(p)
        <5>1. PICK j : Start(p, j) /\ proc'[p].job = j
          BY <4>1 DEF StartsNow
        <5>2. ~Writing(r, j)
          BY <5>1 DEF Start
        <5> QED BY <3>1, <5>1, <5>2, ManifestIsNext
      <4>2. CASE ReadsNow(p)
        BY <2>6, <4>2 DEF ReadsNow, HalfWay
      <4>3. CASE TurnsNow(p)
        BY <4>3, GoesWhereItMay, SteadyJobNames DEF TurnsNow, GoesOnTo, SteadyJobs
      <4>4. CASE proc[p].pc = "act" /\ Proceeds(p)
        BY <4>4, WhatIsLeft DEF Idle
      <4>5. CASE proc'[p] = Idle \/ DecidesNow(p)
        BY <4>5 DEF Idle, DecidesNow
      <4> QED BY <1>3, <4>1, <4>2, <4>3, <4>4, <4>5 DEF Moves, WritesNow
    <3> QED BY <1>3, <2>2, <2>6, <3>1, <3>2, <3>3 DEF HalfWay, Importing
  <2> QED BY <1>2, <2>3, <2>4, <2>5, <2>6
<1> QED BY <1>4, <1>5

LEMMA CoherenceInitEstablishes == Init => CoherenceInv
<1> SUFFICES ASSUME Init PROVE CoherenceInv
  OBVIOUS
<1>1. scope \in DOMAIN Scopes /\ disk \in Stock[scope] /\ \A p \in Procs : proc[p] = Idle
  BY DEF Init
<1>2. ReadsInPlace
  BY <1>1, ScopesAssumption DEF ReadsInPlace
<1>3. "proposal_report" \in DOMAIN disk => IsReport(disk["proposal_report"])
  BY <1>1, SourcesAssumption
<1>4. ASSUME torn = {}, {"corpus", "propose"} \intersect JobsIn(scope) # {}
      PROVE  PairAgrees
  <2>1. OneVersion(disk)
    BY <1>4 DEF Init
  <2>2. \A j \in {"corpus", "propose"} : \E k, l \in DOMAIN Reads[j] :
            Reads[j][k].file = "contexts" /\ Reads[j][l].file = "import_manifest"
    BY SteadyReads DEF CorpusReads, ProposeReads, Files, Read
  <2>3. "contexts" \in DOMAIN disk /\ "import_manifest" \in DOMAIN disk
    BY <1>2, <1>4, <2>2 DEF ReadsInPlace
  <2> QED BY <2>1, <2>3 DEF OneVersion, PairAgrees, Agree
<1> QED BY <1>1, <1>2, <1>3, <1>4 DEF CoherenceInv, SteadyOK, Importing, Idle

LEMMA CoherenceStays ==
    ASSUME WorkspaceInv, CoherenceInv, [Next]_vars
    PROVE  CoherenceInv'
<1>1. ASSUME NEW p \in Procs, Step(p)
      PROVE  CoherenceInv'
  <2>1. /\ scope' = scope /\ torn \subseteq torn' /\ Moves(p)
        /\ \A q \in Procs \ {p} : proc'[q] = proc[q]
    BY <1>1, OneMoves
  <2>2. disk' = disk \/ WritesNow(p)
    BY <2>1 DEF Moves
  <2>3. ReadsInPlace'
    BY <2>1, <2>2 DEF CoherenceInv, ReadsInPlace, WritesNow, Changes
  <2> SUFFICES ASSUME torn' = {}
               PROVE  /\ \A q \in Procs : SteadyOK(q)'
                      /\ "proposal_report" \in DOMAIN disk' => IsReport(disk'["proposal_report"])
                      /\ {"corpus", "propose"} \intersect JobsIn(scope) # {} =>
                            /\ \A q \in Procs : Importing(q)' => ImportOK(q)'
                            /\ PairAgrees' \/ HalfWay'
    BY <2>1, <2>3 DEF CoherenceInv
  <2>4. torn = {}
    BY <2>1
  <2>5. \A q \in Procs : SteadyOK(q)'
    BY <2>1, <2>2, <2>4, OwnStaysSteady, OthersStaySteady DEF WritesNow
  <2>6. "proposal_report" \in DOMAIN disk' => IsReport(disk'["proposal_report"])
    <3>1. CASE disk' = disk
      BY <2>4, <3>1 DEF CoherenceInv
    <3>2. CASE WritesNow(p) /\ Effect(p).file # "proposal_report"
      BY <2>4, <3>2 DEF CoherenceInv, WritesNow, Changes
    <3>3. CASE WritesNow(p) /\ Effect(p).file = "proposal_report"
      <4>1. proc[p].job = "propose"
        BY <3>3, WritesItsOwn, WritersAssumption DEF WritesNow
      <4>2. Reports(p)
        BY <2>4, <3>3, <4>1 DEF CoherenceInv, SteadyOK, WritesNow, SteadyJobs
      <4>3. IsReport(Effect(p).data)
        BY <3>3, <4>2, TodoIsList DEF Reports, Writes, WritesNow
      <4> QED BY <3>3, <4>3 DEF WritesNow, Changes
    <3> QED BY <2>2, <3>1, <3>2, <3>3
  <2> QED BY <1>1, <2>4, <2>5, <2>6, PairStays
<1>2. ASSUME NEW e \in Exchanges[scope], Edit(e.file, e.data)
      PROVE  CoherenceInv'
  <2>1. /\ scope' = scope /\ proc' = proc /\ torn \subseteq torn'
        /\ Changes(e.file, e.data, "nobody") /\ scope \in DOMAIN Scopes
    BY <1>2 DEF Edit, Changes, WorkspaceInv, Covers
  <2>2. /\ e.file # "proposal_report"
        /\ e.file \in {"contexts", "import_manifest"}
              => {"corpus", "propose"} \intersect JobsIn(scope) = {}
    BY <2>1, SourcesAssumption
  <2>3. DOMAIN disk' = DOMAIN disk /\ \A f \in DOMAIN disk : f # e.file => disk'[f] = disk[f]
    BY <2>1 DEF Changes
  <2>4. ReadsInPlace'
    BY <2>1, <2>3 DEF CoherenceInv, ReadsInPlace
  <2> SUFFICES ASSUME torn' = {}
               PROVE  /\ \A q \in Procs : SteadyOK(q)'
                      /\ "proposal_report" \in DOMAIN disk' => IsReport(disk'["proposal_report"])
                      /\ {"corpus", "propose"} \intersect JobsIn(scope) # {} =>
                            /\ \A q \in Procs : Importing(q)' => ImportOK(q)'
                            /\ PairAgrees' \/ HalfWay'
    BY <2>1, <2>4 DEF CoherenceInv
  <2>5. torn = {} /\ \A q \in Procs : q \in Procs \ {"nobody"}
    BY <2>1, ProcsAssumption
  <2>6. \A q \in Procs : SteadyOK(q)'
    BY <2>1, <2>5, OthersStaySteady
  <2>7. "proposal_report" \in DOMAIN disk' => IsReport(disk'["proposal_report"])
    BY <2>2, <2>3, <2>5 DEF CoherenceInv
  <2>8. ASSUME {"corpus", "propose"} \intersect JobsIn(scope) # {}
        PROVE  /\ \A q \in Procs : Importing(q)' => ImportOK(q)'
               /\ PairAgrees' \/ HalfWay'
    <3>1. disk'["contexts"] = disk["contexts"] /\ disk'["import_manifest"] = disk["import_manifest"]
      BY <2>1, <2>2, <2>8 DEF Changes
    <3>2. \A q \in Procs : Importing(q) => disk'["contexts_source"] = disk["contexts_source"]
      BY <2>1, <2>5, SourceStays DEF CoherenceInv
    <3>3. \A q \in Procs : Importing(q)' => ImportOK(q)'
      BY <2>1, <2>5, <2>8, <3>1, <3>2 DEF CoherenceInv, Importing, ImportOK
    <3>4. PairAgrees' \/ HalfWay'
      <4>1. CASE PairAgrees
        BY <3>1, <4>1 DEF PairAgrees
      <4>2. CASE HalfWay
        BY <2>1, <3>2, <4>2 DEF HalfWay, Importing
      <4> QED BY <2>5, <2>8, <4>1, <4>2 DEF CoherenceInv
    <3> QED BY <3>3, <3>4
  <2> QED BY <2>6, <2>7, <2>8
<1>3. CASE UNCHANGED vars
  <2>1. proc' = proc /\ disk' = disk /\ scope' = scope /\ torn' = torn
    BY <1>3 DEF vars
  <2>2. ReadsInPlace' <=> ReadsInPlace
    BY <2>1 DEF ReadsInPlace
  <2>3. \A q \in Procs : SteadyOK(q)' <=> SteadyOK(q)
    BY <2>1 DEF SteadyOK, ReadSoFar, Fresh, JoinsNothing, Reports
  <2>4. \A q \in Procs : /\ Importing(q)' <=> Importing(q)
                         /\ ImportOK(q)' <=> ImportOK(q)
    BY <2>1 DEF Importing, ImportOK
  <2>5. (PairAgrees' <=> PairAgrees) /\ (HalfWay' <=> HalfWay)
    BY <2>1, <2>4 DEF PairAgrees, HalfWay
  <2> QED BY <2>1, <2>2, <2>3, <2>4, <2>5 DEF CoherenceInv
<1> QED BY <1>1, <1>2, <1>3 DEF Next

\* The corpus, the proposals and the aliases are each of one version of the contexts, in a
\* directory that was of one version, in which no file changed under a running job and no job
\* stopped between two of its effects: for any processes, jobs and contents.
THEOREM SteadyJobsJoinNothing == Spec => []CoherentUnlessTorn
<1>1. CoherenceInv => CoherentUnlessTorn
  BY DEF CoherenceInv, CoherentUnlessTorn, Joins, SteadyOK, JoinsNothing
<1> QED BY <1>1, CoherenceInitEstablishes, CoherenceStays, WorkspaceInvHolds, PTL DEF Spec
=============================================================================
