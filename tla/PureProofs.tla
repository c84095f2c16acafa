------------------------------ MODULE PureProofs ------------------------------
(***************************************************************************)
(* Proofs about the pure functions, for inputs of any length: what MCPure  *)
(* checks up to its bounds.                                                *)
(***************************************************************************)
EXTENDS MCPure, FiniteSetTheorems, FunctionTheorems, SequenceTheorems, TLAPS

(***************************************************************************)
(* Induction, from the well-foundedness of the strict subsets: the         *)
(* library's own rules take an operator.                                   *)
(***************************************************************************)
\* A set of naturals has a least element.
LEMMA Least ==
  ASSUME NEW T, T \subseteq Nat, T # {}
  PROVE  \E m \in T : \A n \in T : m <= n
<1> DEFINE Upto(m) == {k \in T : k <= m}
           F == {Upto(m) : m \in T}
           R == StrictSubsetOrdering(Nat)
           FS == FiniteSubsetsOf(Nat)
<1>1. IsWellFoundedOn(R, FS) BY FS_StrictSubsetOrderingWellFounded
<1>2. \A m \in T : Upto(m) \in FS
  <2>1. SUFFICES ASSUME NEW m \in T PROVE Upto(m) \in FS OBVIOUS
  <2>2. IsFiniteSet(Upto(m)) BY FS_BoundedSetOfNaturals
  <2>. QED BY <2>2 DEF FiniteSubsetsOf
<1>3. F \subseteq FS /\ F # {} BY <1>2
<1>4. PICK U \in F : \A V \in F : ~ (<<V, U>> \in R)
  <2>. HIDE DEF F, R, FS
  <2>. QED BY <1>1, <1>3, WFMin
<1>5. PICK m \in T : U = Upto(m) OBVIOUS
<1>6. ASSUME NEW n \in T, n < m PROVE FALSE
  <2>1. m \in Nat /\ n \in Nat OBVIOUS
  <2>2. \A k \in T : k <= n => k <= m BY <1>6, <2>1
  <2>3. Upto(n) \subseteq Upto(m) BY <2>2
  <2>4. m \in Upto(m) /\ m \notin Upto(n) BY <1>6, <2>1
  <2>5. Upto(n) \in SUBSET Nat /\ Upto(m) \in SUBSET Nat OBVIOUS
  <2>6. <<Upto(n), Upto(m)>> \in R BY <2>3, <2>4, <2>5 DEF StrictSubsetOrdering
  <2>. QED BY <1>4, <1>5, <2>6
<1>. QED BY <1>6

\* ... and a bounded one a greatest.
LEMMA Greatest ==
  ASSUME NEW n \in Nat, NEW T, T \subseteq 0..n, T # {}
  PROVE  \E m \in T : \A k \in T : k <= m
<1> DEFINE D == {n - k : k \in T}
<1>0. \A k \in T : k \in Nat /\ k <= n OBVIOUS
<1>1. D \subseteq Nat /\ D # {}
  <2>1. \A k \in T : n - k \in Nat BY <1>0
  <2>2. PICK k \in T : TRUE OBVIOUS
  <2>3. n - k \in D BY <2>2
  <2>. QED BY <2>1, <2>3
<1>2. PICK d \in D : \A e \in D : d <= e BY <1>1, Least
<1>3. PICK m \in T : d = n - m OBVIOUS
<1>4. \A k \in T : n - m <= n - k BY <1>2, <1>3
<1>. QED BY <1>0, <1>4

LEMMA Induction ==
  ASSUME NEW S, 0 \in S, \A n \in Nat : n \in S => n + 1 \in S
  PROVE  \A n \in Nat : n \in S
<1>1. SUFFICES ASSUME Nat \ S # {} PROVE FALSE OBVIOUS
<1>2. PICK m \in Nat \ S : \A n \in Nat \ S : m <= n BY <1>1, Least
<1>3. m # 0 /\ m - 1 \in Nat OBVIOUS
<1>4. m - 1 \in S BY <1>2, <1>3
<1>. QED BY <1>3, <1>4

\* The two that SequencesExt selects with.
LEMMA MinIsLeast ==
  ASSUME NEW T, T \subseteq Nat, T # {}
  PROVE  Min(T) \in T /\ \A n \in T : Min(T) <= n
BY Least DEF Min

LEMMA MaxIsGreatest ==
  ASSUME NEW n \in Nat, NEW T, T \subseteq 0..n, T # {}
  PROVE  Max(T) \in T /\ \A k \in T : k <= Max(T)
<1>1. \E m \in T : \A k \in T : m >= k
  <2>1. PICK m \in T : \A k \in T : k <= m BY Greatest
  <2>. QED BY <2>1
<1>. QED BY <1>1 DEF Max

(***************************************************************************)
(* Sequences of sequences, laid end to end.                                *)
(***************************************************************************)
FlattenStep(h, seqs) ==
  h = [i \in 1..Len(seqs) |-> IF i = 1 THEN seqs[i] ELSE h[i - 1] \o seqs[i]]

LEMMA FlattenExists ==
  ASSUME NEW X, NEW seqs \in Seq(Seq(X)), seqs # <<>>
  PROVE  \E h : FlattenStep(h, seqs)
<1> DEFINE Upto(h, n) == \A i \in 1..n : h[i] = IF i = 1 THEN seqs[i] ELSE h[i - 1] \o seqs[i]
           S == {n \in Nat : n \in 1..Len(seqs) => \E h \in [1..n -> Seq(X)] : Upto(h, n)}
<1>1. 0 \in S OBVIOUS
<1>2. ASSUME NEW n \in Nat, n \in S PROVE n + 1 \in S
  <2>1. SUFFICES ASSUME n + 1 \in 1..Len(seqs)
                 PROVE  \E h \in [1..(n + 1) -> Seq(X)] : Upto(h, n + 1)
    OBVIOUS
  <2>2. seqs[n + 1] \in Seq(X) BY <2>1
  <2>3. CASE n = 0
    <3> DEFINE g == [i \in 1..1 |-> seqs[1]]
    <3>1. g \in [1..1 -> Seq(X)] /\ 1..(n + 1) = 1..1 BY <2>2, <2>3
    <3>2. \A i \in 1..1 : i = 1 /\ g[i] = seqs[i] OBVIOUS
    <3>3. Upto(g, n + 1) BY <3>1, <3>2
    <3>. QED BY <3>1, <3>3
  <2>4. CASE n # 0
    <3>0. n \in 1..n /\ n \in 1..Len(seqs) BY <2>1, <2>4
    <3>1. PICK h \in [1..n -> Seq(X)] : Upto(h, n) BY <1>2, <3>0
    <3> DEFINE g == [i \in 1..(n + 1) |-> IF i = n + 1 THEN h[n] \o seqs[n + 1] ELSE h[i]]
    <3>2. h[n] \o seqs[n + 1] \in Seq(X)
      <4>1. h[n] \in Seq(X) BY <3>0
      <4>. QED BY <2>2, <4>1, ConcatProperties
    <3>3. g \in [1..(n + 1) -> Seq(X)] BY <3>2
    <3>4. ASSUME NEW i \in 1..(n + 1)
          PROVE  g[i] = IF i = 1 THEN seqs[i] ELSE g[i - 1] \o seqs[i]
      <4>1. CASE i = n + 1
        <5>1. g[i] = h[n] \o seqs[i] BY <4>1
        <5>2. i # 1 /\ i - 1 = n /\ i - 1 \in 1..(n + 1) /\ i - 1 # n + 1 BY <3>0, <4>1
        <5>3. g[i - 1] = h[n] BY <5>2
        <5>. QED BY <5>1, <5>2, <5>3
      <4>2. CASE i # n + 1
        <5>1. i \in 1..n BY <4>2
        <5>2. i # 1 => i - 1 \in 1..n BY <5>1
        <5>3. g[i] = h[i] /\ (i # 1 => g[i - 1] = h[i - 1]) BY <4>2, <5>1, <5>2
        <5>4. h[i] = IF i = 1 THEN seqs[i] ELSE h[i - 1] \o seqs[i] BY <3>1, <5>1
        <5>. QED BY <5>3, <5>4
      <4>. QED BY <4>1, <4>2
    <3>5. Upto(g, n + 1) BY <3>4
    <3>. QED BY <3>3, <3>5
  <2>. QED BY <2>3, <2>4
<1>3. Len(seqs) \in S
  <2>. HIDE DEF S
  <2>. QED BY <1>1, <1>2, Induction
<1>4. PICK h \in [1..Len(seqs) -> Seq(X)] : Upto(h, Len(seqs)) BY <1>3
<1>5. h = [i \in 1..Len(seqs) |-> IF i = 1 THEN seqs[i] ELSE h[i - 1] \o seqs[i]] BY <1>4
<1>. QED BY <1>5 DEF FlattenStep

\* An element of s \o t is one of s or one of t.
LEMMA Concat ==
  ASSUME NEW X, NEW s \in Seq(X), NEW t \in Seq(X)
  PROVE  /\ s \o t \in Seq(X)
         /\ Len(s) \in Nat /\ Len(t) \in Nat /\ Len(s \o t) = Len(s) + Len(t)
         /\ \A j \in 1..Len(s) : j \in 1..Len(s \o t) /\ (s \o t)[j] = s[j]
         /\ \A k \in 1..Len(t) : Len(s) + k \in 1..Len(s \o t) /\ (s \o t)[Len(s) + k] = t[k]
         /\ \A j \in 1..Len(s \o t) :
              j \in 1..Len(s) \/ (j - Len(s) \in 1..Len(t) /\ j = Len(s) + (j - Len(s)))
<1>1. Len(s) \in Nat /\ Len(t) \in Nat BY LenProperties
<1>2. /\ s \o t \in Seq(X)
      /\ Len(s \o t) = Len(s) + Len(t)
      /\ \A i \in 1..Len(s) + Len(t) : (s \o t)[i] = IF i <= Len(s) THEN s[i] ELSE t[i - Len(s)]
  BY ConcatProperties
<1>3. \A j \in 1..Len(s) : j \in 1..Len(s) + Len(t) /\ j <= Len(s) BY <1>1
<1>4. ASSUME NEW k \in 1..Len(t)
      PROVE  /\ Len(s) + k \in 1..Len(s) + Len(t) /\ ~ (Len(s) + k <= Len(s))
             /\ (Len(s) + k) - Len(s) = k
  BY <1>1
<1>5. \A j \in 1..Len(s) + Len(t) :
        j \in 1..Len(s) \/ (j - Len(s) \in 1..Len(t) /\ j = Len(s) + (j - Len(s)))
  BY <1>1
<1>6. \A j \in 1..Len(s) : j \in 1..Len(s \o t) /\ (s \o t)[j] = s[j] BY <1>2, <1>3
<1>7. \A k \in 1..Len(t) : Len(s) + k \in 1..Len(s \o t) /\ (s \o t)[Len(s) + k] = t[k]
  BY <1>2, <1>4
<1>. QED BY <1>1, <1>2, <1>5, <1>6, <1>7

\* The first n of the parts give flat: its elements are theirs, and the first part
\* is in front.
LaidOut(flat, seqs, n) ==
  /\ \A j \in 1..Len(flat) :
       \E i \in 1..n : \E k \in 1..Len(seqs[i]) : flat[j] = seqs[i][k]
  /\ \A i \in 1..n : \A k \in 1..Len(seqs[i]) :
       \E j \in 1..Len(flat) : flat[j] = seqs[i][k]
  /\ seqs[1] # <<>> => flat # <<>> /\ flat[1] = seqs[1][1]

LEMMA LaidOutOne ==
  ASSUME NEW X, NEW seqs \in Seq(Seq(X)), seqs # <<>>
  PROVE  LaidOut(seqs[1], seqs, 1)
<1>1. 1..1 = {1} OBVIOUS
<1>. QED BY <1>1 DEF LaidOut

LEMMA LaidOutMore ==
  ASSUME NEW X, NEW seqs \in Seq(Seq(X)), NEW n \in Nat \ {0}, n + 1 \in 1..Len(seqs),
         NEW flat \in Seq(X), LaidOut(flat, seqs, n)
  PROVE  LaidOut(flat \o seqs[n + 1], seqs, n + 1)
<1> DEFINE part == seqs[n + 1]
           more == flat \o part
<1>1. part \in Seq(X) BY ElementOfSeq
<1>2. /\ more \in Seq(X)
      /\ Len(flat) \in Nat /\ Len(part) \in Nat
      /\ \A j \in 1..Len(flat) : j \in 1..Len(more) /\ more[j] = flat[j]
      /\ \A k \in 1..Len(part) : Len(flat) + k \in 1..Len(more) /\ more[Len(flat) + k] = part[k]
      /\ \A j \in 1..Len(more) :
           j \in 1..Len(flat) \/ (j - Len(flat) \in 1..Len(part) /\ j = Len(flat) + (j - Len(flat)))
  <2>. HIDE DEF part
  <2>. QED BY <1>1, Concat
<1>3. n \in 1..n /\ n + 1 \in 1..(n + 1) /\ 1..n \subseteq 1..(n + 1) OBVIOUS
<1>4. ASSUME NEW j \in 1..Len(more)
      PROVE  \E i \in 1..(n + 1) : \E k \in 1..Len(seqs[i]) : more[j] = seqs[i][k]
  <2>. HIDE DEF more
  <2>1. CASE j \in 1..Len(flat)
    <3>1. PICK i \in 1..n : \E k \in 1..Len(seqs[i]) : flat[j] = seqs[i][k] BY <2>1 DEF LaidOut
    <3>. QED BY <1>2, <1>3, <2>1, <3>1
  <2>2. CASE j - Len(flat) \in 1..Len(part) /\ j = Len(flat) + (j - Len(flat))
    <3>1. more[j] = part[j - Len(flat)] BY <1>2, <2>2
    <3>. QED BY <1>3, <2>2, <3>1
  <2>. QED BY <1>2, <2>1, <2>2
<1>5. ASSUME NEW i \in 1..(n + 1), NEW k \in 1..Len(seqs[i])
      PROVE  \E j \in 1..Len(more) : more[j] = seqs[i][k]
  <2>. HIDE DEF more
  <2>1. CASE i = n + 1 BY <1>2, <2>1
  <2>2. CASE i # n + 1
    <3>1. i \in 1..n BY <2>2
    <3>2. PICK j \in 1..Len(flat) : flat[j] = seqs[i][k] BY <3>1 DEF LaidOut
    <3>. QED BY <1>2, <3>2
  <2>. QED BY <2>1, <2>2
<1>6. ASSUME seqs[1] # <<>> PROVE more # <<>> /\ more[1] = seqs[1][1]
  <2>1. flat # <<>> /\ flat[1] = seqs[1][1] BY <1>6 DEF LaidOut
  <2>2. Len(flat) \in Nat \ {0} BY <2>1, EmptySeq
  <2>3. 1 \in 1..Len(flat) BY <2>2
  <2>4. 1 \in 1..Len(more) /\ more[1] = flat[1]
    <3>. HIDE DEF more
    <3>. QED BY <1>2, <2>3
  <2>5. more # <<>>
    <3>. HIDE DEF more
    <3>. QED BY <2>4
  <2>. QED BY <2>1, <2>4, <2>5
<1>. HIDE DEF more
<1>7. LaidOut(more, seqs, n + 1) BY <1>4, <1>5, <1>6 DEF LaidOut
<1>. QED BY <1>7 DEF more

\* The parts' elements, no others, and the first part first.
LEMMA FlattenSeqProperties ==
  ASSUME NEW X, NEW seqs \in Seq(Seq(X)), seqs # <<>>
  PROVE  FlattenSeq(seqs) \in Seq(X) /\ LaidOut(FlattenSeq(seqs), seqs, Len(seqs))
<1> DEFINE h == CHOOSE f : FlattenStep(f, seqs)
           Good(n) == h[n] \in Seq(X) /\ LaidOut(h[n], seqs, n)
           S == {n \in Nat : n \in 1..Len(seqs) => Good(n)}
<1>1. FlattenStep(h, seqs) BY FlattenExists
<1>3. Len(seqs) \in Nat \ {0} BY EmptySeq
<1>4. FlattenSeq(seqs) = h[Len(seqs)] BY <1>3 DEF FlattenSeq, FlattenStep
<1>. HIDE DEF h
<1>2. \A i \in 1..Len(seqs) : h[i] = IF i = 1 THEN seqs[i] ELSE h[i - 1] \o seqs[i]
  BY <1>1 DEF FlattenStep
<1>5. 0 \in S OBVIOUS
<1>6. \A n \in Nat : n \in S => n + 1 \in S
  <2>1. SUFFICES ASSUME NEW n \in Nat, n \in 1..Len(seqs) => Good(n), n + 1 \in 1..Len(seqs)
                 PROVE  Good(n + 1)
    <3>. HIDE DEF Good
    <3>. QED OBVIOUS
  <2>2. seqs[n + 1] \in Seq(X) BY <2>1, ElementOfSeq
  <2>3. CASE n = 0
    <3>1. h[1] = seqs[1] BY <1>2, <2>1, <2>3
    <3>2. LaidOut(seqs[1], seqs, 1) BY LaidOutOne
    <3>. QED BY <2>2, <2>3, <3>1, <3>2
  <2>4. CASE n # 0
    <3>1. n \in Nat \ {0} /\ n \in 1..Len(seqs) BY <1>3, <2>1, <2>4
    <3>2. Good(n) BY <2>1, <3>1
    <3>3. n + 1 # 1 /\ (n + 1) - 1 = n BY <2>4
    <3>4. h[n + 1] = h[n] \o seqs[n + 1] BY <1>2, <2>1, <3>3
    <3>5. h[n] \o seqs[n + 1] \in Seq(X) BY <2>2, <3>2, ConcatProperties
    <3>6. LaidOut(h[n] \o seqs[n + 1], seqs, n + 1) BY <2>1, <3>1, <3>2, LaidOutMore
    <3>. QED BY <3>4, <3>5, <3>6
  <2>. QED BY <2>3, <2>4
<1>7. Len(seqs) \in S
  <2>. HIDE DEF S
  <2>. QED BY <1>3, <1>5, <1>6, Induction
<1>8. Len(seqs) \in 1..Len(seqs) BY <1>3
<1>9. Good(Len(seqs)) BY <1>7, <1>8
<1>. QED BY <1>4, <1>9

-----------------------------------------------------------------------------
(***************************************************************************)
(* Container names.                                                        *)
(***************************************************************************)
\* What Resolve lays end to end.
Pieces(template, env) ==
  [i \in DOMAIN template |->
    CASE template[i] \in Chars -> <<template[i]>>
      [] template[i] \in DOMAIN env -> env[template[i]]
      [] OTHER -> <<"open">>]

Envs == UNION {[D -> Seq(Chars)] : D \in SUBSET Vars}

LEMMA Resolved ==
  ASSUME NEW env \in Envs, NEW template \in Seq(Chars \cup Vars)
  PROVE  /\ Resolve(template, env) \in Seq(Chars)
         /\ template = <<>> => Resolve(template, env) = <<>>
         /\ template # <<>> =>
              LaidOut(Resolve(template, env), Pieces(template, env), Len(template))
<1> DEFINE pieces == Pieces(template, env)
<1>1. Resolve(template, env) = FlattenSeq(pieces) BY DEF Resolve, Pieces
<1>2. Len(template) \in Nat /\ DOMAIN template = 1..Len(template) BY LenProperties
<1>3. \A i \in DOMAIN template : pieces[i] \in Seq(Chars)
  <2>1. SUFFICES ASSUME NEW i \in DOMAIN template PROVE pieces[i] \in Seq(Chars) OBVIOUS
  <2>2. CASE template[i] \in Chars
    <3>1. template[i] \notin DOMAIN env BY <2>2, NamesAssumption DEF Envs
    <3>2. pieces[i] = <<template[i]>> BY <2>2, <3>1 DEF Pieces
    <3>. QED BY <2>2, <3>2
  <2>3. CASE template[i] \notin Chars /\ template[i] \in DOMAIN env
    <3>1. env[template[i]] \in Seq(Chars) BY <2>3 DEF Envs
    <3>. QED BY <2>3, <3>1 DEF Pieces
  <2>4. CASE template[i] \notin Chars /\ template[i] \notin DOMAIN env
    <3>1. pieces[i] = <<"open">> BY <2>4 DEF Pieces
    <3>. QED BY <3>1 DEF Chars
  <2>. QED BY <2>2, <2>3, <2>4
<1>4. pieces \in [1..Len(template) -> Seq(Chars)] BY <1>2, <1>3 DEF Pieces
<1>5. pieces \in Seq(Seq(Chars)) /\ Len(pieces) = Len(template)
  <2>. HIDE DEF pieces
  <2>. QED BY <1>2, <1>4
<1>. HIDE DEF pieces
<1>6. CASE template = <<>>
  <2>1. pieces = <<>> BY <1>5, <1>6
  <2>2. FlattenSeq(pieces) = <<>> BY <2>1 DEF FlattenSeq
  <2>. QED BY <1>1, <1>6, <2>2
<1>7. CASE template # <<>>
  <2>1. Len(template) # 0 BY <1>7, EmptySeq
  <2>2. pieces # <<>> BY <1>5, <2>1
  <2>3. FlattenSeq(pieces) \in Seq(Chars) /\ LaidOut(FlattenSeq(pieces), pieces, Len(template))
    BY <1>5, <2>2, FlattenSeqProperties
  <2>. QED BY <1>1, <1>7, <2>3 DEF pieces
<1>. QED BY <1>6, <1>7

\* Without a line break at its end, a valid name is one the engine accepts.
LEMMA PlainAndValid ==
  ASSUME NEW name \in Seq(Chars), Plain(name), IsValid(name)
  PROVE  EngineAccepts(name)
<1>1. Len(name) \in Nat /\ DOMAIN name = 1..Len(name) BY LenProperties
<1>2. name[Len(name)] # "newline" BY DEF Plain, Last, IsValid
<1>. QED BY <1>1, <1>2 DEF IsValid, EngineAccepts

LEMMA AcceptedIsValid ==
  ASSUME NEW name, EngineAccepts(name)
  PROVE  IsValid(name)
BY DEF IsValid, EngineAccepts

\* A name matches the container that has it.
LEMMA MatchesItself ==
  ASSUME NEW name \in Seq(Chars), NEW c, c.name = name
  PROVE  Matches(name, c)
<1>1. Len(name) \in Nat BY LenProperties
<1>2. 0 \in 0..(Len(c.name) - Len(name)) BY <1>1
<1>3. SubSeq(c.name, 0 + 1, 0 + Len(name)) = name
  <2>1. 0 + 1 = 1 /\ 0 + Len(name) = Len(name) BY <1>1
  <2>. QED BY <2>1, SubSeqFull
<1>. QED BY <1>2, <1>3 DEF Matches

\* What validate_runargs_container_name and check_container_name_conflict let
\* through of a configuration in strict JSON is good and free (lint.py:129-255),
\* whatever the templates.
THEOREM PassedNamesAreGood ==
  ASSUME NEW strict, NEW env \in Envs, NEW templates, NEW workspace,
         NEW containers, NEW answers,
         \A i \in DOMAIN templates : templates[i] \in Seq(Chars \cup Vars)
  PROVE  CliGetsGoodNames(strict, templates, env, workspace, containers, answers)
<1>1. SUFFICES ASSUME Refusals(templates, env) = {},
                      ~Conflicts(templates, env, workspace, containers, answers),
                      NEW i \in DOMAIN templates, Plain(Resolve(templates[i], env))
               PROVE  LET name == Resolve(templates[i], env)
                      IN  /\ EngineAccepts(name)
                          /\ answers => \A c \in containers : c.name = name => c.owner = workspace
  BY DEF CliGetsGoodNames, Passes, Given
<1> DEFINE name == Resolve(templates[i], env)
<1>2. name \in Seq(Chars) BY Resolved
<1>3. IsValid(name) BY <1>1 DEF Refusals, Refused, Plain
<1>4. EngineAccepts(name) BY <1>1, <1>2, <1>3, PlainAndValid
<1>5. ASSUME answers, NEW c \in containers, c.name = name PROVE c.owner = workspace
  <2>1. Matches(name, c) BY <1>2, <1>5, MatchesItself
  <2>2. ~IsOthers(c, workspace) BY <1>1, <1>3, <1>5, <2>1 DEF Conflicts
  <2>. QED BY <2>2 DEF IsOthers
<1>. QED BY <1>4, <1>5

\* sanitize_container_name of a name that begins well.
LEMMA SanitizedName ==
  ASSUME NEW name \in Seq(Chars), name # <<>>, name[1] = "alnum"
  PROVE  EngineAccepts(Sanitize(name))
<1> DEFINE sanitized == [i \in DOMAIN name |-> IF name[i] \in ValidChars THEN name[i] ELSE "mark"]
<1>1. Len(name) \in Nat \ {0} /\ DOMAIN name = 1..Len(name) BY EmptySeq, LenProperties
<1>2. sanitized[1] = "alnum" BY <1>1 DEF ValidChars
<1>3. Sanitize(name) = sanitized BY <1>2 DEF Sanitize
<1>4. \A i \in DOMAIN sanitized : sanitized[i] \in ValidChars BY DEF ValidChars
<1>5. 1 \in DOMAIN sanitized BY <1>1
<1>6. sanitized # <<>>
  <2>. HIDE DEF sanitized
  <2>. QED BY <1>5
<1>. QED BY <1>2, <1>3, <1>4, <1>6 DEF EngineAccepts

\* A template that is fine, with values that are, gives a name that is.
LEMMA FineParts ==
  ASSUME NEW env \in Envs, NEW template \in Seq(Chars \cup Vars),
         template # <<>>, template[1] # "mark",
         \A j \in DOMAIN template : template[j] \in ValidChars \cup Vars,
         \A v \in Substituted(template, env) : EngineAccepts(env[v]),
         ~Unresolved(Resolve(template, env))
  PROVE  EngineAccepts(Resolve(template, env))
<1> DEFINE name == Resolve(template, env)
           pieces == Pieces(template, env)
<1>1. Len(template) \in Nat \ {0} /\ DOMAIN template = 1..Len(template) BY EmptySeq, LenProperties
<1>2. name \in Seq(Chars) /\ LaidOut(name, pieces, Len(template)) BY Resolved
<1>3. Len(name) \in Nat /\ DOMAIN name = 1..Len(name) BY <1>2, LenProperties
<1>4. ASSUME NEW j \in DOMAIN template
      PROVE  /\ pieces[j] # <<>> /\ (j = 1 => pieces[j][1] = "alnum")
             /\ \A k \in 1..Len(pieces[j]) : pieces[j][k] \in ValidChars
  <2>1. CASE template[j] \in Chars
    <3>1. template[j] \in ValidChars BY <2>1, NamesAssumption
    <3>2. template[j] \notin DOMAIN env BY <2>1, NamesAssumption DEF Envs
    <3>3. pieces[j] = <<template[j]>> BY <2>1, <3>2 DEF Pieces
    <3>. QED BY <3>1, <3>3 DEF ValidChars
  <2>2. CASE template[j] \notin Chars /\ template[j] \in DOMAIN env
    <3>1. template[j] \in Substituted(template, env) BY <2>2, <1>1 DEF Substituted, ToSet, Chars, ValidChars
    <3>2. pieces[j] = env[template[j]] BY <2>2 DEF Pieces
    <3>3. pieces[j] \in Seq(Chars) BY <2>2, <3>2 DEF Envs
    <3>4. DOMAIN pieces[j] = 1..Len(pieces[j]) BY <3>3, LenProperties
    <3>5. EngineAccepts(pieces[j]) BY <3>1, <3>2
    <3>. QED BY <3>4, <3>5 DEF EngineAccepts
  <2>3. CASE template[j] \notin Chars /\ template[j] \notin DOMAIN env
    <3>1. pieces[j] = <<"open">> BY <2>3 DEF Pieces
    <3>2. 1 \in 1..Len(pieces[j]) /\ pieces[j][1] = "open" BY <3>1
    <3>3. j \in 1..Len(template) BY <1>1
    <3>4. PICK m \in 1..Len(name) : name[m] = pieces[j][1] BY <1>2, <3>2, <3>3 DEF LaidOut
    <3>5. "open" \in ToSet(name) BY <1>3, <3>2, <3>4 DEF ToSet
    <3>. QED BY <3>5 DEF Unresolved
  <2>. QED BY <2>1, <2>2, <2>3
<1>5. 1 \in DOMAIN template BY <1>1
<1>6. name # <<>> /\ name[1] = "alnum" BY <1>2, <1>4, <1>5 DEF LaidOut
<1>7. ASSUME NEW m \in DOMAIN name PROVE name[m] \in ValidChars
  <2>1. PICK j \in 1..Len(template) : \E k \in 1..Len(pieces[j]) : name[m] = pieces[j][k]
    BY <1>2, <1>3 DEF LaidOut
  <2>. QED BY <1>1, <1>4, <2>1
<1>. QED BY <1>6, <1>7 DEF EngineAccepts

\* What the refusal of a name says is right: the name is bad, the better one it
\* offers is good, and there is a variable to blame where the template is fine
\* (lint.py:160-182).
THEOREM RefusalIsRight ==
  ASSUME NEW env \in Envs, NEW templates,
         \A i \in DOMAIN templates : templates[i] \in Seq(Chars \cup Vars)
  PROVE  RefusalHelps(templates, env)
<1>1. SUFFICES ASSUME NEW i \in Refusals(templates, env)
               PROVE  LET template == templates[i]
                          name == Resolve(template, env)
                      IN  /\ ~EngineAccepts(name)
                          /\ name # <<>> /\ name[1] = "alnum" => EngineAccepts(Sanitize(name))
                          /\ (/\ template # <<>> /\ template[1] # "mark"
                              /\ \A j \in DOMAIN template : template[j] \in ValidChars \cup Vars
                              /\ \A v \in Substituted(template, env) : Plain(env[v]))
                             => Blamed(template, env) # {}
  BY DEF RefusalHelps
<1> DEFINE template == templates[i]
           name == Resolve(template, env)
<1>2. template \in Seq(Chars \cup Vars) /\ ~Unresolved(name) /\ ~IsValid(name)
  BY DEF Refusals, Refused
<1>3. name \in Seq(Chars) BY <1>2, Resolved
<1>4. ~EngineAccepts(name) BY <1>2, AcceptedIsValid
<1>5. ASSUME template # <<>>, template[1] # "mark",
             \A j \in DOMAIN template : template[j] \in ValidChars \cup Vars,
             \A v \in Substituted(template, env) : Plain(env[v]),
             Blamed(template, env) = {}
      PROVE  FALSE
  <2>1. ASSUME NEW v \in Substituted(template, env) PROVE EngineAccepts(env[v])
    <3>1. IsValid(env[v]) BY <1>5 DEF Blamed
    <3>2. env[v] \in Seq(Chars) BY DEF Envs, Substituted
    <3>. QED BY <1>5, <3>1, <3>2, PlainAndValid
  <2>. QED BY <1>2, <1>4, <1>5, <2>1, FineParts
<1>. QED BY <1>3, <1>4, <1>5, SanitizedName

-----------------------------------------------------------------------------
(***************************************************************************)
(* The output of the Dev Container CLI.                                    *)
(***************************************************************************)
LEMMA FirstLine ==
  ASSUME NEW output \in Seq(LineKinds), NEW i \in DOMAIN output, ~IsBlank(output[i])
  PROVE  LET begin == SelectInSeq(output, LAMBDA l : ~IsBlank(l))
         IN  begin \in DOMAIN output /\ ~IsBlank(output[begin])
<1> DEFINE full == {j \in 1..Len(output) : ~IsBlank(output[j])}
<1>1. Len(output) \in Nat /\ DOMAIN output = 1..Len(output) BY LenProperties
<1>2. full \subseteq Nat /\ full # {} BY <1>1
<1>3. Min(full) \in full
  <2>. HIDE DEF full
  <2>. QED BY <1>2, MinIsLeast
<1>4. SelectInSeq(output, LAMBDA l : ~IsBlank(l)) = Min(full) BY <1>2 DEF SelectInSeq
<1>. QED BY <1>1, <1>3, <1>4

LEMMA LastLine ==
  ASSUME NEW output \in Seq(LineKinds)
  PROVE  /\ \A i \in DOMAIN output :
              IsObject(output[i]) /\ HasShape(output[i]) => i <= LastOfShape(output)
         /\ LastOfShape(output) # 0 =>
              IsObject(output[LastOfShape(output)]) /\ HasShape(output[LastOfShape(output)])
<1> DEFINE shaped == {j \in 1..Len(output) : IsObject(output[j]) /\ HasShape(output[j])}
<1>1. Len(output) \in Nat /\ DOMAIN output = 1..Len(output) BY LenProperties
<1>2. LastOfShape(output) = IF shaped # {} THEN Max(shaped) ELSE 0
  BY DEF LastOfShape, SelectLastInSeq
<1>3. shaped \subseteq 0..Len(output) BY <1>1
<1>4. shaped # {} => Max(shaped) \in shaped /\ \A k \in shaped : k <= Max(shaped)
  <2>. HIDE DEF shaped
  <2>. QED BY <1>1, <1>3, MaxIsGreatest
<1>. QED BY <1>1, <1>2, <1>4

\* _loads_last_json_object finds the last object of the expected shape behind any
\* number of lines (devcontainer_cli.py:58-102).
THEOREM LastPayloadIsFound ==
  ASSUME NEW output \in Seq(LineKinds)
  PROVE  PayloadIsFound(output)
<1> DEFINE begin == SelectInSeq(output, LAMBDA l : ~IsBlank(l))
           found == LoadsLastJsonObject(output)
<1>1. CASE IsOneValue(output) /\ HasShape(output[begin])
  <2>1. found = begin BY <1>1 DEF LoadsLastJsonObject
  <2>2. ASSUME NEW i \in DOMAIN output, output[i] = "payload" PROVE i = begin
    <3> DEFINE full == {j \in DOMAIN output : ~IsBlank(output[j])}
    <3>1. ~IsBlank(output[i]) BY <2>2 DEF IsBlank
    <3>2. begin \in DOMAIN output /\ ~IsBlank(output[begin]) BY <3>1, FirstLine
    <3>. HIDE DEF begin
    <3>3. i \in full /\ begin \in full BY <3>1, <3>2
    <3>4. CASE \E b, e \in full :
                 /\ b < e /\ output[b] = "open" /\ output[e] = "close"
                 /\ \A j \in full \ {b, e} : b < j /\ j < e /\ output[j] = "inner"
      BY <2>2, <3>3, <3>4
    <3>5. CASE \E j \in full : full = {j} /\ output[j] \in OneLine BY <3>3, <3>5
    <3>. QED BY <1>1, <3>4, <3>5 DEF IsOneValue
  <2>3. DOMAIN output = 1..Len(output) /\ Len(output) \in Nat BY LenProperties
  <2>4. \A i \in DOMAIN output : output[i] = "payload" => i <= begin
    <3>. HIDE DEF begin
    <3>. QED BY <2>2, <2>3
  <2>. QED BY <1>1, <2>1, <2>4 DEF PayloadIsFound
<1>2. CASE ~ (IsOneValue(output) /\ HasShape(output[begin]))
  <2>1. found = LastOfShape(output) BY <1>2 DEF LoadsLastJsonObject
  <2>2. \A i \in DOMAIN output : output[i] = "payload" => i <= LastOfShape(output)
    BY LastLine DEF IsObject, HasShape
  <2>3. LastOfShape(output) # 0 => HasShape(output[LastOfShape(output)])
                                   /\ output[LastOfShape(output)] # "open"
    BY LastLine DEF IsObject
  <2>. QED BY <2>1, <2>2, <2>3 DEF PayloadIsFound
<1>. QED BY <1>1, <1>2

-----------------------------------------------------------------------------
(***************************************************************************)
(* References to features.                                                 *)
(***************************************************************************)
Tokens(W) ==
  W \cup {"host", ":", "5000", "/", "@", "sha256", "abc"}

\* What Written appends to the name.
Suffix(version) ==
  CASE version = "none" -> <<>>
    [] version = "digest" -> <<"@", "sha256", ":", "abc">>
    [] OTHER -> <<":", version>>

WithoutSlash(s) == \A k \in 1..Len(s) : s[k] # "/"

Named(A, name, V) == (A \o <<"/", name>>) \o V

\* Behind the last separator are the name and the version.
LEMMA AfterTheLastSlash ==
  ASSUME NEW X, NEW A \in Seq(X), NEW name \in X, NEW V \in Seq(X), "/" \in X,
         name # "/", WithoutSlash(V)
  PROVE  /\ LastPart(Named(A, name, V)) = <<name>> \o V
         /\ Stripped(Named(A, name, V)) = Named(A, name, V)
<1> DEFINE B == A \o <<"/", name>>
           ref == B \o V
           last == <<name>> \o V
           a == Len(A)
           v == Len(V)
           slashes == {j \in 1..Len(ref) : ref[j] = "/"}
           others == {j \in 1..Len(ref) : ref[j] # "/"}
<1>1. a \in Nat /\ v \in Nat BY LenProperties
<1>2. <<"/", name>> \in Seq(X) /\ Len(<<"/", name>>) = 2 OBVIOUS
<1>3. /\ B \in Seq(X) /\ Len(B) = a + 2
      /\ \A i \in 1..(a + 2) : B[i] = IF i <= a THEN A[i] ELSE <<"/", name>>[i - a]
  BY <1>2, ConcatProperties
<1>4. B[a + 1] = "/" /\ B[a + 2] = name
  <2>1. a + 1 \in 1..(a + 2) /\ a + 2 \in 1..(a + 2) BY <1>1
  <2>2. ~ (a + 1 <= a) /\ ~ (a + 2 <= a) /\ (a + 1) - a = 1 /\ (a + 2) - a = 2 BY <1>1
  <2>. QED BY <1>3, <2>1, <2>2
<1>. HIDE DEF B
<1>5. /\ ref \in Seq(X) /\ Len(ref) = (a + 2) + v
      /\ \A i \in 1..((a + 2) + v) : ref[i] = IF i <= a + 2 THEN B[i] ELSE V[i - (a + 2)]
  <2>1. B \in Seq(X) /\ Len(B) = a + 2 BY <1>3
  <2>2. /\ B \o V \in Seq(X) /\ Len(B \o V) = Len(B) + v
        /\ \A i \in 1..(Len(B) + v) : (B \o V)[i] = IF i <= Len(B) THEN B[i] ELSE V[i - Len(B)]
    BY <2>1, ConcatProperties
  <2>. QED BY <2>1, <2>2
<1>6. ref[a + 1] = "/" /\ ref[a + 2] = name
  <2>1. a + 1 \in 1..((a + 2) + v) /\ a + 2 \in 1..((a + 2) + v) /\ a + 1 <= a + 2 /\ a + 2 <= a + 2
    BY <1>1
  <2>. QED BY <1>4, <1>5, <2>1
<1>7. \A k \in 1..v : a + 2 + k \in 1..((a + 2) + v) /\ ref[a + 2 + k] = V[k]
  <2>1. SUFFICES ASSUME NEW k \in 1..v
                 PROVE  a + 2 + k \in 1..((a + 2) + v) /\ ref[a + 2 + k] = V[k]
    OBVIOUS
  <2>2. /\ a + 2 + k \in 1..((a + 2) + v) /\ ~ (a + 2 + k <= a + 2)
        /\ (a + 2 + k) - (a + 2) = k
    BY <1>1
  <2>. QED BY <1>5, <2>2
<1>8. \A j \in 1..((a + 2) + v) : j > a + 1 => ref[j] # "/"
  <2>1. SUFFICES ASSUME NEW j \in 1..((a + 2) + v), j > a + 1 PROVE ref[j] # "/" OBVIOUS
  <2>2. CASE j = a + 2 BY <1>6, <2>2
  <2>3. CASE j # a + 2
    <3>1. j - (a + 2) \in 1..v /\ j = a + 2 + (j - (a + 2)) BY <1>1, <2>1, <2>3
    <3>. QED BY <1>7, <3>1 DEF WithoutSlash
  <2>. QED BY <2>2, <2>3
<1>. HIDE DEF ref
<1>9. Len(ref) \in Nat /\ a + 1 \in 1..Len(ref) /\ a + 2 \in 1..Len(ref) BY <1>1, <1>5
<1>10. LastCut(ref, "/") = a + 1
  <2>1. slashes \subseteq 0..Len(ref) /\ a + 1 \in slashes BY <1>6, <1>9
  <2>2. LastCut(ref, "/") = Max(slashes) BY <2>1 DEF LastCut, SelectLastInSeq
  <2>3. Max(slashes) \in slashes /\ \A k \in slashes : k <= Max(slashes)
    <3>. HIDE DEF slashes
    <3>. QED BY <1>9, <2>1, MaxIsGreatest
  <2>4. Max(slashes) \in Nat /\ a + 1 <= Max(slashes) /\ ~ (Max(slashes) > a + 1)
    BY <1>5, <1>8, <1>9, <2>1, <2>3
  <2>. QED BY <1>1, <2>2, <2>4
<1>11. LastPart(ref) = last
  <2>1. <<name>> \in Seq(X) /\ Len(<<name>>) = 1 OBVIOUS
  <2>2. /\ last \in Seq(X) /\ Len(last) = 1 + v
        /\ \A i \in 1..(1 + v) : last[i] = IF i <= 1 THEN <<name>>[i] ELSE V[i - 1]
    BY <2>1, ConcatProperties
  <2> DEFINE sub == SubSeq(ref, (a + 1) + 1, Len(ref))
  <2>3. (a + 1) + 1 = a + 2 /\ Len(ref) - (a + 2) + 1 = 1 + v /\ a + 2 <= Len(ref)
    BY <1>1, <1>5
  <2>4. \A i \in (a + 2)..Len(ref) : ref[i] \in X
    <3>1. \A i \in (a + 2)..Len(ref) : i \in 1..Len(ref) BY <1>1, <1>9
    <3>. QED BY <1>5, <3>1, ElementOfSeq
  <2>5. /\ sub \in Seq(X) /\ Len(sub) = 1 + v
        /\ \A i \in 1..(1 + v) : sub[i] = ref[(a + 2) + i - 1]
    BY <1>1, <1>9, <2>3, <2>4, SubSeqProperties
  <2>6. ASSUME NEW i \in 1..(1 + v) PROVE sub[i] = last[i]
    <3>1. CASE i = 1
      <4>1. (a + 2) + i - 1 = a + 2 BY <1>1, <3>1
      <4>2. sub[i] = name BY <1>6, <2>5, <4>1
      <4>3. i <= 1 /\ <<name>>[i] = name BY <3>1
      <4>. QED BY <2>2, <4>2, <4>3
    <3>2. CASE i # 1
      <4>1. i - 1 \in 1..v /\ (a + 2) + i - 1 = a + 2 + (i - 1) /\ ~ (i <= 1) BY <1>1, <3>2
      <4>2. sub[i] = V[i - 1] BY <1>7, <2>5, <4>1
      <4>3. last[i] = V[i - 1] BY <2>2, <4>1
      <4>. QED BY <4>2, <4>3
    <3>. QED BY <3>1, <3>2
  <2>. HIDE DEF sub, last
  <2>7. sub = last BY <2>2, <2>5, <2>6, SeqEqual
  <2>. QED BY <1>10, <2>7 DEF LastPart, sub
<1>12. Stripped(ref) = ref
  <2>1. Len(ref) \in 1..Len(ref) /\ Len(ref) > a + 1 BY <1>1, <1>5, <1>9
  <2>2. ref[Len(ref)] # "/" BY <1>5, <1>8, <2>1
  <2>3. others \subseteq 0..Len(ref) /\ Len(ref) \in others BY <2>1, <2>2
  <2>4. Max(others) \in others /\ \A k \in others : k <= Max(others)
    <3>. HIDE DEF others
    <3>. QED BY <1>9, <2>3, MaxIsGreatest
  <2>5. Max(others) = Len(ref) BY <1>9, <2>3, <2>4
  <2>6. Stripped(ref) = SubSeq(ref, 1, Max(others)) BY <2>3 DEF Stripped, SelectLastInSeq
  <2>. QED BY <1>5, <2>5, <2>6, SubSeqFull
<1>. QED BY <1>11, <1>12 DEF ref, B, Named

LEMMA LastPartWritten ==
  ASSUME NEW W, NEW r, r.path \in Seq(W), r.name \in W, r.version \in W,
         r.name \notin Separators, r.version \notin Separators
  PROVE  /\ LastPart(Written(r)) = <<r.name>> \o Suffix(r.version)
         /\ Stripped(Written(r)) = Written(r)
<1> DEFINE X == Tokens(W)
           steps == [i \in DOMAIN r.path |-> <<"/", r.path[i]>>]
           H == <<"host">> \o (IF r.port THEN <<":", "5000">> ELSE <<>>)
           F == FlattenSeq(steps)
           A == H \o F
           V == Suffix(r.version)
<1>1. H \in Seq(X)
  <2> DEFINE port == IF r.port THEN <<":", "5000">> ELSE <<>>
  <2>1. "host" \in X /\ ":" \in X /\ "5000" \in X BY DEF Tokens
  <2>. HIDE DEF X
  <2>2. <<"host">> \in Seq(X) /\ port \in Seq(X) BY <2>1
  <2>. HIDE DEF port
  <2>3. <<"host">> \o port \in Seq(X) BY <2>2, ConcatProperties
  <2>. QED BY <2>3 DEF port
<1>2. F \in Seq(X)
  <2>1. Len(r.path) \in Nat /\ DOMAIN r.path = 1..Len(r.path) BY LenProperties
  <2>2. \A i \in DOMAIN r.path : <<"/", r.path[i]>> \in Seq(X)
    <3>1. \A i \in DOMAIN r.path : r.path[i] \in X BY <2>1, ElementOfSeq DEF Tokens
    <3>2. "/" \in X BY DEF Tokens
    <3>. HIDE DEF X
    <3>. QED BY <3>1, <3>2
  <2>3. steps \in [1..Len(r.path) -> Seq(X)] BY <2>1, <2>2
  <2>4. steps \in Seq(Seq(X))
    <3>. HIDE DEF steps, X
    <3>. QED BY <2>1, <2>3
  <2>. HIDE DEF steps, X
  <2>5. CASE steps = <<>> BY <2>5, EmptySeq DEF FlattenSeq
  <2>6. CASE steps # <<>> BY <2>4, <2>6, FlattenSeqProperties
  <2>. QED BY <2>5, <2>6
<1>3. Written(r) = Named(A, r.name, V) BY DEF Written, Suffix, Named
<1>4. "/" \in X /\ r.name \in X /\ r.name # "/" BY DEF Tokens, Separators
<1>5. V \in Seq(X) /\ WithoutSlash(V)
  <2>. SUFFICES V \in Seq(X) /\ \A k \in 1..Len(V) : V[k] # "/" BY DEF WithoutSlash
  <2>1. CASE r.version = "none" BY <2>1 DEF Suffix
  <2>2. CASE r.version = "digest"
    <3>1. V = <<"@", "sha256", ":", "abc">> BY <2>2 DEF Suffix
    <3>2. {"@", "sha256", ":", "abc"} \subseteq X BY DEF Tokens
    <3>3. 1..4 = {1, 2, 3, 4} OBVIOUS
    <3>4. V \in Seq(X) /\ Len(V) = 4
      <4>. HIDE DEF V, X
      <4>. QED BY <3>1, <3>2
    <3>. QED BY <3>1, <3>3, <3>4
  <2>3. CASE r.version # "none" /\ r.version # "digest"
    <3>1. V = <<":", r.version>> BY <2>3 DEF Suffix
    <3>2. ":" \in X /\ r.version \in X /\ r.version # "/" BY DEF Tokens, Separators
    <3>3. 1..2 = {1, 2} OBVIOUS
    <3>4. V \in Seq(X) /\ Len(V) = 2
      <4>. HIDE DEF V, X
      <4>. QED BY <3>1, <3>2
    <3>. QED BY <3>1, <3>2, <3>3, <3>4
  <2>. QED BY <2>1, <2>2, <2>3
<1>6. A \in Seq(X)
  <2>. HIDE DEF H, F, X
  <2>. QED BY <1>1, <1>2, ConcatProperties
<1>7. LastPart(Named(A, r.name, V)) = <<r.name>> \o V /\ Stripped(Named(A, r.name, V)) = Named(A, r.name, V)
  BY <1>4, <1>5, <1>6, AfterTheLastSlash
<1>. QED BY <1>3, <1>7 DEF V

LEMMA OneAndTwo ==
  ASSUME NEW a, NEW b, NEW c
  PROVE  <<a>> \o <<b, c>> = <<a, b, c>>
<1> DEFINE X == {a, b, c}
           s == <<a>>
           t == <<b, c>>
           u == <<a, b, c>>
<1>1. s \in Seq(X) /\ t \in Seq(X) /\ u \in Seq(X) OBVIOUS
<1>2. Len(s) = 1 /\ Len(t) = 2 /\ Len(u) = 3 OBVIOUS
<1>3. s[1] = u[1] /\ t[1] = u[2] /\ t[2] = u[3] OBVIOUS
<1>. HIDE DEF s, t, u
<1>4. /\ s \o t \in Seq(X) /\ Len(s \o t) = 3
      /\ \A i \in 1..3 : (s \o t)[i] = IF i <= 1 THEN s[i] ELSE t[i - 1]
  BY <1>1, <1>2, ConcatProperties
<1>5. \A i \in 1..3 : (s \o t)[i] = u[i]
  <2>1. (s \o t)[1] = s[1] /\ (s \o t)[2] = t[1] /\ (s \o t)[3] = t[2] BY <1>4
  <2>2. 1..3 = {1, 2, 3} OBVIOUS
  <2>. QED BY <1>3, <2>1, <2>2
<1>6. s \o t = u BY <1>1, <1>2, <1>4, <1>5, SeqEqual
<1>. QED BY <1>6 DEF s, t, u

LEMMA SubSeqOne ==
  ASSUME NEW X, NEW s \in Seq(X), NEW i \in 1..Len(s)
  PROVE  SubSeq(s, i, i) = <<s[i]>>
<1>1. i \in Int /\ s[i] \in X BY LenProperties, ElementOfSeq
<1>2. \A j \in i..i : s[j] \in X BY <1>1
<1>3. /\ SubSeq(s, i, i) \in Seq(X) /\ Len(SubSeq(s, i, i)) = 1
      /\ \A j \in 1..(i - i + 1) : SubSeq(s, i, i)[j] = s[i + j - 1]
  BY <1>1, <1>2, SubSeqProperties
<1>4. SubSeq(s, i, i)[1] = s[i] BY <1>1, <1>3
<1>5. <<s[i]>> \in Seq(X) /\ Len(<<s[i]>>) = 1 /\ <<s[i]>>[1] = s[i] /\ 1..1 = {1} BY <1>1
<1> DEFINE t == SubSeq(s, i, i)
           u == <<s[i]>>
<1>. HIDE DEF t, u
<1>6. t = u BY <1>3, <1>4, <1>5, SeqEqual DEF t, u
<1>. QED BY <1>6 DEF t, u

\* The last part, cut at its colon.
LEMMA NameAlone ==
  ASSUME NEW name, name \notin Separators
  PROVE  /\ Cut(<<name>>, ":") = 0 /\ LastCut(<<name>>, ":") = 0
         /\ "@" \notin ToSet(<<name>>)
<1>1. 1..Len(<<name>>) = {1} /\ DOMAIN <<name>> = {1} OBVIOUS
<1>2. name # ":" /\ name # "@" BY DEF Separators
<1>3. {j \in 1..Len(<<name>>) : <<name>>[j] = ":"} = {} BY <1>1, <1>2
<1>. QED BY <1>1, <1>2, <1>3 DEF Cut, LastCut, SelectInSeq, SelectLastInSeq, ToSet

LEMMA NameAndTag ==
  ASSUME NEW name, NEW version, name \notin Separators, version \notin Separators
  PROVE  LET last == <<name, ":", version>>
         IN  /\ Cut(last, ":") = 2 /\ LastCut(last, ":") = 2
             /\ "@" \notin ToSet(last)
<1> DEFINE last == <<name, ":", version>>
           colons == {j \in 1..Len(last) : last[j] = ":"}
<1>1. 1..Len(last) = {1, 2, 3} /\ DOMAIN last = {1, 2, 3} OBVIOUS
<1>2. name # ":" /\ name # "@" /\ version # ":" /\ version # "@" BY DEF Separators
<1>3. last[1] = name /\ last[2] = ":" /\ last[3] = version OBVIOUS
<1>. HIDE DEF last
<1>4. colons = {2} BY <1>1, <1>2, <1>3
<1>5. Min(colons) = 2 /\ Max(colons) = 2
  <2>1. {2} \subseteq 0..2 /\ {2} \subseteq Nat /\ {2} # {} OBVIOUS
  <2>2. Min({2}) \in {2} /\ Max({2}) \in {2} BY <2>1, MinIsLeast, MaxIsGreatest
  <2>. QED BY <1>4, <2>2
<1>6. Cut(last, ":") = 2 /\ LastCut(last, ":") = 2
  BY <1>4, <1>5 DEF Cut, LastCut, SelectInSeq, SelectLastInSeq
<1>7. "@" \notin ToSet(last) BY <1>1, <1>2, <1>3 DEF ToSet
<1>. QED BY <1>6, <1>7 DEF last

\* _feature_ref_matches and _feature_tag read any reference as it was written
\* (container.py:320-335, features.py:18-34).
THEOREM WrittenFeatureIsRead ==
  ASSUME NEW W, NEW r, r.path \in Seq(W), r.name \in W, r.version \in W,
         r.name \notin Separators, r.version \notin Separators, NEW feature
  PROVE  FeatureIsRead(r, feature)
<1> DEFINE ref == Written(r)
           last == LastPart(ref)
<1>1. last = <<r.name>> \o Suffix(r.version) /\ Stripped(ref) = ref BY LastPartWritten
<1>. HIDE DEF ref, last
<1>2. FeatureName(ref) = IF Cut(last, ":") = 0 THEN last ELSE SubSeq(last, 1, Cut(last, ":") - 1)
  BY <1>1 DEF FeatureName, last
<1>3. FeatureTag(ref) = IF "@" \in ToSet(last) THEN <<>>
                        ELSE IF LastCut(last, ":") = 0 THEN <<"latest">>
                        ELSE SubSeq(last, LastCut(last, ":") + 1, Len(last))
  BY DEF FeatureTag, last
<1>4. CASE r.version = "none"
  <2>1. last = <<r.name>> BY <1>1, <1>4 DEF Suffix
  <2>2. FeatureName(ref) = <<r.name>> /\ FeatureTag(ref) = <<"latest">>
    BY <1>2, <1>3, <2>1, NameAlone
  <2>. QED BY <1>4, <2>2 DEF FeatureIsRead, FeatureRefMatches, IsExactSemver, ref
<1>5. CASE r.version = "digest"
  <2>1. Suffix(r.version) = <<"@", "sha256", ":", "abc">> BY <1>5 DEF Suffix
  <2>2. last = <<r.name>> \o <<"@", "sha256", ":", "abc">> BY <1>1, <2>1
  <2>3. 2 \in DOMAIN last /\ last[2] = "@"
    <3> DEFINE X == {r.name, "@", "sha256", ":", "abc"}
               digest == <<"@", "sha256", ":", "abc">>
               first == <<r.name>>
    <3>1. first \in Seq(X) /\ digest \in Seq(X) OBVIOUS
    <3>2. Len(first) = 1 /\ 1 \in 1..Len(digest) /\ digest[1] = "@" OBVIOUS
    <3>. HIDE DEF first, digest
    <3> HIDE DEF X
    <3>3. Len(first) + 1 \in 1..Len(first \o digest) /\ (first \o digest)[Len(first) + 1] = digest[1]
      <4>1. \A k \in 1..Len(digest) :
              /\ Len(first) + k \in 1..Len(first \o digest)
              /\ (first \o digest)[Len(first) + k] = digest[k]
        BY <3>1, Concat
      <4>. QED BY <3>2, <4>1
    <3>4. first \o digest \in Seq(X) BY <3>1, Concat
    <3>5. DOMAIN (first \o digest) = 1..Len(first \o digest) BY <3>4, LenProperties
    <3>. QED BY <2>2, <3>2, <3>3, <3>5 DEF first, digest
  <2>4. "@" \in ToSet(last) BY <2>3 DEF ToSet
  <2>5. FeatureTag(ref) = <<>> BY <1>3, <2>4
  <2>. QED BY <1>5, <2>5 DEF FeatureIsRead, IsExactSemver, ref
<1>6. CASE r.version # "none" /\ r.version # "digest"
  <2>1. Suffix(r.version) = <<":", r.version>> BY <1>6 DEF Suffix
  <2>2. last = <<r.name, ":", r.version>> BY <1>1, <2>1, OneAndTwo
  <2>3. Cut(last, ":") = 2 /\ LastCut(last, ":") = 2 /\ "@" \notin ToSet(last)
    BY <2>2, NameAndTag
  <2>4. SubSeq(last, 1, 2 - 1) = <<r.name>> /\ SubSeq(last, 2 + 1, Len(last)) = <<r.version>>
    <3> DEFINE X == {r.name, ":", r.version}
    <3>1. last \in Seq(X) /\ Len(last) = 3 /\ last[1] = r.name /\ last[3] = r.version BY <2>2
    <3>2. 1 \in 1..Len(last) /\ 3 \in 1..Len(last) /\ 2 - 1 = 1 /\ 2 + 1 = 3 BY <3>1
    <3>. HIDE DEF X
    <3>. QED BY <3>1, <3>2, SubSeqOne
  <2>5. FeatureName(ref) = <<r.name>> /\ FeatureTag(ref) = <<r.version>>
    BY <1>2, <1>3, <2>3, <2>4
  <2>. QED BY <1>6, <2>5 DEF FeatureIsRead, FeatureRefMatches, IsExactSemver, ref
<1>. QED BY <1>4, <1>5, <1>6

-----------------------------------------------------------------------------
(***************************************************************************)
(* The hash of the configuration.                                          *)
(***************************************************************************)
Trees == Seq(Contents \cup {Missing})

LEMMA FilesOfATree ==
  ASSUME NEW tree \in Trees
  PROVE  /\ DOMAIN tree = 1..Len(tree) /\ IsFiniteSet(DOMAIN tree)
         /\ Files(tree) \subseteq DOMAIN tree /\ IsFiniteSet(Files(tree))
         /\ Cardinality(Files(tree)) \in Nat
         /\ \A i \in Files(tree) : tree[i] \in Contents /\ RankAt(tree, i) \in Nat
<1>1. Len(tree) \in Nat /\ DOMAIN tree = 1..Len(tree) BY LenProperties DEF Trees
<1>2. IsFiniteSet(DOMAIN tree) BY <1>1, FS_Interval
<1>3. Files(tree) \subseteq DOMAIN tree BY DEF Files
<1>4. IsFiniteSet(Files(tree)) BY <1>2, <1>3, FS_Subset
<1>5. \A i \in Files(tree) : tree[i] \in Contents
  BY <1>1, <1>3, ElementOfSeq DEF Files, Trees
<1>6. \A i \in Files(tree) : RankAt(tree, i) \in Nat BY <1>5, FilesAssumption DEF RankAt
<1>. QED BY <1>1, <1>2, <1>3, <1>4, <1>5, <1>6, FS_CardinalityType

\* The file of the least digest goes in front.
LEMMA InFront ==
  ASSUME NEW tree \in Trees, NEW n \in Nat, NEW T \in SUBSET Files(tree), NEW i \in T,
         \A j \in T : RankAt(tree, i) <= RankAt(tree, j),
         NEW f \in Bijection(1..n, T \ {i}), InOrder(f, tree)
  PROVE  \E g \in Bijection(1..(n + 1), T) : InOrder(g, tree)
<1> DEFINE g == [j \in 1..(n + 1) |-> IF j = 1 THEN i ELSE f[j - 1]]
<1>1. /\ f \in [1..n -> T \ {i}]
      /\ \A a, b \in 1..n : f[a] = f[b] => a = b
      /\ \A t \in T \ {i} : \E a \in 1..n : f[a] = t
  BY Fun_BijectionProperties
<1>2. \A j \in 1..(n + 1) : j # 1 => j - 1 \in 1..n /\ g[j] = f[j - 1] /\ g[j] \in T \ {i}
  <2>1. \A j \in 1..(n + 1) : j # 1 => j - 1 \in 1..n OBVIOUS
  <2>. QED BY <1>1, <2>1
<1>3. 1 \in 1..(n + 1) /\ g[1] = i OBVIOUS
<1>4. \A a \in 1..n : a + 1 \in 1..(n + 1) /\ a + 1 # 1 /\ (a + 1) - 1 = a OBVIOUS
<1>5. g \in [1..(n + 1) -> T] BY <1>2
<1>. HIDE DEF g
<1>6. ASSUME NEW a \in 1..(n + 1), NEW b \in 1..(n + 1), g[a] = g[b] PROVE a = b
  <2>1. CASE a = 1 BY <1>2, <1>3, <1>6, <2>1
  <2>2. CASE b = 1 BY <1>2, <1>3, <1>6, <2>2
  <2>3. CASE a # 1 /\ b # 1
    <3>1. a - 1 = b - 1 BY <1>1, <1>2, <1>6, <2>3
    <3>. QED BY <3>1
  <2>. QED BY <2>1, <2>2, <2>3
<1>7. ASSUME NEW t \in T PROVE \E a \in 1..(n + 1) : g[a] = t
  <2>1. CASE t = i BY <1>3, <2>1
  <2>2. CASE t # i
    <3>1. PICK a \in 1..n : f[a] = t BY <1>1, <2>2
    <3>2. g[a + 1] = t BY <1>2, <1>4, <3>1
    <3>. QED BY <1>4, <3>2
  <2>. QED BY <2>1, <2>2
<1>8. g \in Bijection(1..(n + 1), T) BY <1>5, <1>6, <1>7, Fun_IsBij
<1>9. ASSUME NEW j \in 1..(n + 1), NEW k \in 1..(n + 1), j < k
      PROVE  RankAt(tree, g[j]) <= RankAt(tree, g[k])
  <2>1. k # 1 /\ g[k] \in T BY <1>5, <1>9
  <2>2. CASE j = 1 BY <1>3, <2>1, <2>2
  <2>3. CASE j # 1
    <3>1. j - 1 \in 1..n /\ k - 1 \in 1..n /\ j - 1 < k - 1 BY <1>2, <1>9, <2>1, <2>3
    <3>2. DOMAIN f = 1..n BY <1>1
    <3>3. RankAt(tree, f[j - 1]) <= RankAt(tree, f[k - 1]) BY <3>1, <3>2 DEF InOrder
    <3>. QED BY <1>2, <2>1, <2>3, <3>3
  <2>. QED BY <2>2, <2>3
<1>10. InOrder(g, tree)
  <2>1. DOMAIN g = 1..(n + 1) BY <1>5
  <2>. QED BY <1>9, <2>1 DEF InOrder
<1>. QED BY <1>8, <1>10

LEMMA OrderExists ==
  ASSUME NEW tree \in Trees
  PROVE  \E f \in Bijection(1..Cardinality(Files(tree)), Files(tree)) : InOrder(f, tree)
<1> DEFINE Ordered(n, T) == \E f \in Bijection(1..n, T) : InOrder(f, tree)
           S == {n \in Nat : \A T \in SUBSET Files(tree) : Cardinality(T) = n => Ordered(n, T)}
<1>1. \A T \in SUBSET Files(tree) : IsFiniteSet(T) /\ Cardinality(T) \in Nat
  BY FilesOfATree, FS_Subset, FS_CardinalityType
<1>2. 0 \in S
  <2>1. SUFFICES ASSUME NEW T \in SUBSET Files(tree), Cardinality(T) = 0 PROVE Ordered(0, T)
    OBVIOUS
  <2>2. T = {} BY <1>1, <2>1, FS_EmptySet
  <2>3. 1..0 = {} OBVIOUS
  <2> DEFINE f == [j \in {} |-> 0]
  <2>4. f \in [{} -> {}] OBVIOUS
  <2>5. f \in Bijection({}, {}) BY <2>4, Fun_IsBij
  <2>6. InOrder(f, tree) BY DEF InOrder
  <2>. QED BY <2>2, <2>3, <2>5, <2>6
<1>3. \A n \in Nat : n \in S => n + 1 \in S
  <2>1. SUFFICES ASSUME NEW n \in Nat, n \in S,
                        NEW T \in SUBSET Files(tree), Cardinality(T) = n + 1
                 PROVE  Ordered(n + 1, T)
    <3>. HIDE DEF Ordered
    <3>. QED OBVIOUS
  <2> DEFINE ranks == {RankAt(tree, j) : j \in T}
  <2>2. T # {} BY <2>1, FS_EmptySet
  <2>3. ranks \subseteq Nat /\ ranks # {} BY <2>2, FilesOfATree
  <2>4. PICK m \in ranks : \A k \in ranks : m <= k BY <2>3, Least
  <2>5. PICK i \in T : m = RankAt(tree, i) OBVIOUS
  <2>6. \A j \in T : RankAt(tree, i) <= RankAt(tree, j) BY <2>4, <2>5
  <2>7. Cardinality(T \ {i}) = n BY <1>1, <2>1, FS_RemoveElement
  <2>8. Ordered(n, T \ {i})
    <3>. HIDE DEF Ordered
    <3>. QED BY <2>1, <2>7
  <2>9. PICK f \in Bijection(1..n, T \ {i}) : InOrder(f, tree) BY <2>8
  <2>. QED BY <2>6, <2>9, InFront
<1>4. Cardinality(Files(tree)) \in S
  <2>. HIDE DEF S
  <2>. QED BY <1>2, <1>3, FilesOfATree, Induction
<1>. QED BY <1>4

\* The files of one content, counted in the order of the digests.
LEMMA CountInOrder ==
  ASSUME NEW tree \in Trees, NEW n \in Nat, NEW f \in Bijection(1..n, Files(tree)),
         NEW c \in Contents
  PROVE  Cardinality({i \in DOMAIN tree : tree[i] = c}) =
           Cardinality({j \in 1..n : tree[f[j]] = c})
<1> DEFINE at == {i \in DOMAIN tree : tree[i] = c}
           from == {j \in 1..n : tree[f[j]] = c}
           g == [j \in from |-> f[j]]
<1>1. /\ f \in [1..n -> Files(tree)]
      /\ \A a, b \in 1..n : f[a] = f[b] => a = b
      /\ \A t \in Files(tree) : \E a \in 1..n : f[a] = t
  BY Fun_BijectionProperties
<1>2. c # Missing BY FilesAssumption
<1>3. g \in [from -> at]
  <2>1. \A j \in from : f[j] \in at BY <1>1 DEF Files
  <2>. QED BY <2>1
<1>4. \A a, b \in from : g[a] = g[b] => a = b BY <1>1
<1>5. \A t \in at : \E a \in from : g[a] = t
  <2>1. SUFFICES ASSUME NEW t \in at PROVE \E a \in from : g[a] = t OBVIOUS
  <2>2. t \in Files(tree) BY <1>2 DEF Files
  <2>3. PICK a \in 1..n : f[a] = t BY <1>1, <2>2
  <2>. QED BY <2>3
<1>6. IsFiniteSet(from)
  <2>1. IsFiniteSet(1..n) BY FS_Interval
  <2>. QED BY <2>1, FS_Subset
<1>. HIDE DEF g, at, from
<1>7. g \in Bijection(from, at) BY <1>3, <1>4, <1>5, Fun_IsBij
<1>8. Cardinality(at) = Cardinality(from) BY <1>6, <1>7, FS_Bijection DEF ExistsBijection
<1>. QED BY <1>8 DEF at, from

\* Trees of one hash differ by moves.
LEMMA SameDigests ==
  ASSUME NEW old \in Trees, NEW new \in Trees, ContentDigests(old) = ContentDigests(new)
  PROVE  IsMove(old, new)
<1> DEFINE size(tree) == Cardinality(Files(tree))
           order(tree) == CHOOSE f \in Bijection(1..size(tree), Files(tree)) : InOrder(f, tree)
           f == order(old)
           g == order(new)
<1>1. f \in Bijection(1..size(old), Files(old)) /\ g \in Bijection(1..size(new), Files(new))
  BY OrderExists
<1>2. /\ ContentDigests(old) = [j \in 1..size(old) |-> RankAt(old, f[j])]
      /\ ContentDigests(new) = [j \in 1..size(new) |-> RankAt(new, g[j])]
  BY DEF ContentDigests
<1>3. size(old) \in Nat /\ size(new) \in Nat BY FilesOfATree
<1>. HIDE DEF f, g, size
<1>4. 1..size(old) = 1..size(new) BY <1>2
<1>5. size(old) = size(new) BY <1>3, <1>4
<1>6. ASSUME NEW j \in 1..size(old) PROVE old[f[j]] = new[g[j]]
  <2>1. RankAt(old, f[j]) = RankAt(new, g[j]) BY <1>2, <1>4
  <2>2. f[j] \in Files(old) /\ g[j] \in Files(new)
    <3>1. f \in [1..size(old) -> Files(old)] BY <1>1, Fun_BijectionProperties
    <3>2. g \in [1..size(new) -> Files(new)] BY <1>1, Fun_BijectionProperties
    <3>. QED BY <1>4, <3>1, <3>2
  <2>3. old[f[j]] \in Contents /\ new[g[j]] \in Contents BY <2>2, FilesOfATree
  <2>. QED BY <2>1, <2>3, FilesAssumption DEF RankAt
<1>7. ASSUME NEW c \in Contents
      PROVE  Cardinality({i \in DOMAIN old : old[i] = c}) = Cardinality({i \in DOMAIN new : new[i] = c})
  <2>1. Cardinality({i \in DOMAIN old : old[i] = c}) = Cardinality({j \in 1..size(old) : old[f[j]] = c})
    BY <1>1, <1>3, CountInOrder
  <2>2. Cardinality({i \in DOMAIN new : new[i] = c}) = Cardinality({j \in 1..size(new) : new[g[j]] = c})
    BY <1>1, <1>3, CountInOrder
  <2>3. {j \in 1..size(old) : old[f[j]] = c} = {j \in 1..size(new) : new[g[j]] = c} BY <1>4, <1>6
  <2>. QED BY <2>1, <2>2, <2>3
<1>. QED BY <1>7 DEF IsMove

\* A change to one file is no move.
LEMMA OneChange ==
  ASSUME NEW old \in Trees, NEW new \in Trees, DOMAIN old = DOMAIN new,
         NEW i, Changed(old, new) = {i}, old[i] \in Contents
  PROVE  ~IsMove(old, new)
<1> DEFINE c == old[i]
           before == {j \in DOMAIN old : old[j] = c}
           after == {j \in DOMAIN new : new[j] = c}
<1>1. i \in DOMAIN old /\ new[i] # c BY DEF Changed
<1>2. \A j \in DOMAIN old : j # i => old[j] = new[j] BY DEF Changed
<1>3. before = after \cup {i} /\ i \notin after BY <1>1, <1>2
<1>4. IsFiniteSet(after) /\ Cardinality(after) \in Nat
  <2>1. IsFiniteSet(DOMAIN new) BY FilesOfATree
  <2>2. after \in SUBSET DOMAIN new OBVIOUS
  <2>. HIDE DEF after
  <2>3. IsFiniteSet(after) BY <2>1, <2>2, FS_Subset
  <2>. QED BY <2>3, FS_CardinalityType
<1>5. Cardinality(before) = Cardinality(after) + 1
  <2>. HIDE DEF before, after
  <2>. QED BY <1>3, <1>4, FS_AddElement
<1>. QED BY <1>4, <1>5 DEF IsMove

LEMMA MoveBack ==
  ASSUME NEW old, NEW new, IsMove(old, new)
  PROVE  IsMove(new, old)
BY DEF IsMove

\* The hash notices every change of one file and misses nothing but moves; the
\* diff shows what it noticed (container.py:400-425, 437-473; cli.py:246).
THEOREM EveryEditIsNoticed ==
  ASSUME NEW old \in Trees, NEW new \in Trees, DOMAIN old = DOMAIN new
  PROVE  EditIsNoticed(old, new)
<1>1. ContentDigests(old) = ContentDigests(new) => IsMove(old, new) BY SameDigests
<1>2. ASSUME Cardinality(Changed(old, new)) = 1, ContentDigests(old) = ContentDigests(new)
      PROVE  FALSE
  <2>1. IsFiniteSet(Changed(old, new))
    <3>1. IsFiniteSet(DOMAIN old) /\ Changed(old, new) \subseteq DOMAIN old
      BY FilesOfATree DEF Changed
    <3>. QED BY <3>1, FS_Subset
  <2>2. PICK i : Changed(old, new) = {i} BY <1>2, <2>1, FS_Singleton
  <2>3. Changed(new, old) = {i} BY <2>2 DEF Changed
  <2>4. i \in DOMAIN old /\ old[i] # new[i] BY <2>2 DEF Changed
  <2>5. old[i] \in Contents \cup {Missing} /\ new[i] \in Contents \cup {Missing}
    BY <2>4, FilesOfATree, ElementOfSeq DEF Trees
  <2>6. IsMove(old, new) /\ IsMove(new, old) BY <1>1, <1>2, MoveBack
  <2>7. CASE old[i] \in Contents BY <2>2, <2>6, <2>7, OneChange
  <2>8. CASE new[i] \in Contents BY <2>3, <2>6, <2>8, OneChange
  <2>. QED BY <2>4, <2>5, <2>7, <2>8
<1>3. \A i \in DOMAIN old :
        /\ TextAt(Snapshot(old), i) = IF old[i] # Missing THEN Decode[old[i]] ELSE Missing
        /\ TextAt(Snapshot(new), i) = IF new[i] # Missing THEN Decode[new[i]] ELSE Missing
  BY DEF TextAt, Snapshot, Files
<1>4. \A i \in DOMAIN old : /\ old[i] # Missing => Decode[old[i]] # Missing
                            /\ new[i] # Missing => Decode[new[i]] # Missing
  BY FilesOfATree, FilesAssumption DEF Files
<1>5. DOMAIN Snapshot(old) = Files(old) /\ DOMAIN Snapshot(new) = Files(new) BY DEF Snapshot
<1>6. ASSUME NEW i \in DOMAIN old
      PROVE  i \in Diff(Snapshot(old), Snapshot(new)) <=>
               i \in {j \in Changed(old, new) :
                        old[j] = Missing \/ new[j] = Missing \/ Decode[old[j]] # Decode[new[j]]}
  <2>1. i \in Changed(old, new) <=> old[i] # new[i] BY DEF Changed
  <2>2. i \in Diff(Snapshot(old), Snapshot(new)) <=>
          /\ old[i] # Missing \/ new[i] # Missing
          /\ TextAt(Snapshot(old), i) # TextAt(Snapshot(new), i)
    BY <1>5 DEF Diff, Files
  <2>. QED BY <1>3, <1>4, <2>1, <2>2
<1>7. Diff(Snapshot(old), Snapshot(new)) \subseteq DOMAIN old BY <1>5 DEF Diff, Files
<1>8. Changed(old, new) \subseteq DOMAIN old BY DEF Changed
<1>9. Diff(Snapshot(old), Snapshot(new)) =
        {j \in Changed(old, new) :
           old[j] = Missing \/ new[j] = Missing \/ Decode[old[j]] # Decode[new[j]]}
  BY <1>6, <1>7, <1>8
<1>. QED BY <1>1, <1>2, <1>9 DEF EditIsNoticed

-----------------------------------------------------------------------------
(***************************************************************************)
(* The invariants of MCPure, whatever its bounds.                          *)
(***************************************************************************)
PathNames == {"codex-cli", "features"}

\* A scene goes with its input, and the input is of its kind.
Input ==
  \/ kind = "template" /\ scene \in NameScenes /\ word \in Seq(Chars \cup Vars)
  \/ /\ kind = "tree"
     /\ word \in Seq((Contents \cup {Missing}) \X (Contents \cup {Missing}))
  \/ kind = "output" /\ word \in Seq(LineKinds)
  \/ kind = "path" /\ scene \in Refs /\ word \in Seq(PathNames)

\* Inputs grow within their kind.
LEMMA InputsAreOfTheirKind == Spec => []Input
<1>1. Init => Input BY DEF Init, Input
<1>2. Input /\ [Next]_vars => Input'
  <2>1. SUFFICES ASSUME Input, [Next]_vars PROVE Input' OBVIOUS
  <2>2. CASE GrowTemplate
    <3>1. word \in Seq(Chars \cup Vars) BY <2>1, <2>2 DEF Input, GrowTemplate, Grow
    <3>2. word' \in Seq(Chars \cup Vars) BY <2>2, <3>1, AppendProperties DEF GrowTemplate, Grow
    <3>. QED BY <2>1, <2>2, <3>2 DEF Input, GrowTemplate, Grow
  <2>3. CASE GrowTree
    <3> DEFINE X == (Contents \cup {Missing}) \X (Contents \cup {Missing})
    <3>1. word \in Seq(X) BY <2>1, <2>3 DEF Input, GrowTree, Grow
    <3>2. \E s \in X : word' = Append(word, s) BY <2>3 DEF GrowTree, Grow
    <3>3. word' \in Seq(X)
      <4>. HIDE DEF X
      <4>. QED BY <3>1, <3>2, AppendProperties
    <3>4. kind' = "tree" BY <2>3 DEF GrowTree, Grow
    <3>. QED BY <3>3, <3>4 DEF Input
  <2>4. CASE GrowOutput
    <3>1. word \in Seq(LineKinds) BY <2>1, <2>4 DEF Input, GrowOutput, Grow
    <3>2. word' \in Seq(LineKinds) BY <2>4, <3>1, AppendProperties DEF GrowOutput, Grow
    <3>. QED BY <2>1, <2>4, <3>2 DEF Input, GrowOutput, Grow
  <2>5. CASE GrowPath
    <3>1. word \in Seq(PathNames) BY <2>1, <2>5 DEF Input, GrowPath, Grow
    <3>2. word' \in Seq(PathNames) BY <2>5, <3>1, AppendProperties DEF GrowPath, Grow, PathNames
    <3>. QED BY <2>1, <2>5, <3>2 DEF Input, GrowPath, Grow
  <2>6. CASE UNCHANGED vars BY <2>1, <2>6 DEF Input, vars
  <2>. QED BY <2>1, <2>2, <2>3, <2>4, <2>5, <2>6 DEF Next
<1>. QED BY <1>1, <1>2, PTL DEF Spec

LEMMA TemplatesOfAScene ==
  ASSUME Input, kind = "template"
  PROVE  /\ scene.env \in Envs
         /\ \A i \in DOMAIN Templates : Templates[i] \in Seq(Chars \cup Vars)
<1>1. scene \in NameScenes /\ word \in Seq(Chars \cup Vars) BY DEF Input
<1>2. scene.env \in Envs /\ scene.second \in Seq(Chars \cup Vars)
  BY <1>1, ScenesAssumption DEF Envs
<1>3. DOMAIN Templates = {1, 2} /\ Templates[1] = word /\ Templates[2] = scene.second
  BY DEF Templates
<1>. QED BY <1>1, <1>2, <1>3

\* What the CLI is given by a configuration in strict JSON is good and free, for
\* templates of any length (lint.py:1-7, 185-194).
THEOREM NamesAreAlwaysGood == Spec => []NamesAreGood
<1>1. Input => NamesAreGood
  <2>1. SUFFICES ASSUME Input, kind = "template"
                 PROVE  CliGetsGoodNames(scene.strict, Templates, scene.env, "ours", scene.containers, scene.answers)
    BY DEF NamesAreGood
  <2>. QED BY <2>1, TemplatesOfAScene, PassedNamesAreGood
<1>. QED BY <1>1, InputsAreOfTheirKind, PTL

\* A refusal is right and helps, for templates of any length (lint.py:160-182).
THEOREM RefusalsAlwaysHelp == Spec => []RefusalsHelp
<1>1. Input => RefusalsHelp
  <2>1. SUFFICES ASSUME Input, kind = "template" PROVE RefusalHelps(Templates, scene.env)
    BY DEF RefusalsHelp
  <2>. QED BY <2>1, TemplatesOfAScene, RefusalIsRight
<1>. QED BY <1>1, InputsAreOfTheirKind, PTL

\* No edit is missed, in configurations of any number of files (cli.py:246).
THEOREM EditsAreAlwaysNoticed == Spec => []EditsAreNoticed
<1>1. Input => EditsAreNoticed
  <2> DEFINE C == Contents \cup {Missing}
             old == [i \in DOMAIN word |-> word[i][1]]
             new == [i \in DOMAIN word |-> word[i][2]]
  <2>1. SUFFICES ASSUME Input, kind = "tree" PROVE EditIsNoticed(old, new)
    BY DEF EditsAreNoticed
  <2>2. word \in Seq(C \X C) BY <2>1 DEF Input
  <2>. HIDE DEF C
  <2>3. Len(word) \in Nat /\ DOMAIN word = 1..Len(word) BY <2>2, LenProperties
  <2>4. \A i \in DOMAIN word : word[i] \in C \X C BY <2>2, <2>3, ElementOfSeq
  <2>5. old \in [1..Len(word) -> C] /\ new \in [1..Len(word) -> C] BY <2>3, <2>4
  <2>6. DOMAIN old = DOMAIN new OBVIOUS
  <2>7. old \in Trees /\ new \in Trees
    <3>. HIDE DEF old, new
    <3>1. old \in Seq(C) /\ new \in Seq(C) BY <2>3, <2>5
    <3>. QED BY <3>1 DEF Trees, C
  <2>. HIDE DEF old, new
  <2>. QED BY <2>6, <2>7, EveryEditIsNoticed
<1>. QED BY <1>1, InputsAreOfTheirKind, PTL

\* The payload is found, in output of any length (devcontainer_cli.py:58-102).
THEOREM PayloadsAreAlwaysFound == Spec => []PayloadsAreFound
<1>1. Input => PayloadsAreFound BY LastPayloadIsFound DEF Input, PayloadsAreFound
<1>. QED BY <1>1, InputsAreOfTheirKind, PTL

\* A reference is read as it was written, with a path of any length
\* (container.py:335, features.py:21-34).
THEOREM FeaturesAreAlwaysRead == Spec => []FeaturesAreRead
<1>1. Input => FeaturesAreRead
  <2> DEFINE r == [path |-> word, port |-> scene.port, name |-> scene.name,
                   version |-> scene.version]
             W == PathNames \cup {scene.name, scene.version}
  <2>1. SUFFICES ASSUME Input, kind = "path" PROVE FeatureIsRead(r, "codex-cli")
    BY DEF FeaturesAreRead
  <2>2. scene \in Refs /\ word \in Seq(PathNames) BY <2>1 DEF Input
  <2>3. PathNames \subseteq W OBVIOUS
  <2>4. r.path \in Seq(W)
    <3>. HIDE DEF W
    <3>. QED BY <2>2, <2>3, SeqMonotonic
  <2>5. r.name \in W /\ r.version \in W /\ r.name \notin Separators /\ r.version \notin Separators
    BY <2>2, ScenesAssumption
  <2>. HIDE DEF r, W
  <2>. QED BY <2>4, <2>5, WrittenFeatureIsRead
<1>. QED BY <1>1, InputsAreOfTheirKind, PTL
=============================================================================
