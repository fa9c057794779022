-------------------------- MODULE PodInjectionProofs --------------------------
(***************************************************************************)
(* Proofs about PodInjection: for every set of pods and of configurations  *)
(* that InputsAssumption admits, the six invariants of the injection.      *)
(***************************************************************************)
EXTENDS PodInjection, NatMinimum, SequenceTheorems, TLAPS

(* s is a sequence, of whatever elements                                   *)
IsSeq(s) == \E S : s \in Seq(S)

-----------------------------------------------------------------------------
(* Sequences.                                                              *)

LEMMA SeqShape ==
    ASSUME NEW s, IsSeq(s)
    PROVE  Len(s) \in Nat /\ DOMAIN s = 1..Len(s)
BY LenProperties DEF IsSeq

LEMMA FunctionIsSeq ==
    ASSUME NEW n \in Nat, NEW f, f = [i \in 1..n |-> f[i]]
    PROVE  IsSeq(f) /\ Len(f) = n
<1> DEFINE S == {f[i] : i \in 1..n}
<1>1. f \in [1..n -> S]
  OBVIOUS
<1>2. f \in Seq(S)
  BY <1>1, SeqDef
<1>3. Len(f) = n
  BY <1>1, <1>2, LenProperties
<1> QED BY <1>2, <1>3 DEF IsSeq

LEMMA AppendShape ==
    ASSUME NEW s, IsSeq(s), NEW e
    PROVE  /\ IsSeq(Append(s, e))
           /\ Len(Append(s, e)) = Len(s) + 1
           /\ \A i \in 1..Len(s) : Append(s, e)[i] = s[i]
           /\ Append(s, e)[Len(s) + 1] = e
<1>1. PICK S : s \in Seq(S)
  BY DEF IsSeq
<1> DEFINE T == S \cup {e}
<1>2. s \in Seq(T)
  BY <1>1
<1>3. Append(s, e) \in Seq(T)
  BY <1>2, AppendProperties
<1> QED BY <1>2, <1>3, AppendProperties DEF IsSeq

LEMMA ConcatShape ==
    ASSUME NEW s, IsSeq(s), NEW t, IsSeq(t)
    PROVE  /\ IsSeq(s \o t)
           /\ Len(s \o t) = Len(s) + Len(t)
           /\ \A i \in 1..Len(s) : (s \o t)[i] = s[i]
           /\ \A i \in 1..Len(t) : (s \o t)[Len(s) + i] = t[i]
           /\ \A i \in Len(s) + 1..Len(s) + Len(t) : (s \o t)[i] = t[i - Len(s)]
<1>1. PICK S : s \in Seq(S)
  BY DEF IsSeq
<1>2. PICK U : t \in Seq(U)
  BY DEF IsSeq
<1> DEFINE T == S \cup U
<1>3. s \in Seq(T) /\ t \in Seq(T)
  BY <1>1, <1>2
<1> HIDE DEF T
<1>4. /\ s \o t \in Seq(T)
      /\ Len(s \o t) = Len(s) + Len(t)
      /\ \A i \in 1..Len(s) + Len(t) : (s \o t)[i] = IF i <= Len(s) THEN s[i] ELSE t[i - Len(s)]
  BY <1>3, ConcatProperties
<1>5. Len(s) \in Nat /\ Len(t) \in Nat
  BY <1>3, LenProperties
<1>6. IsSeq(s \o t)
  BY <1>4 DEF IsSeq
<1>7. \A i \in 1..Len(s) : (s \o t)[i] = s[i]
  BY <1>4, <1>5
<1>8. \A i \in 1..Len(t) : (s \o t)[Len(s) + i] = t[i]
  BY <1>4, <1>5
<1>9. \A i \in Len(s) + 1..Len(s) + Len(t) : (s \o t)[i] = t[i - Len(s)]
  BY <1>4, <1>5
<1> QED BY <1>4, <1>6, <1>7, <1>8, <1>9

(* Max of the community modules, on a set of positions.                    *)
LEMMA MaxOfPositions ==
    ASSUME NEW n \in Nat, NEW S \in SUBSET (1..n), S # {}
    PROVE  Max(S) \in S /\ \A y \in S : y <= Max(S)
<1> DEFINE D == {n - y : y \in S}
<1>a. \A y \in S : y \in Int /\ n - y \in Nat
  OBVIOUS
<1>b. D \in SUBSET Nat
  BY <1>a
<1>c. PICK s \in S : TRUE
  OBVIOUS
<1>d. n - s \in D
  BY <1>c
<1>1. D \in SUBSET Nat /\ D # {}
  BY <1>b, <1>d
<1>2. PICK d \in D : \A e \in D : d <= e
  BY <1>1, LeastExists
<1>3. PICK x \in S : d = n - x
  OBVIOUS
<1>4. \A y \in S : x >= y
  <2> SUFFICES ASSUME NEW y \in S PROVE x >= y
    OBVIOUS
  <2>1. n - y \in D
    OBVIOUS
  <2>2. n - x <= n - y
    BY <1>2, <1>3, <2>1
  <2> QED BY <2>2
<1>5. \E z \in S : \A y \in S : z >= y
  BY <1>3, <1>4
<1>6. Max(S) \in S /\ \A y \in S : Max(S) >= y
  BY <1>5 DEF Max
<1> QED BY <1>6

(* Min of the community modules.                                           *)
LEMMA MinOfPositions ==
    ASSUME NEW S \in SUBSET Nat, S # {}
    PROVE  Min(S) \in S /\ \A y \in S : Min(S) <= y
BY LeastExists DEF Min

-----------------------------------------------------------------------------
(* findEnvVar, Has and setVar.                                             *)

(* v has no more than one position in env                                  *)
AtMostOne(env, v) == \A i, j \in DOMAIN env : env[i].name = v /\ env[j].name = v => i = j

(* e is the variable v of env, at whatever position one looks it up        *)
Only(env, v, e) ==
    /\ \E i \in DOMAIN env : env[i].name = v
    /\ \A i \in DOMAIN env : env[i].name = v => env[i] = e

(* r is env with variables of W in the place of others or at the end       *)
Ext(env, r, W) ==
    /\ IsSeq(r)
    /\ Len(env) <= Len(r)
    /\ \A i \in DOMAIN r :
         \/ i \in DOMAIN env /\ r[i] = env[i]
         \/ r[i] \in W /\ (i \in DOMAIN env => r[i].name = env[i].name)

LEMMA FindEnvVar ==
    ASSUME NEW env, IsSeq(env), NEW v
    PROVE  /\ Has(env, v) <=> \E i \in DOMAIN env : env[i].name = v
           /\ Has(env, v) => findEnvVar(env, v) \in DOMAIN env /\ env[findEnvVar(env, v)].name = v
<1> DEFINE I == {i \in 1..Len(env) : env[i].name = v}
<1>1. findEnvVar(env, v) = IF I # {} THEN Min(I) ELSE 0
  BY DEF findEnvVar, SelectInSeq
<1>2. Len(env) \in Nat /\ DOMAIN env = 1..Len(env)
  BY SeqShape
<1>a. I \in SUBSET Nat
  BY <1>2
<1>3. I # {} => Min(I) \in I
  <2> HIDE DEF I
  <2> QED BY <1>a, MinOfPositions
<1>4. I # {} => findEnvVar(env, v) \in I
  BY <1>1, <1>3
<1>5. I = {} => findEnvVar(env, v) = 0
  BY <1>1
<1>6. \A i \in I : i # 0 /\ i \in DOMAIN env /\ env[i].name = v
  BY <1>2
<1> QED BY <1>2, <1>4, <1>5, <1>6 DEF Has

(* setVar changes the variable that it sets, and leaves one of it.         *)
LEMMA SetVar ==
    ASSUME NEW env, IsSeq(env), NEW e
    PROVE  /\ Ext(env, setVar(env, e), {e})
           /\ AtMostOne(env, e.name) => Only(setVar(env, e), e.name, e)
           /\ ~Has(env, e.name) => setVar(env, e) = Append(env, e)
<1>0. Len(env) \in Nat /\ DOMAIN env = 1..Len(env)
  BY SeqShape
<1>1. CASE Has(env, e.name)
  <2>1. PICK k \in 1..Len(env) : k = findEnvVar(env, e.name) /\ env[k].name = e.name
    BY <1>0, <1>1, FindEnvVar
  <2>r. PICK r : r = [env EXCEPT ![k] = e]
    OBVIOUS
  <2>2. setVar(env, e) = r
    BY <1>1, <2>1, <2>r DEF setVar
  <2>3. IsSeq(r) /\ Len(r) = Len(env) /\ r[k] = e /\ \A i \in 1..Len(env) : i # k => r[i] = env[i]
    <3>1. PICK S : env \in Seq(S)
      BY DEF IsSeq
    <3>2. env \in Seq(S \cup {e})
      BY <3>1
    <3>3. r \in Seq(S \cup {e}) /\ Len(r) = Len(env)
      BY <2>1, <2>r, <3>2, ExceptSeq
    <3>4. r[k] = e /\ \A i \in 1..Len(env) : i # k => r[i] = env[i]
      BY <1>0, <2>1, <2>r
    <3> QED BY <3>3, <3>4 DEF IsSeq
  <2>4. DOMAIN r = 1..Len(env)
    BY <2>3, SeqShape
  <2>5. Ext(env, r, {e})
    BY <1>0, <2>1, <2>3, <2>4 DEF Ext
  <2>6. AtMostOne(env, e.name) => Only(r, e.name, e)
    BY <1>0, <2>1, <2>3, <2>4 DEF AtMostOne, Only
  <2> QED BY <1>1, <2>2, <2>5, <2>6
<1>2. CASE ~Has(env, e.name)
  <2> DEFINE r == Append(env, e)
  <2>1. setVar(env, e) = r
    BY <1>2 DEF setVar
  <2>2. \A i \in DOMAIN env : env[i].name # e.name
    BY <1>2, FindEnvVar
  <2>3. /\ IsSeq(r) /\ Len(r) = Len(env) + 1
        /\ \A i \in 1..Len(env) : r[i] = env[i]
        /\ r[Len(env) + 1] = e
    BY AppendShape
  <2> HIDE DEF r
  <2>4. DOMAIN r = 1..Len(env) + 1
    BY <2>3, SeqShape
  <2>5. Ext(env, r, {e})
    BY <1>0, <2>3, <2>4 DEF Ext
  <2>6. Only(r, e.name, e)
    BY <1>0, <2>2, <2>3, <2>4 DEF Only
  <2> QED BY <2>1, <2>5, <2>6 DEF r
<1> QED BY <1>1, <1>2

(* the composition of steps                                                *)
LEMMA ExtRefl ==
    ASSUME NEW env, IsSeq(env), NEW W
    PROVE  Ext(env, env, W)
BY SeqShape DEF Ext

LEMMA ExtTrans ==
    ASSUME NEW a, NEW b, NEW c, NEW V, NEW W, IsSeq(a), Ext(a, b, V), Ext(b, c, W)
    PROVE  Ext(a, c, V \cup W)
<1>1. /\ Len(a) \in Nat /\ DOMAIN a = 1..Len(a)
      /\ Len(b) \in Nat /\ DOMAIN b = 1..Len(b)
      /\ Len(c) \in Nat /\ DOMAIN c = 1..Len(c)
  BY SeqShape DEF Ext
<1>2. Len(a) <= Len(b) /\ Len(b) <= Len(c) /\ IsSeq(c)
  BY DEF Ext
<1>3. Len(a) <= Len(c)
  BY <1>1, <1>2
<1>4. ASSUME NEW i \in DOMAIN c
      PROVE  \/ i \in DOMAIN a /\ c[i] = a[i]
             \/ c[i] \in V \cup W /\ (i \in DOMAIN a => c[i].name = a[i].name)
  <2>1. i \in DOMAIN a => i \in DOMAIN b
    BY <1>1, <1>2
  <2>2. \/ i \in DOMAIN b /\ c[i] = b[i]
        \/ c[i] \in W /\ (i \in DOMAIN b => c[i].name = b[i].name)
    BY DEF Ext
  <2>3. i \in DOMAIN b => \/ i \in DOMAIN a /\ b[i] = a[i]
                          \/ b[i] \in V /\ (i \in DOMAIN a => b[i].name = a[i].name)
    BY DEF Ext
  <2> QED BY <2>1, <2>2, <2>3
<1> QED BY <1>2, <1>3, <1>4 DEF Ext

LEMMA ExtMore ==
    ASSUME NEW a, NEW b, NEW V, NEW W, Ext(a, b, V), V \subseteq W
    PROVE  Ext(a, b, W)
BY DEF Ext

(* what a step does not set stays as it is                                 *)
LEMMA ExtKeeps ==
    ASSUME NEW a, NEW b, NEW W, NEW v, IsSeq(a), Ext(a, b, W), \A w \in W : w.name # v
    PROVE  /\ AtMostOne(a, v) => AtMostOne(b, v)
           /\ \A e : Only(a, v, e) => Only(b, v, e)
           /\ \A i \in DOMAIN b : b[i].name = v => i \in DOMAIN a /\ b[i] = a[i]
<1>1. /\ Len(a) \in Nat /\ DOMAIN a = 1..Len(a)
      /\ Len(b) \in Nat /\ DOMAIN b = 1..Len(b)
      /\ Len(a) <= Len(b)
  BY SeqShape DEF Ext
<1>2. DOMAIN a \subseteq DOMAIN b
  BY <1>1
<1>3. \A i \in DOMAIN b : b[i].name = v => i \in DOMAIN a /\ b[i] = a[i]
  BY DEF Ext
<1>4. \A i \in DOMAIN a : a[i].name = v => b[i].name = v
  BY <1>2 DEF Ext
<1>5. AtMostOne(a, v) => AtMostOne(b, v)
  BY <1>3 DEF AtMostOne
<1>6. \A e : Only(a, v, e) => Only(b, v, e)
  BY <1>2, <1>3, <1>4 DEF Only
<1> QED BY <1>3, <1>5, <1>6

(* the names stay where they are                                           *)
LEMMA ExtNames ==
    ASSUME NEW a, NEW b, NEW W, IsSeq(a), Ext(a, b, W)
    PROVE  /\ IsSeq(b)
           /\ DOMAIN a \subseteq DOMAIN b
           /\ \A i \in DOMAIN a : b[i].name = a[i].name
           /\ \A v : Has(a, v) => Has(b, v)
<1>1. /\ Len(a) \in Nat /\ DOMAIN a = 1..Len(a)
      /\ Len(b) \in Nat /\ DOMAIN b = 1..Len(b)
      /\ Len(a) <= Len(b) /\ IsSeq(b)
  BY SeqShape DEF Ext
<1>2. DOMAIN a \subseteq DOMAIN b
  BY <1>1
<1>3. \A i \in DOMAIN a : b[i].name = a[i].name
  BY <1>2 DEF Ext
<1>4. \A v : Has(a, v) => Has(b, v)
  BY <1>1, <1>2, <1>3, FindEnvVar
<1> QED BY <1>1, <1>2, <1>3, <1>4
-----------------------------------------------------------------------------
(* The folds.  FoldLeft is a function on the sets of positions, defined by *)
(* recursion on their greatest element; what it is on 1..n is the          *)
(* environment after n steps.                                              *)

LEMMA SetEnvVarsDef ==
    ASSUME NEW env, NEW s, IsSeq(s)
    PROVE  \E f : /\ f[0] = env
                  /\ \A n \in 1..Len(s) : f[n] = setEnvVar(f[n - 1], s[n][1], s[n][2])
                  /\ f[Len(s)] = setEnvVars(env, s)
<1> DEFINE Step(g, t) == IF t = {} THEN env
                         ELSE setEnvVar(g[t \ {Max(t)}], s[Max(t)][1], s[Max(t)][2])
           Rec(g, n) == g = [t \in SUBSET (1..n) |-> Step(g, t)]
           Bad == {n \in Nat : ~\E g : Rec(g, n)}
<1>0. Len(s) \in Nat /\ DOMAIN s = 1..Len(s)
  BY SeqShape
<1>1. \E g : Rec(g, 0)
  <2> DEFINE g == [t \in SUBSET (1..0) |-> env]
  <2>1. \A t \in SUBSET (1..0) : t = {}
    OBVIOUS
  <2>2. Rec(g, 0)
    BY <2>1
  <2> QED BY <2>2
<1>2. ASSUME NEW n \in Nat, \E g : Rec(g, n)
      PROVE  \E g : Rec(g, n + 1)
  <2>1. PICK h : Rec(h, n)
    BY <1>2
  <2> DEFINE g == [t \in SUBSET (1..n + 1) |->
                     IF n + 1 \in t THEN setEnvVar(h[t \ {n + 1}], s[n + 1][1], s[n + 1][2]) ELSE h[t]]
  <2>2. ASSUME NEW t \in SUBSET (1..n + 1)
        PROVE  g[t] = Step(g, t)
    <3>1. CASE t = {}
      <4>1. h[t] = env
        BY <2>1, <3>1
      <4> QED BY <3>1, <4>1
    <3>2. CASE t # {} /\ n + 1 \in t
      <4>1. Max(t) \in t /\ \A y \in t : y <= Max(t)
        <5>1. n + 1 \in Nat
          OBVIOUS
        <5> QED BY <3>2, <5>1, MaxOfPositions
      <4>2. Max(t) = n + 1
        <5>1. Max(t) \in 1..n + 1 /\ n + 1 <= Max(t)
          BY <3>2, <4>1
        <5>2. \A x \in 1..n + 1 : n + 1 <= x => x = n + 1
          OBVIOUS
        <5> QED BY <5>1, <5>2
      <4>3. t \ {n + 1} \in SUBSET (1..n + 1) /\ n + 1 \notin t \ {n + 1}
        OBVIOUS
      <4>4. g[t \ {n + 1}] = h[t \ {n + 1}]
        BY <4>3
      <4>5. g[t] = setEnvVar(h[t \ {n + 1}], s[n + 1][1], s[n + 1][2])
        BY <3>2
      <4> HIDE DEF g
      <4> QED BY <3>2, <4>2, <4>4, <4>5
    <3>3. CASE t # {} /\ n + 1 \notin t
      <4>1. t \in SUBSET (1..n)
        BY <3>3
      <4>2. Max(t) \in t
        BY <3>3, <4>1, MaxOfPositions
      <4>3. t \ {Max(t)} \in SUBSET (1..n + 1) /\ n + 1 \notin t \ {Max(t)}
        BY <3>3
      <4>4. g[t \ {Max(t)}] = h[t \ {Max(t)}]
        BY <4>3
      <4>5. g[t] = h[t]
        BY <3>3
      <4>6. h[t] = setEnvVar(h[t \ {Max(t)}], s[Max(t)][1], s[Max(t)][2])
        BY <2>1, <3>3, <4>1
      <4> HIDE DEF g
      <4> QED BY <3>3, <4>4, <4>5, <4>6
    <3> QED BY <3>1, <3>2, <3>3
  <2>3. DOMAIN g = SUBSET (1..n + 1) /\ g = [t \in SUBSET (1..n + 1) |-> g[t]]
    OBVIOUS
  <2> HIDE DEF g, Step
  <2>4. Rec(g, n + 1)
    BY <2>2, <2>3
  <2> QED BY <2>4
<1> HIDE DEF Rec
<1>3. Bad = {}
  <2> SUFFICES ASSUME Bad # {} PROVE FALSE
    OBVIOUS
  <2>1. PICK n \in Bad : \A m \in Bad : n <= m
    BY LeastExists
  <2>2. n \in Nat /\ n # 0
    BY <1>1, <2>1
  <2>3. n - 1 \in Nat /\ n - 1 \notin Bad
    BY <2>1, <2>2
  <2>4. (n - 1) + 1 = n
    BY <2>2
  <2> QED BY <1>2, <2>1, <2>3, <2>4
<1>4. \E g : Rec(g, Len(s))
  BY <1>0, <1>3
<1>5. setEnvVars(env, s) = (CHOOSE g : Rec(g, Len(s)))[1..Len(s)]
  BY <1>0 DEF setEnvVars, FoldLeft, MapThenFoldSet, Rec
<1>6. PICK g : Rec(g, Len(s)) /\ setEnvVars(env, s) = g[1..Len(s)]
  BY <1>4, <1>5
<1>7. \A t \in SUBSET (1..Len(s)) : g[t] = Step(g, t)
  BY <1>6 DEF Rec
<1> DEFINE f == [n \in 0..Len(s) |-> g[1..n]]
<1>8. f[0] = env
  <2>1. 1..0 = {} /\ {} \in SUBSET (1..Len(s))
    OBVIOUS
  <2>2. g[{}] = env
    BY <1>7, <2>1
  <2> QED BY <1>0, <2>1, <2>2
<1>9. ASSUME NEW n \in 1..Len(s)
      PROVE  f[n] = setEnvVar(f[n - 1], s[n][1], s[n][2])
  <2>a. n \in Nat /\ n \in 1..n /\ n <= Len(s)
    BY <1>0
  <2>b. 1..n \in SUBSET (1..Len(s))
    BY <1>0, <2>a
  <2>c. (1..n) \ {n} = 1..n - 1
    BY <2>a
  <2>1. 1..n \in SUBSET (1..Len(s)) /\ 1..n # {} /\ (1..n) \ {n} = 1..n - 1
    BY <2>a, <2>b, <2>c
  <2>2. Max(1..n) \in 1..n /\ \A y \in 1..n : y <= Max(1..n)
    BY <1>0, <2>1, MaxOfPositions
  <2>3. Max(1..n) = n
    BY <1>0, <2>2
  <2>4. g[1..n] = setEnvVar(g[1..n - 1], s[n][1], s[n][2])
    BY <1>7, <2>1, <2>3
  <2>5. n \in 0..Len(s) /\ n - 1 \in 0..Len(s)
    BY <1>0
  <2> QED BY <2>4, <2>5
<1>10. f[Len(s)] = setEnvVars(env, s)
  BY <1>0, <1>6
<1> QED BY <1>8, <1>9, <1>10

LEMMA DisableDef ==
    ASSUME NEW env, NEW s, s = server.disabled, IsSeq(s)
    PROVE  \E f : /\ f[0] = env
                  /\ \A n \in 1..Len(s) : f[n] = setVar(f[n - 1], Var(s[n], Text(<<>>)))
                  /\ f[Len(s)] = disableUndesiredSDKs(env)
<1> DEFINE Step(g, t) == IF t = {} THEN env
                         ELSE setVar(g[t \ {Max(t)}], Var(s[Max(t)], Text(<<>>)))
           Rec(g, n) == g = [t \in SUBSET (1..n) |-> Step(g, t)]
           Bad == {n \in Nat : ~\E g : Rec(g, n)}
<1>0. Len(s) \in Nat /\ DOMAIN s = 1..Len(s)
  BY SeqShape
<1>1. \E g : Rec(g, 0)
  <2> DEFINE g == [t \in SUBSET (1..0) |-> env]
  <2>1. \A t \in SUBSET (1..0) : t = {}
    OBVIOUS
  <2>2. Rec(g, 0)
    BY <2>1
  <2> QED BY <2>2
<1>2. ASSUME NEW n \in Nat, \E g : Rec(g, n)
      PROVE  \E g : Rec(g, n + 1)
  <2>1. PICK h : Rec(h, n)
    BY <1>2
  <2> DEFINE g == [t \in SUBSET (1..n + 1) |->
                     IF n + 1 \in t THEN setVar(h[t \ {n + 1}], Var(s[n + 1], Text(<<>>))) ELSE h[t]]
  <2>2. ASSUME NEW t \in SUBSET (1..n + 1)
        PROVE  g[t] = Step(g, t)
    <3>1. CASE t = {}
      <4>1. h[t] = env
        BY <2>1, <3>1
      <4> QED BY <3>1, <4>1
    <3>2. CASE t # {} /\ n + 1 \in t
      <4>1. Max(t) \in t /\ \A y \in t : y <= Max(t)
        <5>1. n + 1 \in Nat
          OBVIOUS
        <5> QED BY <3>2, <5>1, MaxOfPositions
      <4>2. Max(t) = n + 1
        <5>1. Max(t) \in 1..n + 1 /\ n + 1 <= Max(t)
          BY <3>2, <4>1
        <5>2. \A x \in 1..n + 1 : n + 1 <= x => x = n + 1
          OBVIOUS
        <5> QED BY <5>1, <5>2
      <4>3. t \ {n + 1} \in SUBSET (1..n + 1) /\ n + 1 \notin t \ {n + 1}
        OBVIOUS
      <4>4. g[t \ {n + 1}] = h[t \ {n + 1}]
        BY <4>3
      <4>5. g[t] = setVar(h[t \ {n + 1}], Var(s[n + 1], Text(<<>>)))
        BY <3>2
      <4> HIDE DEF g
      <4> QED BY <3>2, <4>2, <4>4, <4>5
    <3>3. CASE t # {} /\ n + 1 \notin t
      <4>1. t \in SUBSET (1..n)
        BY <3>3
      <4>2. Max(t) \in t
        BY <3>3, <4>1, MaxOfPositions
      <4>3. t \ {Max(t)} \in SUBSET (1..n + 1) /\ n + 1 \notin t \ {Max(t)}
        BY <3>3
      <4>4. g[t \ {Max(t)}] = h[t \ {Max(t)}]
        BY <4>3
      <4>5. g[t] = h[t]
        BY <3>3
      <4>6. h[t] = setVar(h[t \ {Max(t)}], Var(s[Max(t)], Text(<<>>)))
        BY <2>1, <3>3, <4>1
      <4> HIDE DEF g
      <4> QED BY <3>3, <4>4, <4>5, <4>6
    <3> QED BY <3>1, <3>2, <3>3
  <2>3. DOMAIN g = SUBSET (1..n + 1) /\ g = [t \in SUBSET (1..n + 1) |-> g[t]]
    OBVIOUS
  <2> HIDE DEF g, Step
  <2>4. Rec(g, n + 1)
    BY <2>2, <2>3
  <2> QED BY <2>4
<1> HIDE DEF Rec
<1>3. Bad = {}
  <2> SUFFICES ASSUME Bad # {} PROVE FALSE
    OBVIOUS
  <2>1. PICK n \in Bad : \A m \in Bad : n <= m
    BY LeastExists
  <2>2. n \in Nat /\ n # 0
    BY <1>1, <2>1
  <2>3. n - 1 \in Nat /\ n - 1 \notin Bad
    BY <2>1, <2>2
  <2>4. (n - 1) + 1 = n
    BY <2>2
  <2> QED BY <1>2, <2>1, <2>3, <2>4
<1>4. \E g : Rec(g, Len(s))
  BY <1>0, <1>3
<1>5. disableUndesiredSDKs(env) = (CHOOSE g : Rec(g, Len(s)))[1..Len(s)]
  BY <1>0 DEF disableUndesiredSDKs, FoldLeft, MapThenFoldSet, Rec
<1>6. PICK g : Rec(g, Len(s)) /\ disableUndesiredSDKs(env) = g[1..Len(s)]
  BY <1>4, <1>5
<1>7. \A t \in SUBSET (1..Len(s)) : g[t] = Step(g, t)
  BY <1>6 DEF Rec
<1> DEFINE f == [n \in 0..Len(s) |-> g[1..n]]
<1>8. f[0] = env
  <2>1. 1..0 = {} /\ {} \in SUBSET (1..Len(s))
    OBVIOUS
  <2>2. g[{}] = env
    BY <1>7, <2>1
  <2> QED BY <1>0, <2>1, <2>2
<1>9. ASSUME NEW n \in 1..Len(s)
      PROVE  f[n] = setVar(f[n - 1], Var(s[n], Text(<<>>)))
  <2>a. n \in Nat /\ n \in 1..n /\ n <= Len(s)
    BY <1>0
  <2>b. 1..n \in SUBSET (1..Len(s))
    BY <1>0, <2>a
  <2>c. (1..n) \ {n} = 1..n - 1
    BY <2>a
  <2>1. 1..n \in SUBSET (1..Len(s)) /\ 1..n # {} /\ (1..n) \ {n} = 1..n - 1
    BY <2>a, <2>b, <2>c
  <2>2. Max(1..n) \in 1..n /\ \A y \in 1..n : y <= Max(1..n)
    BY <1>0, <2>1, MaxOfPositions
  <2>3. Max(1..n) = n
    BY <1>0, <2>2
  <2>4. g[1..n] = setVar(g[1..n - 1], Var(s[n], Text(<<>>)))
    BY <1>7, <2>1, <2>3
  <2>5. n \in 0..Len(s) /\ n - 1 \in 0..Len(s)
    BY <1>0
  <2> QED BY <2>4, <2>5
<1>10. f[Len(s)] = disableUndesiredSDKs(env)
  BY <1>0, <1>6
<1> QED BY <1>8, <1>9, <1>10

(* a chain of steps that set variables of W                                *)
LEMMA ExtChain ==
    ASSUME NEW f, NEW a \in Nat, NEW N \in Nat, a <= N, IsSeq(f[a]), NEW W,
           \A n \in a + 1..N : IsSeq(f[n - 1]) => Ext(f[n - 1], f[n], W)
    PROVE  \A n \in a..N : Ext(f[a], f[n], W)
<1> DEFINE Bad == {n \in Nat : n \in a..N /\ ~Ext(f[a], f[n], W)}
<1> SUFFICES ASSUME Bad # {} PROVE FALSE
  OBVIOUS
<1>1. PICK n \in Bad : \A m \in Bad : n <= m
  BY LeastExists
<1>2. n # a
  BY <1>1, ExtRefl
<1>3. n \in a + 1..N /\ n - 1 \in a..N /\ n - 1 \in Nat
  BY <1>1, <1>2
<1>4. Ext(f[a], f[n - 1], W)
  BY <1>1, <1>3
<1>5. IsSeq(f[n - 1])
  BY <1>4 DEF Ext
<1>6. Ext(f[n - 1], f[n], W)
  BY <1>3, <1>5
<1>7. Ext(f[a], f[n], W \cup W)
  BY <1>4, <1>6, ExtTrans
<1> QED BY <1>1, <1>7

LEMMA SetEnvVar ==
    ASSUME NEW env, IsSeq(env), NEW v, NEW value
    PROVE  /\ Ext(env, setEnvVar(env, v, value), {Var(v, value)})
           /\ value # Text(<<>>) /\ AtMostOne(env, v) => Only(setEnvVar(env, v, value), v, Var(v, value))
<1>1. Var(v, value).name = v
  BY DEF Var
<1>2. Ext(env, env, {Var(v, value)})
  BY ExtRefl
<1> QED BY <1>1, <1>2, SetVar DEF setEnvVar

(* setEnvVars sets the variables of its settings; if their names differ,   *)
(* each one that has a value has it in the end.                            *)
LEMMA SetEnvVars ==
    ASSUME NEW env, IsSeq(env), NEW s, IsSeq(s)
    PROVE  /\ Ext(env, setEnvVars(env, s), {Var(s[n][1], s[n][2]) : n \in 1..Len(s)})
           /\ \A j \in 1..Len(s) :
                 /\ AtMostOne(env, s[j][1])
                 /\ s[j][2] # Text(<<>>)
                 /\ \A i \in 1..Len(s) : s[i][1] = s[j][1] => i = j
                 => Only(setEnvVars(env, s), s[j][1], Var(s[j][1], s[j][2]))
<1>0. Len(s) \in Nat
  BY SeqShape
<1>1. PICK f : /\ f[0] = env
               /\ \A n \in 1..Len(s) : f[n] = setEnvVar(f[n - 1], s[n][1], s[n][2])
               /\ f[Len(s)] = setEnvVars(env, s)
  BY SetEnvVarsDef
<1> DEFINE w(n) == Var(s[n][1], s[n][2])
<1>2. \A n \in 1..Len(s) : IsSeq(f[n - 1]) => Ext(f[n - 1], f[n], {w(n)})
  BY <1>1, SetEnvVar
<1>3. Ext(env, setEnvVars(env, s), {w(n) : n \in 1..Len(s)})
  <2> DEFINE W == {w(n) : n \in 1..Len(s)}
  <2>1. \A n \in 1..Len(s) : {w(n)} \subseteq W
    OBVIOUS
  <2> HIDE DEF W, w
  <2>2. \A n \in 0 + 1..Len(s) : IsSeq(f[n - 1]) => Ext(f[n - 1], f[n], W)
    <3> SUFFICES ASSUME NEW n \in 0 + 1..Len(s), IsSeq(f[n - 1])
                 PROVE  Ext(f[n - 1], f[n], W)
      OBVIOUS
    <3>1. n \in 1..Len(s)
      OBVIOUS
    <3>2. Ext(f[n - 1], f[n], {w(n)}) /\ {w(n)} \subseteq W
      BY <1>2, <2>1, <3>1
    <3> QED BY <3>2, ExtMore
  <2>3. 0 <= Len(s) /\ Len(s) \in 0..Len(s)
    BY <1>0
  <2>4. \A n \in 0..Len(s) : Ext(f[0], f[n], W)
    BY <1>0, <1>1, <2>2, <2>3, ExtChain
  <2> QED BY <1>1, <2>3, <2>4 DEF W
<1>4. ASSUME NEW j \in 1..Len(s),
             AtMostOne(env, s[j][1]),
             s[j][2] # Text(<<>>),
             \A i \in 1..Len(s) : s[i][1] = s[j][1] => i = j
      PROVE  Only(setEnvVars(env, s), s[j][1], w(j))
  <2> DEFINE W == {w(n) : n \in (1..Len(s)) \ {j}}
  <2>0. j \in Nat /\ j - 1 \in Nat /\ 0 <= j - 1 /\ j <= Len(s) /\ j - 1 \in 0..j - 1 /\ Len(s) \in j..Len(s)
    BY <1>0
  <2>1. \A n \in (1..Len(s)) \ {j} : {w(n)} \subseteq W
    OBVIOUS
  <2>a. \A n \in 1..Len(s) : w(n).name = s[n][1]
    BY DEF Var
  <2>b. \A n \in (1..Len(s)) \ {j} : s[n][1] # s[j][1]
    BY <1>4
  <2>2. \A x \in W : x.name # s[j][1]
    <3> HIDE DEF w
    <3> QED BY <2>a, <2>b
  <2> HIDE DEF W, w
  <2>3. \A n \in 0 + 1..j - 1 : n \in (1..Len(s)) \ {j}
    BY <1>0
  <2>4. \A n \in 0 + 1..j - 1 : IsSeq(f[n - 1]) => Ext(f[n - 1], f[n], W)
    <3> SUFFICES ASSUME NEW n \in 0 + 1..j - 1, IsSeq(f[n - 1])
                 PROVE  Ext(f[n - 1], f[n], W)
      OBVIOUS
    <3>1. n \in 1..Len(s) /\ n \in (1..Len(s)) \ {j}
      BY <2>3
    <3>2. Ext(f[n - 1], f[n], {w(n)}) /\ {w(n)} \subseteq W
      BY <1>2, <2>1, <3>1
    <3> QED BY <3>2, ExtMore
  <2>5. \A n \in 0..j - 1 : Ext(f[0], f[n], W)
    BY <1>1, <2>0, <2>4, ExtChain
  <2>6. Ext(env, f[j - 1], W)
    BY <1>1, <2>0, <2>5
  <2>7. IsSeq(f[j - 1]) /\ AtMostOne(f[j - 1], s[j][1])
    <3>1. IsSeq(f[j - 1])
      BY <2>6 DEF Ext
    <3>2. AtMostOne(env, s[j][1]) => AtMostOne(f[j - 1], s[j][1])
      BY <2>2, <2>6, ExtKeeps
    <3> QED BY <1>4, <3>1, <3>2
  <2>8. Only(f[j], s[j][1], w(j)) /\ IsSeq(f[j])
    <3>1. f[j] = setEnvVar(f[j - 1], s[j][1], s[j][2])
      BY <1>1
    <3>2. Ext(f[j - 1], f[j], {w(j)})
      BY <1>2, <2>7
    <3>3. Only(f[j], s[j][1], Var(s[j][1], s[j][2]))
      BY <1>4, <2>7, <3>1, SetEnvVar
    <3> QED BY <3>2, <3>3 DEF w, Ext
  <2>9. \A n \in j + 1..Len(s) : n \in (1..Len(s)) \ {j}
    BY <1>0
  <2>10. \A n \in j + 1..Len(s) : IsSeq(f[n - 1]) => Ext(f[n - 1], f[n], W)
    <3> SUFFICES ASSUME NEW n \in j + 1..Len(s), IsSeq(f[n - 1])
                 PROVE  Ext(f[n - 1], f[n], W)
      OBVIOUS
    <3>1. n \in 1..Len(s) /\ n \in (1..Len(s)) \ {j}
      BY <2>9
    <3>2. Ext(f[n - 1], f[n], {w(n)}) /\ {w(n)} \subseteq W
      BY <1>2, <2>1, <3>1
    <3> QED BY <3>2, ExtMore
  <2>11. \A n \in j..Len(s) : Ext(f[j], f[n], W)
    BY <1>0, <2>0, <2>8, <2>10, ExtChain
  <2>12. Ext(f[j], setEnvVars(env, s), W) /\ IsSeq(f[j])
    BY <1>1, <2>0, <2>8, <2>11
  <2>13. \A e : Only(f[j], s[j][1], e) => Only(setEnvVars(env, s), s[j][1], e)
    <3>1. PICK a, b, v : a = f[j] /\ b = setEnvVars(env, s) /\ v = s[j][1]
      OBVIOUS
    <3>2. IsSeq(a) /\ Ext(a, b, W) /\ \A x \in W : x.name # v
      BY <2>2, <2>12, <3>1
    <3>3. \A e : Only(a, v, e) => Only(b, v, e)
      BY <3>2, ExtKeeps
    <3> QED BY <3>1, <3>3
  <2> QED BY <2>8, <2>13
<1> QED BY <1>3, <1>4

LEMMA DisableUndesiredSDKs ==
    ASSUME NEW env, IsSeq(env), server.disabled \in Seq(STRING)
    PROVE  Ext(env, disableUndesiredSDKs(env),
               {Var(lang, Text(<<>>)) : lang \in {server.disabled[n] : n \in 1..Len(server.disabled)}})
<1>1. PICK s : s = server.disabled
  OBVIOUS
<1>2. IsSeq(s) /\ Len(s) \in Nat
  BY <1>1, SeqShape DEF IsSeq
<1>3. PICK f : /\ f[0] = env
               /\ \A n \in 1..Len(s) : f[n] = setVar(f[n - 1], Var(s[n], Text(<<>>)))
               /\ f[Len(s)] = disableUndesiredSDKs(env)
  BY <1>1, <1>2, DisableDef
<1> DEFINE W == {Var(lang, Text(<<>>)) : lang \in {s[n] : n \in 1..Len(s)}}
<1>4. \A n \in 1..Len(s) : {Var(s[n], Text(<<>>))} \subseteq W
  OBVIOUS
<1> HIDE DEF W
<1>5. \A n \in 0 + 1..Len(s) : IsSeq(f[n - 1]) => Ext(f[n - 1], f[n], W)
  <2> SUFFICES ASSUME NEW n \in 0 + 1..Len(s), IsSeq(f[n - 1])
               PROVE  Ext(f[n - 1], f[n], W)
    OBVIOUS
  <2>1. n \in 1..Len(s)
    OBVIOUS
  <2>2. f[n] = setVar(f[n - 1], Var(s[n], Text(<<>>))) /\ {Var(s[n], Text(<<>>))} \subseteq W
    BY <1>3, <1>4, <2>1
  <2>3. Ext(f[n - 1], f[n], {Var(s[n], Text(<<>>))})
    BY <2>2, SetVar
  <2> QED BY <2>2, <2>3, ExtMore
<1>z. 0 <= Len(s) /\ IsSeq(f[0])
  BY <1>2, <1>3
<1>6. \A n \in 0..Len(s) : Ext(f[0], f[n], W)
  BY <1>2, <1>z, <1>5, ExtChain
<1>7. Ext(env, disableUndesiredSDKs(env), W)
  BY <1>2, <1>3, <1>6
<1> QED BY <1>1, <1>7 DEF W
-----------------------------------------------------------------------------
(* The environment of a container: the user's, the variables that do not   *)
(* depend on the pod, the fields of the pod, and the variables that refer  *)
(* to them.                                                                *)

FieldNames == {"NAMESPACE", "POD_NAME", "NODE_NAME", "POD_UID"}
RefNames == {"NAMESPACE", "POD_NAME", "NODE_NAME"}

(* at position i of env, v stands for the field of the pod                 *)
Resolved(env, i, v) ==
    /\ v \in RefNames
    /\ \E j \in 1..i - 1 :
         /\ j \in DOMAIN env
         /\ env[j] = FieldVar(v, FieldName(v))
         /\ \A k \in j + 1..i - 1 : env[k].name # v

(* the variables of W have names of N and refer to R                       *)
Vars(W, N, R) == \A w \in W : w.name \in N /\ w.field = "" /\ RefsOf(w) \subseteq R

(* fv has the fields of the pod                                            *)
IsFields(fv) ==
    /\ IsSeq(fv)
    /\ Len(fv) = 3 \/ Len(fv) = 4
    /\ fv[1] = FieldVar("NAMESPACE", "namespace")
    /\ fv[2] = FieldVar("POD_NAME", "name")
    /\ fv[3] = FieldVar("NODE_NAME", "node")
    /\ Len(fv) = 4 => fv[4] = FieldVar("POD_UID", "uid")

(* e is d followed by fv                                                   *)
Joined(d, fv, e) ==
    /\ IsSeq(e)
    /\ Len(e) = Len(d) + Len(fv)
    /\ \A i \in DOMAIN d : i \in DOMAIN e /\ e[i] = d[i]
    /\ \A k \in DOMAIN fv : Len(d) + k \in DOMAIN e /\ e[Len(d) + k] = fv[k]
    /\ \A i \in DOMAIN e : i \in DOMAIN d \/ \E k \in DOMAIN fv : i = Len(d) + k

Disjoint(M, N) == \A x \in M : x \notin N

(* a variable has a value or a source                                      *)
WellFormed(env) == \A i \in DOMAIN env : env[i].field # "" => env[i].value = Text(<<>>)

(* what env is to the environment of the user, N the names of the webhook  *)
Structure(user, env, N) ==
    /\ IsSeq(env)
    /\ Len(user) <= Len(env)
    /\ \A i \in DOMAIN user : /\ env[i].name = user[i].name
                              /\ user[i].name \notin N => env[i] = user[i]
    /\ WellFormed(env)
    /\ \A i \in DOMAIN env : \A v \in RefsOf(env[i]) : Has(user, env[i].name) \/ Resolved(env, i, v)

LEMMA FieldVarShape ==
    ASSUME NEW v, NEW f
    PROVE  /\ FieldVar(v, f).name = v
           /\ FieldVar(v, f).field = f
           /\ FieldVar(v, f).value = Text(<<>>)
           /\ RefsOf(FieldVar(v, f)) = {}
<1>1. FieldVar(v, f).name = v /\ FieldVar(v, f).field = f /\ FieldVar(v, f).value = Text(<<>>)
  BY DEF FieldVar
<1>2. Text(<<>>).refs = <<>> /\ ToSet(<<>>) = {}
  BY DEF Text, Value, ToSet
<1>3. DOMAIN FieldVar(v, f).attrs = {}
  BY DEF FieldVar, NoAttrs
<1> QED BY <1>1, <1>2, <1>3 DEF RefsOf

LEMMA TextVarShape ==
    ASSUME NEW v, NEW value, value.refs = <<>>
    PROVE  /\ Var(v, value).name = v
           /\ Var(v, value).field = ""
           /\ RefsOf(Var(v, value)) = {}
<1>1. Var(v, value).name = v /\ Var(v, value).field = "" /\ Var(v, value).value = value
  BY DEF Var
<1>2. ToSet(<<>>) = {}
  BY DEF ToSet
<1>3. DOMAIN Var(v, value).attrs = {}
  BY DEF Var, NoAttrs
<1> QED BY <1>1, <1>2, <1>3 DEF RefsOf

LEMMA JoinedConcat ==
    ASSUME NEW d, IsSeq(d), NEW fv, IsSeq(fv)
    PROVE  Joined(d, fv, d \o fv)
<1>1. PICK e : e = d \o fv
  OBVIOUS
<1>2. Len(d) \in Nat /\ DOMAIN d = 1..Len(d) /\ Len(fv) \in Nat /\ DOMAIN fv = 1..Len(fv)
  BY SeqShape
<1>3. /\ IsSeq(e)
      /\ Len(e) = Len(d) + Len(fv)
      /\ \A i \in 1..Len(d) : e[i] = d[i]
      /\ \A k \in 1..Len(fv) : e[Len(d) + k] = fv[k]
  BY <1>1, ConcatShape
<1>4. DOMAIN e = 1..Len(d) + Len(fv)
  BY <1>3, SeqShape
<1>5. \A i \in DOMAIN d : i \in DOMAIN e /\ e[i] = d[i]
  BY <1>2, <1>3, <1>4
<1>6. \A k \in DOMAIN fv : Len(d) + k \in DOMAIN e /\ e[Len(d) + k] = fv[k]
  BY <1>2, <1>3, <1>4
<1>7. \A i \in DOMAIN e : i \in DOMAIN d \/ \E k \in DOMAIN fv : i = Len(d) + k
  <2> SUFFICES ASSUME NEW i \in DOMAIN e, i \notin DOMAIN d
               PROVE  \E k \in DOMAIN fv : i = Len(d) + k
    OBVIOUS
  <2>1. i - Len(d) \in DOMAIN fv /\ i = Len(d) + (i - Len(d))
    BY <1>2, <1>4
  <2> QED BY <2>1
<1>8. Joined(d, fv, e)
  BY <1>3, <1>5, <1>6, <1>7 DEF Joined
<1> QED BY <1>1, <1>8

LEMMA FieldsShape ==
    ASSUME NEW fv, IsFields(fv)
    PROVE  /\ DOMAIN fv = 1..Len(fv)
           /\ \A i \in 1..Len(fv) : /\ fv[i].name \in FieldNames
                                    /\ fv[i].value = Text(<<>>)
                                    /\ RefsOf(fv[i]) = {}
           /\ \A v \in RefNames :
                \E k \in 1..3 : /\ fv[k] = FieldVar(v, FieldName(v))
                                /\ \A i \in 1..Len(fv) : fv[i].name = v => i = k
<1>1. DOMAIN fv = 1..Len(fv)
  BY SeqShape DEF IsFields
<1>a. Len(fv) = 3 \/ Len(fv) = 4
  BY DEF IsFields
<1>2. \A i \in 1..Len(fv) : i = 1 \/ i = 2 \/ i = 3 \/ (i = 4 /\ Len(fv) = 4)
  <2>1. \A n \in Int : n = 3 \/ n = 4 => \A i \in 1..n : i = 1 \/ i = 2 \/ i = 3 \/ (i = 4 /\ n = 4)
    OBVIOUS
  <2>2. Len(fv) \in Int
    BY <1>a
  <2> QED BY <1>a, <2>1, <2>2
<1>3. /\ fv[1] = FieldVar("NAMESPACE", FieldName("NAMESPACE"))
      /\ fv[2] = FieldVar("POD_NAME", FieldName("POD_NAME"))
      /\ fv[3] = FieldVar("NODE_NAME", FieldName("NODE_NAME"))
      /\ Len(fv) = 4 => fv[4] = FieldVar("POD_UID", "uid")
  BY DEF IsFields, FieldName
<1>4. fv[1].name = "NAMESPACE" /\ fv[2].name = "POD_NAME" /\ fv[3].name = "NODE_NAME"
  BY <1>3, FieldVarShape
<1>5. Len(fv) = 4 => fv[4].name = "POD_UID"
  BY <1>3, FieldVarShape
<1>6. \A i \in 1..Len(fv) : \E v, f : fv[i] = FieldVar(v, f)
  BY <1>2, <1>3
<1>7. \A i \in 1..Len(fv) : fv[i].value = Text(<<>>) /\ RefsOf(fv[i]) = {}
  BY <1>6, FieldVarShape
<1>8. \A i \in 1..Len(fv) : fv[i].name \in FieldNames
  BY <1>2, <1>4, <1>5 DEF FieldNames
<1>9. ASSUME NEW v \in RefNames
      PROVE  \E k \in 1..3 : /\ fv[k] = FieldVar(v, FieldName(v))
                             /\ \A i \in 1..Len(fv) : fv[i].name = v => i = k
  <2>1. CASE v = "NAMESPACE"
    <3>1. \A i \in 1..Len(fv) : fv[i].name = v => i = 1
      BY <1>2, <1>4, <1>5, <2>1
    <3> QED BY <1>3, <2>1, <3>1
  <2>2. CASE v = "POD_NAME"
    <3>1. \A i \in 1..Len(fv) : fv[i].name = v => i = 2
      BY <1>2, <1>4, <1>5, <2>2
    <3> QED BY <1>3, <2>2, <3>1
  <2>3. CASE v = "NODE_NAME"
    <3>1. \A i \in 1..Len(fv) : fv[i].name = v => i = 3
      BY <1>2, <1>4, <1>5, <2>3
    <3> QED BY <1>3, <2>3, <3>1
  <2> QED BY <2>1, <2>2, <2>3 DEF RefNames
<1> QED BY <1>1, <1>7, <1>8, <1>9

(* The fields come before the variables that refer to them, and after the  *)
(* variables of the user that have their names.                            *)
LEMMA StructureLemma ==
    ASSUME NEW user, IsSeq(user), WellFormed(user),
           NEW e1, NEW W1, NEW N1, Ext(user, e1, W1), Vars(W1, N1, {}),
           NEW fv, IsFields(fv), NEW e2, Joined(e1, fv, e2),
           NEW e3, NEW W3, NEW N3, Ext(e2, e3, W3), Vars(W3, N3, RefNames),
           Disjoint(N1, N3), Disjoint(FieldNames, N3)
    PROVE  Structure(user, e3, N1 \cup N3)
<1>1. /\ IsSeq(e1) /\ Len(user) \in Nat /\ Len(e1) \in Nat /\ Len(user) <= Len(e1)
      /\ DOMAIN user = 1..Len(user) /\ DOMAIN e1 = 1..Len(e1)
  BY SeqShape DEF Ext
<1>2. DOMAIN fv = 1..Len(fv) /\ Len(fv) \in Nat
  BY SeqShape DEF IsFields
<1>3. DOMAIN e2 = 1..Len(e2) /\ Len(e2) \in Nat /\ Len(e2) = Len(e1) + Len(fv)
  BY SeqShape DEF Joined
<1>4. /\ \A i \in DOMAIN e1 : i \in DOMAIN e2 /\ e2[i] = e1[i]
      /\ \A k \in DOMAIN fv : Len(e1) + k \in DOMAIN e2 /\ e2[Len(e1) + k] = fv[k]
      /\ \A i \in DOMAIN e2 : i \in DOMAIN e1 \/ \E k \in DOMAIN fv : i = Len(e1) + k
  BY DEF Joined
<1>5. IsSeq(e3) /\ Len(e3) \in Nat /\ DOMAIN e3 = 1..Len(e3) /\ Len(e2) <= Len(e3)
  BY SeqShape DEF Ext
<1>6. \A i \in DOMAIN e1 : \/ i \in DOMAIN user /\ e1[i] = user[i]
                           \/ e1[i] \in W1 /\ (i \in DOMAIN user => e1[i].name = user[i].name)
  BY DEF Ext
<1>9. \A i \in DOMAIN e3 : \/ i \in DOMAIN e2 /\ e3[i] = e2[i]
                           \/ e3[i] \in W3 /\ (i \in DOMAIN e2 => e3[i].name = e2[i].name)
  BY DEF Ext
<1>a. Len(user) <= Len(e3) /\ Len(user) <= Len(e2)
  BY <1>1, <1>2, <1>3, <1>5
<1>10. DOMAIN user \subseteq DOMAIN e1 /\ DOMAIN e2 \subseteq DOMAIN e3
  BY <1>1, <1>3, <1>5
<1>11. \A w \in W1 : w.name \in N1 /\ w.field = "" /\ RefsOf(w) = {}
  BY DEF Vars
<1>12. \A w \in W3 : w.name \in N3 /\ w.field = "" /\ RefsOf(w) \subseteq RefNames
  BY DEF Vars
<1>13. \A k \in DOMAIN fv : fv[k].name \in FieldNames /\ fv[k].value = Text(<<>>) /\ RefsOf(fv[k]) = {}
  BY <1>2, FieldsShape
<1>15. ASSUME NEW i \in DOMAIN user
       PROVE  /\ e3[i].name = user[i].name
              /\ user[i].name \notin N1 \cup N3 => e3[i] = user[i]
  <2>1. i \in DOMAIN e1 /\ i \in DOMAIN e2 /\ i \in DOMAIN e3 /\ e2[i] = e1[i]
    BY <1>4, <1>10
  <2>2. e1[i] = user[i] \/ (e1[i].name \in N1 /\ e1[i].name = user[i].name)
    BY <1>6, <1>11, <2>1
  <2>3. e3[i] = e2[i] \/ (e3[i].name \in N3 /\ e3[i].name = e2[i].name)
    BY <1>9, <1>12, <2>1
  <2> QED BY <2>1, <2>2, <2>3
<1>16. ASSUME NEW i \in DOMAIN e3, e3[i].field # ""
       PROVE  e3[i].value = Text(<<>>)
  <2>1. i \in DOMAIN e2 /\ e3[i] = e2[i]
    BY <1>9, <1>12, <1>16
  <2>2. CASE i \in DOMAIN e1
    <3>1. e1[i].field # "" /\ e3[i] = e1[i]
      BY <1>4, <1>16, <2>1, <2>2
    <3>2. i \in DOMAIN user /\ e1[i] = user[i]
      BY <1>6, <1>11, <2>2, <3>1
    <3> QED BY <3>1, <3>2 DEF WellFormed
  <2>3. CASE \E k \in DOMAIN fv : i = Len(e1) + k
    BY <1>4, <1>13, <2>1, <2>3
  <2> QED BY <1>4, <2>1, <2>2, <2>3
<1>17. ASSUME NEW i \in DOMAIN e3, NEW v \in RefsOf(e3[i]), ~Has(user, e3[i].name)
       PROVE  Resolved(e3, i, v)
  <2>1. \A j \in DOMAIN user : user[j].name # e3[i].name
    BY <1>17, FindEnvVar
  <2>2. i \notin DOMAIN user
    BY <1>15, <2>1
  <2>3. i \in DOMAIN e1 => e1[i].name \in N1 /\ RefsOf(e1[i]) = {}
    BY <1>6, <1>11, <2>2
  <2>4. i \in DOMAIN e2 => /\ RefsOf(e2[i]) = {}
                           /\ e2[i].name \in N1 \/ e2[i].name \in FieldNames
    BY <1>4, <1>13, <2>3
  <2>5. e3[i] \in W3 /\ (i \in DOMAIN e2 => e3[i].name = e2[i].name)
    BY <1>9, <2>4
  <2>6. i \notin DOMAIN e2
    BY <1>12, <2>4, <2>5 DEF Disjoint
  <2>7. i \in Nat /\ i > Len(e2)
    BY <1>3, <1>5, <2>6
  <2>8. v \in RefNames
    BY <1>12, <2>5
  <2>9. PICK k \in 1..3 : fv[k] = FieldVar(v, FieldName(v)) /\ \A n \in 1..Len(fv) : fv[n].name = v => n = k
    BY <2>8, FieldsShape
  <2>10. k \in DOMAIN fv /\ k \in Nat
    BY <1>2, <2>9 DEF IsFields
  <2>11. PICK j \in Nat : j = Len(e1) + k
    BY <1>1, <2>10
  <2>12. j \in DOMAIN e2 /\ e2[j] = fv[k]
    BY <1>4, <2>10, <2>11
  <2>13. e2[j].name = v /\ v \in FieldNames /\ v \notin N3
    BY <1>13, <2>9, <2>10, <2>12, FieldVarShape DEF Disjoint
  <2>14. j \in DOMAIN e3 /\ e3[j] = FieldVar(v, FieldName(v))
    BY <1>9, <1>10, <1>12, <2>9, <2>12, <2>13
  <2>15. j \in 1..i - 1
    BY <1>3, <2>7, <2>11, <2>12
  <2>16. ASSUME NEW n \in j + 1..i - 1, e3[n].name = v
         PROVE  FALSE
    <3>1. n \in DOMAIN e3
      BY <1>5, <2>7, <2>11
    <3>2. n \in DOMAIN e2 /\ e3[n] = e2[n]
      BY <1>9, <1>12, <2>13, <2>16, <3>1
    <3>3. n \notin DOMAIN e1
      BY <1>1, <2>10, <2>11
    <3>4. PICK m \in DOMAIN fv : n = Len(e1) + m
      BY <1>4, <3>2, <3>3
    <3>5. fv[m].name = v
      BY <1>4, <2>16, <3>2, <3>4
    <3>6. m = k
      BY <1>2, <2>9, <3>4, <3>5
    <3> QED BY <2>11, <3>4, <3>6
  <2> QED BY <2>8, <2>14, <2>15, <2>16 DEF Resolved, RefNames
<1> QED BY <1>5, <1>a, <1>15, <1>16, <1>17 DEF Structure, WellFormed
-----------------------------------------------------------------------------
(* The variables of each stage.                                            *)

FirstNames == {
    "SDK_PKG_VERSION", "LD_PRELOAD", "INJECTOR_CONFIG_FILE", "OTLP_ENDPOINT", "OTLP_PROTOCOL",
    "SEMCONV_STABILITY", "LOG_LEVEL", "CONTAINER_NAME"}
ServiceNames == {"SERVICE_NAMESPACE", "SERVICE_NAME", "SERVICE_VERSION"}
ExporterNames == {
    "PROPAGATORS", "SAMPLER", "SAMPLER_ARG", "METRICS_EXPORTER", "TRACES_EXPORTER", "LOGS_EXPORTER"}
LateNames == ServiceNames \cup ExporterNames \cup {"RESOURCE_ATTRIBUTES"}

(* the settings s have names of N and refer to R                           *)
IsSettings(s, N, R) ==
    /\ IsSeq(s)
    /\ \A n \in 1..Len(s) : s[n][1] \in N /\ ToSet(s[n][2].refs) \subseteq R

LEMMA VarShape ==
    ASSUME NEW v, NEW value
    PROVE  Var(v, value).name = v /\ Var(v, value).field = "" /\ RefsOf(Var(v, value)) = ToSet(value.refs)
<1>1. Var(v, value).name = v /\ Var(v, value).field = "" /\ Var(v, value).value = value
  BY DEF Var
<1>2. DOMAIN Var(v, value).attrs = {}
  BY DEF Var, NoAttrs
<1> QED BY <1>1, <1>2 DEF RefsOf

LEMMA TextShape ==
    ASSUME NEW t
    PROVE  Text(t).refs = <<>> /\ Text(t).text = t /\ ToSet(Text(t).refs) = {}
BY DEF Text, Value, ToSet

LEMMA SettingsVars ==
    ASSUME NEW s, NEW N, NEW R, IsSettings(s, N, R)
    PROVE  Vars({Var(s[n][1], s[n][2]) : n \in 1..Len(s)}, N, R)
<1>1. \A n \in 1..Len(s) : /\ Var(s[n][1], s[n][2]).name \in N
                           /\ Var(s[n][1], s[n][2]).field = ""
                           /\ RefsOf(Var(s[n][1], s[n][2])) \subseteq R
  <2> TAKE n \in 1..Len(s)
  <2>1. s[n][1] \in N /\ ToSet(s[n][2].refs) \subseteq R
    BY DEF IsSettings
  <2>2. PICK v, value : v = s[n][1] /\ value = s[n][2]
    OBVIOUS
  <2>3. Var(v, value).name = v /\ Var(v, value).field = "" /\ RefsOf(Var(v, value)) = ToSet(value.refs)
    BY VarShape
  <2>4. v \in N /\ ToSet(value.refs) \subseteq R
    BY <2>1, <2>2
  <2>5. Var(v, value).name \in N /\ Var(v, value).field = "" /\ RefsOf(Var(v, value)) \subseteq R
    BY <2>3, <2>4
  <2> QED BY <2>2, <2>5
<1> QED BY <1>1 DEF Vars

IsInjectorVars(s) ==
    /\ IsSettings(s, FirstNames, {})
    /\ Len(s) = 7
    /\ s[1] = <<"SDK_PKG_VERSION", Text(<<server.ver>>)>>
    /\ s[2] = <<"LD_PRELOAD", Text(<<"injector">>)>>
    /\ s[3] = <<"INJECTOR_CONFIG_FILE", Text(<<"injector">>)>>
    /\ \A n \in 1..7 : /\ s[n][1] = "SDK_PKG_VERSION" => n = 1
                       /\ s[n][1] = "LD_PRELOAD" => n = 2
                       /\ s[n][1] = "INJECTOR_CONFIG_FILE" => n = 3

LEMMA InjectorVars == IsInjectorVars(injectorVars)
<1> DEFINE s == injectorVars
<1>1. /\ Len(s) = 7
      /\ s[1] = <<"SDK_PKG_VERSION", Text(<<server.ver>>)>>
      /\ s[2] = <<"LD_PRELOAD", Text(<<"injector">>)>>
      /\ s[3] = <<"INJECTOR_CONFIG_FILE", Text(<<"injector">>)>>
      /\ s[4] = <<"OTLP_ENDPOINT", Text(<<"endpoint">>)>>
      /\ s[5] = <<"OTLP_PROTOCOL", Text(<<"protocol">>)>>
      /\ s[6] = <<"SEMCONV_STABILITY", Text(<<"http">>)>>
      /\ s[7] = <<"LOG_LEVEL", Text(server.debug)>>
  BY DEF injectorVars
<1>2. IsSeq(s)
  <2>1. s \in Seq({s[i] : i \in 1..7})
    BY DEF injectorVars
  <2> QED BY <2>1 DEF IsSeq
<1>3. \A n \in 1..7 : n = 1 \/ n = 2 \/ n = 3 \/ n = 4 \/ n = 5 \/ n = 6 \/ n = 7
  OBVIOUS
<1>4. \A n \in 1..7 : /\ s[n][1] = "SDK_PKG_VERSION" => n = 1
                      /\ s[n][1] = "LD_PRELOAD" => n = 2
                      /\ s[n][1] = "INJECTOR_CONFIG_FILE" => n = 3
  BY <1>1, <1>3
<1>5. \A n \in 1..7 : s[n][1] \in FirstNames
  BY <1>1, <1>3 DEF FirstNames
<1>6. \A n \in 1..7 : \E t : s[n][2] = Text(t)
  BY <1>1, <1>3
<1>7. \A n \in 1..7 : ToSet(s[n][2].refs) \subseteq {}
  BY <1>6, TextShape
<1> QED BY <1>1, <1>2, <1>4, <1>5, <1>7 DEF IsSettings, IsInjectorVars

LEMMA ExporterVars ==
    IsSettings(exporterVars, ExporterNames, {})
<1>1. /\ Len(exporterVars) = 6
      /\ exporterVars[1][1] = "PROPAGATORS" /\ exporterVars[2][1] = "SAMPLER"
      /\ exporterVars[3][1] = "SAMPLER_ARG" /\ exporterVars[4][1] = "METRICS_EXPORTER"
      /\ exporterVars[5][1] = "TRACES_EXPORTER" /\ exporterVars[6][1] = "LOGS_EXPORTER"
  BY DEF exporterVars
<1>2. /\ \E t : exporterVars[1][2] = Text(t)
      /\ \E t : exporterVars[2][2] = Text(t)
      /\ \E t : exporterVars[3][2] = Text(t)
      /\ \E t : exporterVars[4][2] = Text(t)
      /\ \E t : exporterVars[5][2] = Text(t)
      /\ \E t : exporterVars[6][2] = Text(t)
  BY DEF exporterVars
<1>3. IsSeq(exporterVars)
  <2>1. exporterVars \in Seq({exporterVars[i] : i \in 1..6})
    BY DEF exporterVars
  <2> QED BY <2>1 DEF IsSeq
<1>4. \A n \in 1..6 : n = 1 \/ n = 2 \/ n = 3 \/ n = 4 \/ n = 5 \/ n = 6
  OBVIOUS
<1>5. \A n \in 1..6 : exporterVars[n][1] \in ExporterNames
  BY <1>1, <1>4 DEF ExporterNames
<1>6. \A n \in 1..6 : \E t : exporterVars[n][2] = Text(t)
  BY <1>2, <1>4
<1>7. \A n \in 1..6 : ToSet(exporterVars[n][2].refs) \subseteq {}
  BY <1>6, TextShape
<1> QED BY <1>1, <1>3, <1>5, <1>7 DEF IsSettings

LEMMA TupleConcat ==
    ASSUME NEW a, NEW b, NEW c, NEW d
    PROVE  <<a, b, c>> \o <<d>> = <<a, b, c, d>> /\ <<a, b, c>> \o <<>> = <<a, b, c>>
<1> DEFINE S == {a, b, c, d}
<1>1. <<a, b, c>> \in Seq(S) /\ <<d>> \in Seq(S) /\ d \in S
  OBVIOUS
<1>2. <<a, b, c>> \o <<d>> = Append(<<a, b, c>>, d)
  BY <1>1, AppendIsConcat
<1>3. Append(<<a, b, c>>, d) = <<a, b, c, d>>
  <2>1. PICK r, s, t : r = Append(s, d) /\ s = <<a, b, c>> /\ t = <<a, b, c, d>>
    OBVIOUS
  <2>2. s \in Seq(S) /\ t \in Seq(S) /\ Len(s) = 3 /\ Len(t) = 4 /\ d \in S
    BY <2>1
  <2>3. s[1] = a /\ s[2] = b /\ s[3] = c /\ t[1] = a /\ t[2] = b /\ t[3] = c /\ t[4] = d
    BY <2>1
  <2> HIDE DEF S
  <2>4. r \in Seq(S) /\ Len(r) = Len(s) + 1 /\ (\A i \in 1..Len(s) : r[i] = s[i]) /\ r[Len(s) + 1] = d
    BY <2>1, <2>2, AppendProperties
  <2>5. Len(r) = 4 /\ r[1] = s[1] /\ r[2] = s[2] /\ r[3] = s[3] /\ r[4] = d
    BY <2>2, <2>4
  <2>6. \A i \in 1..4 : i = 1 \/ i = 2 \/ i = 3 \/ i = 4
    OBVIOUS
  <2>7. \A i \in 1..Len(r) : r[i] = t[i]
    BY <2>3, <2>5, <2>6
  <2>8. r = t
    BY <2>2, <2>4, <2>5, <2>7, SeqEqual
  <2> QED BY <2>1, <2>8
<1>4. <<a, b, c>> \o <<>> = <<a, b, c>>
  BY <1>1, ConcatEmptySeq
<1> QED BY <1>2, <1>3, <1>4

LEMMA FieldVars ==
    ASSUME server.uids \in BOOLEAN
    PROVE  IsFields(fieldVars) /\ (server.uids => fieldVars[4] = FieldVar("POD_UID", "uid") /\ Len(fieldVars) = 4)
<1>1. PICK a, b, c, d : /\ a = FieldVar("NAMESPACE", "namespace") /\ b = FieldVar("POD_NAME", "name")
                        /\ c = FieldVar("NODE_NAME", "node") /\ d = FieldVar("POD_UID", "uid")
  OBVIOUS
<1>2. CASE server.uids
  <2>1. fieldVars = <<a, b, c, d>>
    BY <1>1, <1>2, TupleConcat DEF fieldVars
  <2>2. /\ <<a, b, c, d>> \in Seq({a, b, c, d})
        /\ Len(<<a, b, c, d>>) = 4
    OBVIOUS
  <2>3. fieldVars[1] = a /\ fieldVars[2] = b /\ fieldVars[3] = c /\ fieldVars[4] = d
    BY <2>1
  <2> QED BY <1>1, <2>1, <2>2, <2>3 DEF IsFields, IsSeq
<1>3. CASE ~server.uids
  <2>1. fieldVars = <<a, b, c>>
    BY <1>1, <1>3, TupleConcat DEF fieldVars
  <2>2. /\ <<a, b, c>> \in Seq({a, b, c})
        /\ Len(<<a, b, c>>) = 3
    OBVIOUS
  <2>3. fieldVars[1] = a /\ fieldVars[2] = b /\ fieldVars[3] = c
    BY <2>1
  <2>4. Len(fieldVars) = 3 /\ ~(Len(fieldVars) = 4)
    BY <2>1, <2>2
  <2>5. IsSeq(fieldVars)
    BY <2>1, <2>2 DEF IsSeq
  <2> QED BY <1>1, <1>3, <2>3, <2>4, <2>5 DEF IsFields
<1> QED BY <1>2, <1>3

LEMMA TextsShape ==
    ASSUME NEW x \in Texts
    PROVE  x.refs = <<>> /\ ToSet(x.refs) = {}
<1>1. x.refs = <<>>
  BY DEF Texts
<1> QED BY <1>1 DEF ToSet

LEMMA EmptyText == Text(<<>>) \in Texts
BY DEF Text, Value, Texts

(* A text of the user, or else the other value.                            *)
LEMMA ChooseLabelOrAnnotation ==
    ASSUME NEW m, \A a \in DOMAIN m.annotations : m.annotations[a] \in Texts,
           \A a \in DOMAIN m.labels : m.labels[a] \in Texts,
           NEW useLabels \in BOOLEAN, NEW a, NEW labelKeys, IsSeq(labelKeys), NEW other
    PROVE  /\ \/ chooseLabelOrAnnotation(m, useLabels, a, labelKeys, other) = other
              \/ chooseLabelOrAnnotation(m, useLabels, a, labelKeys, other) \in Texts
           /\ a \notin DOMAIN m.annotations /\ (~useLabels \/ DOMAIN m.labels = {})
                => chooseLabelOrAnnotation(m, useLabels, a, labelKeys, other) = other
<1>1. PICK an : an = IF a \in DOMAIN m.annotations THEN <<m.annotations[a]>> ELSE <<>>
  OBVIOUS
<1>2. PICK ls : ls = [k \in DOMAIN labelKeys |->
                        IF labelKeys[k] \in DOMAIN m.labels THEN m.labels[labelKeys[k]] ELSE Text(<<>>)]
  OBVIOUS
<1>3. PICK us : us = IF useLabels THEN ls ELSE <<>>
  OBVIOUS
<1>4. PICK all : all = an \o us
  OBVIOUS
<1>5. PICK I : I = {i \in 1..Len(all) : all[i] # Text(<<>>)}
  OBVIOUS
<1>6. chooseLabelOrAnnotation(m, useLabels, a, labelKeys, other) =
        LET i == IF I # {} THEN Min(I) ELSE 0
        IN IF i = 0 THEN other ELSE all[i]
  BY <1>1, <1>2, <1>3, <1>4, <1>5 DEF chooseLabelOrAnnotation, SelectInSeq
<1>7. an \in Seq(Texts)
  <2>1. \A x \in Texts : <<x>> \in Seq(Texts)
    OBVIOUS
  <2> QED BY <1>1, <2>1
<1>8. ls \in Seq(Texts) /\ (DOMAIN m.labels = {} => \A k \in 1..Len(ls) : ls[k] = Text(<<>>))
  <2>1. Len(labelKeys) \in Nat /\ DOMAIN labelKeys = 1..Len(labelKeys)
    BY SeqShape
  <2>2. \A k \in DOMAIN labelKeys : ls[k] \in Texts
    BY <1>2, EmptyText
  <2>3. ls \in [1..Len(labelKeys) -> Texts]
    BY <1>2, <2>1, <2>2
  <2>4. ls \in Seq(Texts)
    BY <2>1, <2>3, SeqDef
  <2>5. Len(ls) = Len(labelKeys)
    BY <2>1, <2>3, <2>4, LenProperties
  <2>6. DOMAIN m.labels = {} => \A k \in DOMAIN labelKeys : ls[k] = Text(<<>>)
    BY <1>2
  <2> QED BY <2>1, <2>4, <2>5, <2>6
<1>9. us \in Seq(Texts) /\ (~useLabels \/ DOMAIN m.labels = {} => \A k \in 1..Len(us) : us[k] = Text(<<>>))
  <2>1. CASE useLabels
    BY <1>3, <1>8, <2>1
  <2>2. CASE ~useLabels
    <3>1. us = <<>>
      BY <1>3, <2>2
    <3> QED BY <3>1
  <2> QED BY <2>1, <2>2
<1>10. /\ all \in Seq(Texts)
       /\ Len(all) = Len(an) + Len(us)
       /\ \A i \in 1..Len(an) + Len(us) : all[i] = IF i <= Len(an) THEN an[i] ELSE us[i - Len(an)]
  BY <1>4, <1>7, <1>9, ConcatProperties
<1>11. Len(all) \in Nat /\ \A i \in 1..Len(all) : all[i] \in Texts
  BY <1>10, LenProperties, ElementOfSeq
<1>12. I \in SUBSET Nat /\ (I # {} => Min(I) \in I)
  <2>1. I \in SUBSET Nat
    BY <1>5, <1>11
  <2> QED BY <2>1, MinOfPositions
<1>13. I # {} => Min(I) \in 1..Len(all) /\ Min(I) # 0
  BY <1>5, <1>11, <1>12
<1>14. I # {} => chooseLabelOrAnnotation(m, useLabels, a, labelKeys, other) \in Texts
  BY <1>6, <1>11, <1>13
<1>15. I = {} => chooseLabelOrAnnotation(m, useLabels, a, labelKeys, other) = other
  BY <1>6
<1>16. ASSUME a \notin DOMAIN m.annotations, ~useLabels \/ DOMAIN m.labels = {}
       PROVE  I = {}
  <2>1. an = <<>>
    BY <1>1, <1>16
  <2>2. Len(an) = 0
    BY <2>1
  <2>3. Len(us) \in Nat
    BY <1>9, LenProperties
  <2>4. \A i \in 1..Len(all) : i \in 1..Len(us) /\ all[i] = us[i]
    BY <1>10, <2>2, <2>3
  <2>5. \A i \in 1..Len(all) : all[i] = Text(<<>>)
    BY <1>9, <1>16, <2>4
  <2> QED BY <1>5, <2>5
<1> QED BY <1>14, <1>15, <1>16

-----------------------------------------------------------------------------
(* The service name and the attributes.                                    *)

LEMMA Merge ==
    ASSUME NEW f, NEW g
    PROVE  /\ DOMAIN (f ++ g) = DOMAIN f \cup DOMAIN g
           /\ \A x \in DOMAIN f : (f ++ g)[x] = f[x]
           /\ \A x \in DOMAIN g : x \notin DOMAIN f => (f ++ g)[x] = g[x]
BY DEF ++

(* the kinds of os that have an attribute, and the last owner of a kind    *)
KindsOf(os) == {o.kind : o \in ToSet(os)} \cap ToSet(Kinds)
LastOf(os, k) == os[SelectLastInSeq(os, LAMBDA o : o.kind = k)]
Named(os) == [k \in KindsOf(os) |-> Text(LastOf(os, k).name)]
Uids(os) == [k \in KindsOf(os) |-> Text(LastOf(os, k).uid)]

LEMMA ParentLabelsDef ==
    ASSUME NEW m
    PROVE  addParentResourceLabels(m) =
             IF server.uids THEN Uids(m.owners) ++ Named(ownersFrom(m)) ELSE Named(ownersFrom(m))
BY DEF addParentResourceLabels, Uids, Named, KindsOf, LastOf

LEMMA ParentLabelsShape ==
    ASSUME NEW m, server.uids \in BOOLEAN
    PROVE  /\ DOMAIN addParentResourceLabels(m) \subseteq ToSet(Kinds)
           /\ \A k \in DOMAIN addParentResourceLabels(m) : \E t : addParentResourceLabels(m)[k] = Text(t)
<1> DEFINE os == ownersFrom(m)
           us == m.owners
<1>1. /\ DOMAIN Named(os) = KindsOf(os) /\ \A k \in KindsOf(os) : Named(os)[k] = Text(LastOf(os, k).name)
      /\ DOMAIN Uids(us) = KindsOf(us) /\ \A k \in KindsOf(us) : Uids(us)[k] = Text(LastOf(us, k).uid)
  BY DEF Named, Uids
<1>2. KindsOf(os) \subseteq ToSet(Kinds) /\ KindsOf(us) \subseteq ToSet(Kinds)
  BY DEF KindsOf
<1> HIDE DEF os, us
<1>3. CASE server.uids
  <2>1. addParentResourceLabels(m) = Uids(us) ++ Named(os)
    BY <1>3, ParentLabelsDef DEF us, os
  <2>2. PICK f, g, r : f = Uids(us) /\ g = Named(os) /\ r = f ++ g
    OBVIOUS
  <2>3. /\ DOMAIN r = DOMAIN f \cup DOMAIN g
        /\ \A x \in DOMAIN f : r[x] = f[x]
        /\ \A x \in DOMAIN g : x \notin DOMAIN f => r[x] = g[x]
    BY <2>2 DEF ++
  <2>4. addParentResourceLabels(m) = r
    BY <2>1, <2>2
  <2>5. \A k \in DOMAIN r : \E t : r[k] = Text(t)
    BY <1>1, <2>2, <2>3
  <2>6. DOMAIN r \subseteq ToSet(Kinds)
    BY <1>1, <1>2, <2>2, <2>3
  <2> QED BY <2>4, <2>5, <2>6
<1>4. CASE ~server.uids
  <2>1. addParentResourceLabels(m) = Named(os)
    BY <1>4, ParentLabelsDef DEF us, os
  <2> QED BY <1>1, <1>2, <2>1
<1> QED BY <1>3, <1>4

LEMMA KindsShape ==
    /\ Len(Kinds) = 6 /\ DOMAIN Kinds = 1..6
    /\ Kinds[1] = "deployment" /\ Kinds[2] = "replicaset" /\ Kinds[3] = "statefulset"
    /\ Kinds[4] = "daemonset" /\ Kinds[5] = "cronjob" /\ Kinds[6] = "job"
    /\ \A i \in 1..6 : i = 1 \/ i = 2 \/ i = 3 \/ i = 4 \/ i = 5 \/ i = 6
    /\ ToSet(Kinds) = {Kinds[i] : i \in 1..6}
<1>1. Len(Kinds) = 6 /\ DOMAIN Kinds = 1..6
  BY DEF Kinds
<1>2. \A i \in 1..6 : i = 1 \/ i = 2 \/ i = 3 \/ i = 4 \/ i = 5 \/ i = 6
  OBVIOUS
<1>3. ToSet(Kinds) = {Kinds[i] : i \in 1..6}
  BY <1>1 DEF ToSet
<1>4. /\ Kinds[1] = "deployment" /\ Kinds[2] = "replicaset" /\ Kinds[3] = "statefulset"
      /\ Kinds[4] = "daemonset" /\ Kinds[5] = "cronjob" /\ Kinds[6] = "job"
  BY DEF Kinds
<1> QED BY <1>1, <1>2, <1>3, <1>4

LEMMA LastOfKind ==
    ASSUME NEW os, IsSeq(os), NEW j \in DOMAIN os, NEW k, os[j].kind = k,
           \A n \in DOMAIN os : os[n].kind = k => n = j
    PROVE  LastOf(os, k) = os[j]
<1>1. PICK I : I = {n \in 1..Len(os) : os[n].kind = k}
  OBVIOUS
<1>2. LastOf(os, k) = os[IF I # {} THEN Max(I) ELSE 0]
  BY <1>1 DEF LastOf, SelectLastInSeq
<1>3. Len(os) \in Nat /\ DOMAIN os = 1..Len(os)
  BY SeqShape
<1>4. I = {j}
  BY <1>1, <1>3
<1>5. I \in SUBSET (1..Len(os)) /\ I # {}
  BY <1>3, <1>4
<1>6. Max(I) \in I
  BY <1>3, <1>5, MaxOfPositions
<1>7. Max(I) = j
  BY <1>4, <1>6
<1> QED BY <1>2, <1>5, <1>7

(* the values of f refer to fields                                         *)
RefsAreFields(f) == \A x \in DOMAIN f : ToSet(f[x].refs) \subseteq RefNames

LEMMA MergeRefs ==
    ASSUME NEW f, NEW g, RefsAreFields(f), RefsAreFields(g)
    PROVE  RefsAreFields(f ++ g)
<1>1. PICK r : r = f ++ g
  OBVIOUS
<1>2. \A x \in DOMAIN r : (x \in DOMAIN f /\ r[x] = f[x]) \/ (x \in DOMAIN g /\ r[x] = g[x])
  BY <1>1 DEF ++
<1>3. RefsAreFields(r)
  BY <1>2 DEF RefsAreFields
<1> QED BY <1>1, <1>3

LEMMA RefShape ==
    ASSUME NEW v \in RefNames
    PROVE  ToSet(Ref(v).refs) \subseteq RefNames
<1>1. Ref(v).refs = <<v>>
  BY DEF Ref, Value
<1>2. ToSet(<<v>>) = {v}
  BY DEF ToSet
<1> QED BY <1>1, <1>2

LEMMA TextsRefs ==
    ASSUME NEW f, \A x \in DOMAIN f : f[x] \in Texts
    PROVE  RefsAreFields(f)
<1> SUFFICES ASSUME NEW x \in DOMAIN f PROVE ToSet(f[x].refs) = {}
  BY DEF RefsAreFields
<1>1. PICK t \in Texts : t = f[x]
  OBVIOUS
<1>2. ToSet(t.refs) = {}
  BY <1>1, TextsShape
<1> QED BY <1>1, <1>2

LEMMA ParentLabelsRefs ==
    ASSUME NEW m, server.uids \in BOOLEAN
    PROVE  RefsAreFields(addParentResourceLabels(m))
<1> SUFFICES ASSUME NEW k \in DOMAIN addParentResourceLabels(m)
             PROVE  ToSet(addParentResourceLabels(m)[k].refs) = {}
  BY DEF RefsAreFields
<1>1. PICK t : addParentResourceLabels(m)[k] = Text(t)
  BY ParentLabelsShape
<1> QED BY <1>1, TextShape

(* what chooseServiceName takes when there is no name of the user          *)
FirstValue(attrs) ==
    LET i == SelectInSeq(Kinds, LAMBDA k : k \in DOMAIN attrs /\ attrs[k] # Text(<<>>))
    IN IF i = 0 THEN Ref("POD_NAME") ELSE attrs[Kinds[i]]

LEMMA ChooseServiceNameDef ==
    ASSUME NEW m, NEW attrs
    PROVE  chooseServiceName(m, attrs) =
             chooseLabelOrAnnotation(m, server.labels, "service.name", <<"instance", "name">>, FirstValue(attrs))
BY DEF chooseServiceName, FirstValue

(* attrs has no value for the kinds before the i-th                        *)
NoneBefore(attrs, i) ==
    \A j \in 1..6 : j < i /\ Kinds[j] \in DOMAIN attrs => attrs[Kinds[j]] = Text(<<>>)

(* the name is that of the pod, or of the first kind that has one          *)
LEMMA FirstValueCases ==
    ASSUME NEW attrs
    PROVE  \/ FirstValue(attrs) = Ref("POD_NAME") /\ NoneBefore(attrs, 7)
           \/ \E i \in 1..6 : /\ Kinds[i] \in DOMAIN attrs
                              /\ FirstValue(attrs) = attrs[Kinds[i]]
                              /\ attrs[Kinds[i]] # Text(<<>>)
                              /\ NoneBefore(attrs, i)
<1>1. PICK I : I = {j \in 1..Len(Kinds) : Kinds[j] \in DOMAIN attrs /\ attrs[Kinds[j]] # Text(<<>>)}
  OBVIOUS
<1>2. FirstValue(attrs) = LET i == IF I # {} THEN Min(I) ELSE 0
                          IN IF i = 0 THEN Ref("POD_NAME") ELSE attrs[Kinds[i]]
  BY <1>1 DEF FirstValue, SelectInSeq
<1>3. Len(Kinds) = 6
  BY KindsShape
<1>4. CASE I = {}
  <2>1. FirstValue(attrs) = Ref("POD_NAME")
    BY <1>2, <1>4
  <2>2. NoneBefore(attrs, 7)
    BY <1>1, <1>3, <1>4 DEF NoneBefore
  <2> QED BY <2>1, <2>2
<1>5. CASE I # {}
  <2>1. I \in SUBSET Nat
    BY <1>1, <1>3
  <2>2. PICK i : i = Min(I)
    OBVIOUS
  <2>3. i \in I /\ \A j \in I : i <= j
    BY <1>5, <2>1, <2>2, MinOfPositions
  <2>4. i \in 1..6 /\ Kinds[i] \in DOMAIN attrs /\ attrs[Kinds[i]] # Text(<<>>)
    BY <1>1, <1>3, <2>3
  <2>5. FirstValue(attrs) = attrs[Kinds[i]]
    BY <1>2, <1>5, <2>2, <2>4
  <2>6. \A j \in 1..6 : j < i => j \notin I
    BY <2>3, <2>4
  <2>7. NoneBefore(attrs, i)
    BY <1>1, <1>3, <2>6 DEF NoneBefore
  <2> QED BY <2>4, <2>5, <2>7
<1> QED BY <1>4, <1>5

LEMMA FirstValueRefs ==
    ASSUME NEW attrs, RefsAreFields(attrs)
    PROVE  ToSet(FirstValue(attrs).refs) \subseteq RefNames
<1>1. PICK v : v = FirstValue(attrs)
  OBVIOUS
<1>2. v = Ref("POD_NAME") \/ \E x \in DOMAIN attrs : v = attrs[x]
  BY <1>1, FirstValueCases
<1>3. CASE v = Ref("POD_NAME")
  <2>1. "POD_NAME" \in RefNames
    BY DEF RefNames
  <2> QED BY <1>1, <1>3, <2>1, RefShape
<1>4. CASE \E x \in DOMAIN attrs : v = attrs[x]
  BY <1>1, <1>4 DEF RefsAreFields
<1> QED BY <1>2, <1>3, <1>4

LEMMA FirstValueNotEmpty ==
    ASSUME NEW attrs
    PROVE  FirstValue(attrs) # Text(<<>>)
<1>1. Ref("POD_NAME") # Text(<<>>)
  <2>1. Ref("POD_NAME").refs = <<"POD_NAME">> /\ Text(<<>>).refs = <<>>
    BY DEF Ref, Text, Value
  <2>2. Len(<<"POD_NAME">>) = 1 /\ Len(<<>>) = 0
    OBVIOUS
  <2> QED BY <2>1, <2>2
<1>2. PICK e : e = Text(<<>>)
  OBVIOUS
<1> QED BY <1>1, <1>2, FirstValueCases

(* a value of chooseLabelOrAnnotation refers to fields if the other does   *)
LEMMA ChosenRefs ==
    ASSUME NEW m, IsMetadata(m), NEW useLabels \in BOOLEAN, NEW a, NEW labelKeys, IsSeq(labelKeys),
           NEW other, ToSet(other.refs) \subseteq RefNames
    PROVE  ToSet(chooseLabelOrAnnotation(m, useLabels, a, labelKeys, other).refs) \subseteq RefNames
<1>1. /\ \A x \in DOMAIN m.annotations : m.annotations[x] \in Texts
      /\ \A x \in DOMAIN m.labels : m.labels[x] \in Texts
  BY DEF IsMetadata
<1>2. PICK v : v = chooseLabelOrAnnotation(m, useLabels, a, labelKeys, other)
  OBVIOUS
<1>3. v = other \/ v \in Texts
  BY <1>1, <1>2, ChooseLabelOrAnnotation
<1>4. v \in Texts => ToSet(v.refs) = {}
  BY TextsShape
<1> QED BY <1>2, <1>3, <1>4

LEMMA KeysAreSeq == IsSeq(<<"instance", "name">>) /\ IsSeq(<<"version">>) /\ IsSeq(<<>>)
<1>1. \A x, y : <<x, y>> \in Seq({x, y}) /\ <<x>> \in Seq({x}) /\ <<>> \in Seq({x})
  OBVIOUS
<1> QED BY <1>1 DEF IsSeq

LEMMA ServiceVars ==
    ASSUME NEW m, IsMetadata(m), IsServer(server), NEW c, NEW s, s = serviceVars(m, c)
    PROVE  /\ IsSettings(s, ServiceNames, RefNames)
           /\ Len(s) = 3
           /\ s[2] = <<"SERVICE_NAME", chooseServiceName(m, addParentResourceLabels(m) ++ server.attributes)>>
           /\ \A n \in 1..3 : s[n][1] = "SERVICE_NAME" => n = 2
<1>1. PICK x, y, z :
        /\ x = chooseLabelOrAnnotation(m, server.labels, "service.namespace", <<>>, Ref("NAMESPACE"))
        /\ y = chooseServiceName(m, addParentResourceLabels(m) ++ server.attributes)
        /\ z = chooseServiceVersion(m, c)
  OBVIOUS
<1>2. s = << <<"SERVICE_NAMESPACE", x>>, <<"SERVICE_NAME", y>>, <<"SERVICE_VERSION", z>> >>
  BY <1>1 DEF serviceVars
<1>3. /\ Len(s) = 3
      /\ s[1] = <<"SERVICE_NAMESPACE", x>> /\ s[2] = <<"SERVICE_NAME", y>> /\ s[3] = <<"SERVICE_VERSION", z>>
  BY <1>2
<1>4. IsSeq(s)
  <2>1. s \in Seq({s[1], s[2], s[3]})
    BY <1>2
  <2> QED BY <2>1 DEF IsSeq
<1>5. server.uids \in BOOLEAN /\ server.labels \in BOOLEAN
  BY DEF IsServer
<1>6. ToSet(x.refs) \subseteq RefNames
  <2>1. "NAMESPACE" \in RefNames
    BY DEF RefNames
  <2>2. ToSet(Ref("NAMESPACE").refs) \subseteq RefNames
    BY <2>1, RefShape
  <2> QED BY <1>1, <1>5, <2>2, ChosenRefs, KeysAreSeq
<1>7. ToSet(y.refs) \subseteq RefNames
  <2>1. PICK attrs : attrs = addParentResourceLabels(m) ++ server.attributes
    OBVIOUS
  <2>2. RefsAreFields(server.attributes)
    BY TextsRefs DEF IsServer
  <2>3. RefsAreFields(addParentResourceLabels(m))
    BY <1>5, ParentLabelsRefs
  <2>4. PICK f, g : f = addParentResourceLabels(m) /\ g = server.attributes
    OBVIOUS
  <2>5. RefsAreFields(f ++ g)
    BY <2>2, <2>3, <2>4, MergeRefs
  <2>6. RefsAreFields(attrs)
    BY <2>1, <2>4, <2>5
  <2>7. PICK o : o = FirstValue(attrs)
    OBVIOUS
  <2>8. ToSet(o.refs) \subseteq RefNames
    BY <2>6, <2>7, FirstValueRefs
  <2>9. y = chooseLabelOrAnnotation(m, server.labels, "service.name", <<"instance", "name">>, o)
    BY <1>1, <2>1, <2>7, ChooseServiceNameDef
  <2> QED BY <1>5, <2>8, <2>9, ChosenRefs, KeysAreSeq
<1>8. ToSet(z.refs) \subseteq RefNames
  <2>1. PICK t : z = chooseLabelOrAnnotation(m, server.labels, "service.version", <<"version">>, Text(t))
    BY <1>1 DEF chooseServiceVersion
  <2>2. ToSet(Text(t).refs) \subseteq RefNames
    BY TextShape
  <2> QED BY <1>5, <2>1, <2>2, ChosenRefs, KeysAreSeq
<1>9. \A n \in 1..3 : n = 1 \/ n = 2 \/ n = 3
  OBVIOUS
<1>10. \A n \in 1..3 : s[n][1] = "SERVICE_NAME" => n = 2
  BY <1>3, <1>9
<1>11. \A n \in 1..3 : s[n][1] \in ServiceNames
  BY <1>3, <1>9 DEF ServiceNames
<1>12. \A n \in 1..3 : ToSet(s[n][2].refs) \subseteq RefNames
  <2>1. s[1][2] = x /\ s[2][2] = y /\ s[3][2] = z
    BY <1>3
  <2> QED BY <1>6, <1>7, <1>8, <1>9, <2>1
<1> QED BY <1>1, <1>3, <1>4, <1>10, <1>11, <1>12 DEF IsSettings

(* The attributes refer to fields, and the ID of the service is that of    *)
(* the annotation or the one with the name of the container.               *)
LEMMA ExtraResAttrs ==
    ASSUME NEW m, IsMetadata(m), IsServer(server), NEW c, NEW A, A = extraResAttrs(m, c),
           NEW id, id = "service.instance.id"
    PROVE  /\ RefsAreFields(A)
           /\ id \in DOMAIN A
           /\ id \in DOMAIN m.annotations => A[id] \in Texts /\ A[id] = m.annotations[id]
           /\ id \notin DOMAIN m.annotations => A[id] = Value(<<"NAMESPACE", "POD_NAME">>, <<c.name>>)
<1>0. server.uids \in BOOLEAN /\ RefsAreFields(server.attributes)
  BY TextsRefs DEF IsServer
<1>a. \A x \in DOMAIN m.annotations : m.annotations[x] \in Texts
  BY DEF IsMetadata
<1>1. PICK other : other = Value(<<"NAMESPACE", "POD_NAME">>, <<c.name>>)
  OBVIOUS
<1>2. createServiceInstanceId(m, c) = chooseLabelOrAnnotation(m, FALSE, id, <<>>, other)
  BY <1>1 DEF createServiceInstanceId
<1>3. id \notin DOMAIN m.annotations => createServiceInstanceId(m, c) = other
  BY <1>2, ChooseLabelOrAnnotation, KeysAreSeq DEF IsMetadata
<1>4. ToSet(createServiceInstanceId(m, c).refs) \subseteq RefNames
  <2>1. other.refs = <<"NAMESPACE", "POD_NAME">>
    BY <1>1 DEF Value
  <2>2. ToSet(<<"NAMESPACE", "POD_NAME">>) = {"NAMESPACE", "POD_NAME"}
    <3>1. DOMAIN <<"NAMESPACE", "POD_NAME">> = {1, 2}
      OBVIOUS
    <3> QED BY <3>1 DEF ToSet
  <2>3. ToSet(other.refs) \subseteq RefNames
    BY <2>1, <2>2 DEF RefNames
  <2> QED BY <1>2, <2>3, ChosenRefs, KeysAreSeq
<1>5. PICK f1, f2, f3, f4, f5, f6 :
        /\ f1 = [a \in IF server.spanMetrics THEN {"skip"} ELSE {} |-> Text(<<"true">>)]
        /\ f2 = m.annotations
        /\ f3 = [a \in {id} |-> createServiceInstanceId(m, c)]
        /\ f4 = [a \in {"node"} |-> Ref("NODE_NAME")]
        /\ f5 = addParentResourceLabels(m)
        /\ f6 = server.attributes
  OBVIOUS
<1>6. A = f1 ++ f2 ++ f3 ++ f4 ++ f5 ++ f6
  BY <1>5 DEF extraResAttrs
<1>7. PICK r2, r3, r4, r5 : r2 = f1 ++ f2 /\ r3 = r2 ++ f3 /\ r4 = r3 ++ f4 /\ r5 = r4 ++ f5
  OBVIOUS
<1>8. A = r5 ++ f6
  BY <1>6, <1>7
<1>9. RefsAreFields(f1)
  <2>1. \A x \in DOMAIN f1 : f1[x] = Text(<<"true">>)
    BY <1>5
  <2> QED BY <2>1, TextShape DEF RefsAreFields
<1>10. RefsAreFields(f2)
  BY <1>5, <1>a, TextsRefs
<1>11. RefsAreFields(f3)
  BY <1>4, <1>5 DEF RefsAreFields
<1>12. RefsAreFields(f4)
  <2>1. \A x \in DOMAIN f4 : f4[x] = Ref("NODE_NAME")
    BY <1>5
  <2>2. "NODE_NAME" \in RefNames
    BY DEF RefNames
  <2> QED BY <2>1, <2>2, RefShape DEF RefsAreFields
<1>13. RefsAreFields(f5) /\ RefsAreFields(f6)
  BY <1>0, <1>5, ParentLabelsRefs
<1>14. RefsAreFields(r2)
  BY <1>7, <1>9, <1>10, MergeRefs
<1>15. RefsAreFields(r3)
  BY <1>7, <1>11, <1>14, MergeRefs
<1>16. RefsAreFields(r4)
  BY <1>7, <1>12, <1>15, MergeRefs
<1>17. RefsAreFields(r5)
  BY <1>7, <1>13, <1>16, MergeRefs
<1>18. RefsAreFields(A)
  BY <1>8, <1>13, <1>17, MergeRefs
<1>19. id \notin DOMAIN f1
  BY <1>5
<1>20. /\ id \in DOMAIN f2 => id \in DOMAIN r2 /\ r2[id] = f2[id]
       /\ id \notin DOMAIN f2 => id \notin DOMAIN r2
  BY <1>7, <1>19 DEF ++
<1>21. id \in DOMAIN f3 /\ f3[id] = createServiceInstanceId(m, c)
  BY <1>5
<1>22. /\ id \in DOMAIN r3
       /\ id \in DOMAIN f2 => r3[id] = f2[id]
       /\ id \notin DOMAIN f2 => r3[id] = f3[id]
  BY <1>7, <1>20, <1>21 DEF ++
<1>23. id \in DOMAIN r4 /\ r4[id] = r3[id]
  BY <1>7, <1>22 DEF ++
<1>24. id \in DOMAIN r5 /\ r5[id] = r4[id]
  BY <1>7, <1>23 DEF ++
<1>25. id \in DOMAIN A /\ A[id] = r5[id]
  BY <1>8, <1>24 DEF ++
<1>26. id \in DOMAIN m.annotations => A[id] \in Texts /\ A[id] = m.annotations[id]
  BY <1>a, <1>5, <1>22, <1>23, <1>24, <1>25
<1>27. id \notin DOMAIN m.annotations => A[id] = other
  BY <1>3, <1>5, <1>21, <1>22, <1>23, <1>24, <1>25
<1> QED BY <1>1, <1>18, <1>25, <1>26, <1>27

LEMMA TextInjective ==
    ASSUME NEW t, NEW u, Text(t) = Text(u)
    PROVE  t = u
<1>1. Text(t).text = t /\ Text(u).text = u
  BY TextShape
<1> QED BY <1>1

(* The names that a server configures for owners.                          *)
Configured(s) == {s.attributes[k] : k \in DOMAIN s.attributes \cap ToSet(Kinds)}

(* The first kind of owner gives the service its name, unless a server     *)
(* configures one.                                                         *)
LEMMA NameOfKind ==
    ASSUME NEW s, NEW L, NEW attrs, attrs = L ++ s.attributes, NEW w, w # <<>>,
           NEW n \in 1..6, Kinds[n] \in DOMAIN L, L[Kinds[n]] = Text(w),
           \A j \in 1..6 : j < n => Kinds[j] \notin DOMAIN L
    PROVE  FirstValue(attrs) = Text(w) \/ FirstValue(attrs) \in Configured(s)
<1>1. PICK S : S = s.attributes
  OBVIOUS
<1>2. /\ DOMAIN attrs = DOMAIN L \cup DOMAIN S
      /\ \A x \in DOMAIN L : attrs[x] = L[x]
      /\ \A x \in DOMAIN S : x \notin DOMAIN L => attrs[x] = S[x]
  BY <1>1 DEF ++
<1>3. PICK v, e, x : v = FirstValue(attrs) /\ e = Text(<<>>) /\ x = Text(w)
  OBVIOUS
<1>4. Kinds[n] \in DOMAIN attrs /\ attrs[Kinds[n]] = x /\ x # e
  BY <1>2, <1>3, TextInjective
<1>5. ~NoneBefore(attrs, 7)
  <2>1. n < 7
    OBVIOUS
  <2> QED BY <1>3, <1>4, <2>1 DEF NoneBefore
<1>6. PICK i \in 1..6 : Kinds[i] \in DOMAIN attrs /\ v = attrs[Kinds[i]] /\ NoneBefore(attrs, i)
  BY <1>3, <1>5, FirstValueCases
<1>7. ~(n < i)
  BY <1>3, <1>4, <1>6 DEF NoneBefore
<1>8. CASE i = n
  BY <1>3, <1>4, <1>6, <1>8
<1>9. CASE i < n
  <2>1. Kinds[i] \in DOMAIN S /\ v = S[Kinds[i]]
    BY <1>2, <1>6, <1>9
  <2>2. Kinds[i] \in ToSet(Kinds)
    BY KindsShape
  <2> QED BY <1>1, <1>3, <2>1, <2>2 DEF Configured
<1> QED BY <1>7, <1>8, <1>9

(* Without such owners it is the name of the pod.                          *)
LEMMA NameOfPod ==
    ASSUME NEW s, NEW L, NEW attrs, attrs = L ++ s.attributes, DOMAIN L = {}
    PROVE  FirstValue(attrs) = Ref("POD_NAME") \/ FirstValue(attrs) \in Configured(s)
<1>1. PICK S : S = s.attributes
  OBVIOUS
<1>2. /\ DOMAIN attrs = DOMAIN S
      /\ \A x \in DOMAIN S : attrs[x] = S[x]
  BY <1>1 DEF ++
<1>3. PICK v, r : v = FirstValue(attrs) /\ r = Ref("POD_NAME")
  OBVIOUS
<1>4. v = r \/ \E i \in 1..6 : Kinds[i] \in DOMAIN attrs /\ v = attrs[Kinds[i]]
  BY <1>3, FirstValueCases
<1>5. ASSUME NEW i \in 1..6, Kinds[i] \in DOMAIN attrs, v = attrs[Kinds[i]]
      PROVE  v \in Configured(s)
  <2>1. Kinds[i] \in ToSet(Kinds)
    BY KindsShape
  <2> QED BY <1>1, <1>2, <1>5, <2>1 DEF Configured
<1> QED BY <1>3, <1>4, <1>5

(* i is the place of the owner with an attribute                           *)
IsOwner(m, i) ==
    /\ i \in DOMAIN m.owners
    /\ m.owners[i].kind \in ToSet(Kinds)
    /\ \A j \in DOMAIN m.owners : j # i => m.owners[j].kind \notin ToSet(Kinds)

LEMMA ParentShape ==
    ASSUME NEW o, hasParent(o)
    PROVE  /\ o.kind \in ToSet(Kinds) /\ parentKind(o) \in ToSet(Kinds) /\ parentKind(o) # o.kind
           /\ \E n \in 1..6 : /\ Kinds[n] = parentKind(o)
                              /\ \A j \in 1..6 : j < n => Kinds[j] # parentKind(o) /\ Kinds[j] # o.kind
<1>1. CASE o.kind = "job"
  <2>1. parentKind(o) = "cronjob"
    BY <1>1 DEF parentKind
  <2>2. Kinds[5] = parentKind(o) /\ Kinds[6] = o.kind
    BY <1>1, <2>1, KindsShape
  <2>3. \A j \in 1..6 : j < 5 => j = 1 \/ j = 2 \/ j = 3 \/ j = 4
    OBVIOUS
  <2>4. \A j \in 1..6 : j < 5 => Kinds[j] # parentKind(o) /\ Kinds[j] # o.kind
    BY <1>1, <2>1, <2>3, KindsShape
  <2>5. o.kind \in ToSet(Kinds) /\ parentKind(o) \in ToSet(Kinds)
    BY <2>2, KindsShape
  <2>6. 5 \in 1..6
    OBVIOUS
  <2> QED BY <1>1, <2>1, <2>2, <2>4, <2>5, <2>6
<1>2. CASE o.kind = "replicaset"
  <2>1. parentKind(o) = "deployment"
    BY <1>2 DEF parentKind
  <2>2. Kinds[1] = parentKind(o) /\ Kinds[2] = o.kind
    BY <1>2, <2>1, KindsShape
  <2>3. \A j \in 1..6 : ~(j < 1)
    OBVIOUS
  <2>5. o.kind \in ToSet(Kinds) /\ parentKind(o) \in ToSet(Kinds)
    BY <2>2, KindsShape
  <2>6. 1 \in 1..6
    OBVIOUS
  <2> QED BY <1>2, <2>1, <2>2, <2>3, <2>5, <2>6
<1> QED BY <1>1, <1>2 DEF hasParent

LEMMA OnlyAttributed ==
    ASSUME NEW m, NEW i \in DOMAIN m.owners, attributed(m) = {i}
    PROVE  IsOwner(m, i)
BY DEF attributed, IsOwner

LEMMA KindsOfOwners ==
    ASSUME NEW m, NEW i, IsOwner(m, i)
    PROVE  KindsOf(m.owners) = {m.owners[i].kind}
<1>1. ToSet(m.owners) = {m.owners[j] : j \in DOMAIN m.owners}
  BY DEF ToSet
<1> QED BY <1>1 DEF KindsOf, IsOwner

(* The owners when none is taken for that of a workload.                   *)
LEMMA OwnersAsTheyAre ==
    ASSUME NEW m, IsSeq(m.owners), m.owners # <<>>, \A o \in ToSet(m.owners) : ~hasParent(o)
    PROVE  ownersFrom(m) = m.owners
<1>1. PICK I : I = {j \in 1..Len(m.owners) : hasParent(m.owners[j])}
  OBVIOUS
<1>2. SelectInSeq(m.owners, hasParent) = IF I # {} THEN Min(I) ELSE 0
  BY <1>1 DEF SelectInSeq
<1>3. I = {}
  BY <1>1, SeqShape DEF ToSet
<1>4. SelectInSeq(m.owners, hasParent) = 0
  BY <1>2, <1>3
<1> QED BY <1>4 DEF ownersFrom

(* The owners when one is.                                                 *)
LEMMA OwnersWithParent ==
    ASSUME NEW m, IsSeq(m.owners), NEW i, IsOwner(m, i), hasParent(m.owners[i]),
           NEW os, os = ownersFrom(m), NEW k, k = parentKind(m.owners[i])
    PROVE  /\ KindsOf(os) = {m.owners[i].kind, k}
           /\ LastOf(os, k).name = Front(m.owners[i].name)
<1>0. Len(m.owners) \in Nat /\ DOMAIN m.owners = 1..Len(m.owners) /\ i \in 1..Len(m.owners)
  BY SeqShape DEF IsOwner
<1>1. PICK I : I = {j \in 1..Len(m.owners) : hasParent(m.owners[j])}
  OBVIOUS
<1>2. SelectInSeq(m.owners, hasParent) = IF I # {} THEN Min(I) ELSE 0
  BY <1>1 DEF SelectInSeq
<1>3. I = {i}
  <2>1. \A j \in 1..Len(m.owners) : hasParent(m.owners[j]) => m.owners[j].kind \in ToSet(Kinds)
    BY ParentShape
  <2> QED BY <1>0, <1>1, <2>1 DEF IsOwner
<1>4. SelectInSeq(m.owners, hasParent) = i /\ i # 0
  <2>1. I \in SUBSET Nat /\ I # {}
    BY <1>0, <1>3
  <2>2. Min(I) \in I
    BY <2>1, MinOfPositions
  <2> QED BY <1>0, <1>2, <1>3, <2>1, <2>2
<1>5. m.owners # <<>>
  BY <1>0
<1>6. PICK new : new = [kind |-> k, name |-> Front(m.owners[i].name)]
  OBVIOUS
<1>7. new.kind = k /\ new.name = Front(m.owners[i].name)
  BY <1>6
<1>8. PICK sub : sub = SubSeq(m.owners, 1, i)
  OBVIOUS
<1>9. os = Append(sub, new)
  BY <1>4, <1>5, <1>6, <1>8 DEF ownersFrom
<1>10. IsSeq(sub) /\ Len(sub) = i /\ \A j \in 1..i : sub[j] = m.owners[j]
  <2>1. PICK S : m.owners \in Seq(S)
    BY DEF IsSeq
  <2>2. sub \in Seq(S) /\ Len(sub) = i /\ \A j \in 1..i : sub[j] = m.owners[j]
    <3>1. 1 \in 1..Len(m.owners) + 1 /\ i \in 0..Len(m.owners) /\ 1 <= i
      BY <1>0
    <3> QED BY <1>8, <2>1, <3>1, SubSeqProperties
  <2> QED BY <2>2 DEF IsSeq
<1>11. IsSeq(os) /\ Len(os) = i + 1 /\ os[i + 1] = new /\ \A j \in 1..i : os[j] = m.owners[j]
  BY <1>9, <1>10, AppendShape
<1>12. DOMAIN os = 1..i + 1
  BY <1>11, SeqShape
<1>13. \A j \in 1..i + 1 : j = i + 1 \/ j = i \/ (j \in DOMAIN m.owners /\ j # i /\ j \in 1..i)
  BY <1>0
<1>14. i \in 1..i /\ i \in 1..i + 1 /\ i + 1 \in 1..i + 1 /\ i # i + 1
  BY <1>0
<1>15. os[i].kind = m.owners[i].kind /\ os[i + 1].kind = k /\ k # m.owners[i].kind /\ k \in ToSet(Kinds)
  BY <1>7, <1>11, <1>14, ParentShape
<1>16. \A j \in DOMAIN os : j = i + 1 \/ j = i \/ os[j].kind \notin ToSet(Kinds)
  BY <1>11, <1>12, <1>13 DEF IsOwner
<1>17. KindsOf(os) = {m.owners[i].kind, k}
  <2>1. ToSet(os) = {os[j] : j \in DOMAIN os}
    BY DEF ToSet
  <2>2. m.owners[i].kind \in ToSet(Kinds)
    BY DEF IsOwner
  <2>3. \A x : x \in KindsOf(os) <=> x \in ToSet(Kinds) /\ \E j \in DOMAIN os : x = os[j].kind
    BY <2>1 DEF KindsOf
  <2>4. \A x : x \in KindsOf(os) => x = m.owners[i].kind \/ x = k
    BY <1>15, <1>16, <2>3
  <2>5. m.owners[i].kind \in KindsOf(os) /\ k \in KindsOf(os)
    BY <1>12, <1>14, <1>15, <2>2, <2>3
  <2> QED BY <2>4, <2>5
<1>18. LastOf(os, k) = os[i + 1]
  <2>1. \A j \in DOMAIN os : os[j].kind = k => j = i + 1
    BY <1>15, <1>16
  <2>2. i + 1 \in DOMAIN os
    BY <1>12, <1>14
  <2> QED BY <1>11, <1>15, <2>1, <2>2, LastOfKind
<1> QED BY <1>7, <1>11, <1>17, <1>18

(* no user names the service                                               *)
Unnamed(m) == "service.name" \notin DOMAIN m.annotations /\ DOMAIN m.labels = {}

(* what ServiceNameIsWorkload says of y, the name of the service           *)
NameIs(y, s, m) ==
    \/ y \in Configured(s)
    \/ attributed(m) = {} /\ y = Ref("POD_NAME")
    \/ \E i \in attributed(m) :
          \/ attributed(m) # {i}
          \/ s.uids /\ ~hasParent(m.owners[i])
          \/ hasParent(m.owners[i]) /\ m.owners[i].name = m.workload
          \/ y = Text(m.workload)

LEMMA NoKinds ==
    ASSUME NEW m, IsSeq(m.owners), attributed(m) = {}, server.uids \in BOOLEAN
    PROVE  DOMAIN addParentResourceLabels(m) = {}
<1>1. PICK os : os = ownersFrom(m)
  OBVIOUS
<1>2. \A i \in DOMAIN m.owners : m.owners[i].kind \notin ToSet(Kinds)
  BY DEF attributed
<1>3. KindsOf(m.owners) = {}
  <2>1. ToSet(m.owners) = {m.owners[j] : j \in DOMAIN m.owners}
    BY DEF ToSet
  <2> QED BY <1>2, <2>1 DEF KindsOf
<1>4. KindsOf(os) = {}
  <2>1. CASE m.owners = <<>>
    <3>1. PICK o : o = [kind |-> "pod", name |-> m.name]
      OBVIOUS
    <3>2. os = <<o>>
      BY <1>1, <2>1, <3>1 DEF ownersFrom
    <3>3. ToSet(os) = {o}
      BY <3>2 DEF ToSet
    <3>4. o.kind \notin ToSet(Kinds)
      <4>1. o.kind = "pod"
        BY <3>1
      <4>2. \A j \in 1..6 : Kinds[j] # "pod"
        BY KindsShape
      <4> QED BY <4>1, <4>2, KindsShape
    <3> QED BY <3>3, <3>4 DEF KindsOf
  <2>2. CASE m.owners # <<>>
    <3>1. \A o \in ToSet(m.owners) : ~hasParent(o)
      BY <1>2, ParentShape DEF ToSet
    <3>2. os = m.owners
      BY <1>1, <2>2, <3>1, OwnersAsTheyAre
    <3> QED BY <1>3, <3>2
  <2> QED BY <2>1, <2>2
<1>5. DOMAIN Named(os) = {} /\ DOMAIN Uids(m.owners) = {}
  BY <1>3, <1>4 DEF Named, Uids
<1>6. PICK f, g : f = Uids(m.owners) /\ g = Named(os)
  OBVIOUS
<1>7. DOMAIN (f ++ g) = {}
  BY <1>5, <1>6 DEF ++
<1> QED BY <1>1, <1>5, <1>6, <1>7, ParentLabelsDef

(* the owner, or its guessed parent, is the first kind with an attribute   *)
LEMMA LabelOfWorkload ==
    ASSUME NEW m, IsMetadata(m), server.uids \in BOOLEAN, NEW i, IsOwner(m, i),
           hasParent(m.owners[i]) \/ ~server.uids,
           ~(hasParent(m.owners[i]) /\ m.owners[i].name = m.workload),
           NEW L, L = addParentResourceLabels(m)
    PROVE  \E n \in 1..6 : /\ Kinds[n] \in DOMAIN L /\ L[Kinds[n]] = Text(m.workload)
                           /\ \A j \in 1..6 : j < n => Kinds[j] \notin DOMAIN L
<1>1. IsSeq(m.owners)
  BY DEF IsMetadata, IsSeq
<1>2. m.workload = m.owners[i].name \/ (hasParent(m.owners[i]) /\ m.workload = Front(m.owners[i].name))
  <2>1. i \in DOMAIN m.owners /\ attributed(m) = {i}
    BY DEF IsOwner, attributed
  <2> QED BY <2>1 DEF IsMetadata
<1>3. i \in DOMAIN m.owners /\ m.owners[i] \in ToSet(m.owners)
  BY DEF IsOwner, ToSet
<1>4. PICK os : os = ownersFrom(m)
  OBVIOUS
<1>7. DOMAIN Named(os) = KindsOf(os) /\ \A k \in KindsOf(os) : Named(os)[k] = Text(LastOf(os, k).name)
  BY DEF Named
<1>8. DOMAIN Uids(m.owners) = {m.owners[i].kind}
  BY KindsOfOwners DEF Uids
<1>10. CASE hasParent(m.owners[i])
  <2>1. m.workload = Front(m.owners[i].name)
    BY <1>2, <1>10
  <2>2. PICK k : k = parentKind(m.owners[i])
    OBVIOUS
  <2>3. KindsOf(os) = {m.owners[i].kind, k} /\ LastOf(os, k).name = m.workload
    BY <1>1, <1>4, <1>10, <2>1, <2>2, OwnersWithParent
  <2>4. PICK n \in 1..6 : Kinds[n] = k /\ \A j \in 1..6 : j < n => Kinds[j] # k /\ Kinds[j] # m.owners[i].kind
    BY <1>10, <2>2, ParentShape
  <2>5. k # m.owners[i].kind
    BY <1>10, <2>2, ParentShape
  <2>6. DOMAIN L = {m.owners[i].kind, k} /\ L[k] = Text(m.workload)
    <3>1. DOMAIN Named(os) = {m.owners[i].kind, k} /\ Named(os)[k] = Text(m.workload)
      BY <1>7, <2>3
    <3>2. CASE server.uids
      <4>1. L = Uids(m.owners) ++ Named(os)
        BY <1>4, <3>2, ParentLabelsDef
      <4>2. PICK f, g : f = Uids(m.owners) /\ g = Named(os)
        OBVIOUS
      <4>3. L = f ++ g /\ DOMAIN f = {m.owners[i].kind} /\ DOMAIN g = {m.owners[i].kind, k} /\ g[k] = Text(m.workload)
        BY <1>8, <3>1, <4>1, <4>2
      <4>4. k \in DOMAIN g /\ k \notin DOMAIN f /\ DOMAIN f \cup DOMAIN g = {m.owners[i].kind, k}
        BY <2>5, <4>3
      <4>5. DOMAIN L = DOMAIN f \cup DOMAIN g /\ \A x \in DOMAIN L : L[x] = IF x \in DOMAIN f THEN f[x] ELSE g[x]
        BY <4>3 DEF ++
      <4>6. L[k] = g[k]
        BY <4>4, <4>5
      <4> QED BY <4>3, <4>4, <4>5, <4>6
    <3>3. CASE ~server.uids
      <4>1. L = Named(os)
        BY <1>4, <3>3, ParentLabelsDef
      <4> QED BY <3>1, <4>1
    <3> QED BY <3>2, <3>3
  <2>7. Kinds[n] \in DOMAIN L /\ L[Kinds[n]] = Text(m.workload)
    BY <2>4, <2>6
  <2>8. \A j \in 1..6 : j < n => Kinds[j] \notin DOMAIN L
    BY <2>4, <2>6
  <2> QED BY <2>7, <2>8
<1>11. CASE ~hasParent(m.owners[i])
  <2>1. m.workload = m.owners[i].name
    BY <1>2, <1>11
  <2>2. os = m.owners
    <3>1. \A o \in ToSet(m.owners) : ~hasParent(o)
      BY <1>11, ParentShape DEF IsOwner, ToSet
    <3>2. m.owners # <<>>
      BY <1>3
    <3> QED BY <1>1, <1>4, <3>1, <3>2, OwnersAsTheyAre
  <2>3. L = Named(os)
    BY <1>4, <1>11, ParentLabelsDef
  <2>4. PICK k : k = m.owners[i].kind
    OBVIOUS
  <2>5. LastOf(os, k) = m.owners[i]
    <3>1. i \in DOMAIN os /\ os[i].kind = k /\ \A n \in DOMAIN os : os[n].kind = k => n = i
      BY <2>2, <2>4 DEF IsOwner
    <3> QED BY <1>1, <2>2, <3>1, LastOfKind
  <2>6. KindsOf(os) = {k}
    BY <2>2, <2>4, KindsOfOwners
  <2>7. DOMAIN L = {k} /\ L[k] = Text(m.workload)
    BY <1>7, <2>1, <2>3, <2>5, <2>6
  <2>8. PICK n \in 1..6 : Kinds[n] = k
    BY <2>4, KindsShape DEF IsOwner
  <2>9. \A j \in 1..6 : j < n => Kinds[j] # k
    <3>1. /\ Kinds[1] = "deployment" /\ Kinds[2] = "replicaset" /\ Kinds[3] = "statefulset"
          /\ Kinds[4] = "daemonset" /\ Kinds[5] = "cronjob" /\ Kinds[6] = "job"
          /\ \A j \in 1..6 : j = 1 \/ j = 2 \/ j = 3 \/ j = 4 \/ j = 5 \/ j = 6
      BY KindsShape
    <3>2. \A j \in 1..6 : Kinds[j] = Kinds[n] => j = n
      BY <3>1
    <3> QED BY <2>8, <3>2
  <2>10. Kinds[n] \in DOMAIN L /\ L[Kinds[n]] = Text(m.workload)
    BY <2>7, <2>8
  <2>11. \A j \in 1..6 : j < n => Kinds[j] \notin DOMAIN L
    BY <2>7, <2>9
  <2> QED BY <2>10, <2>11
<1> QED BY <1>10, <1>11

LEMMA ServiceNameOf ==
    ASSUME NEW m, IsMetadata(m), IsServer(server), Unnamed(m),
           NEW y, y = chooseServiceName(m, addParentResourceLabels(m) ++ server.attributes)
    PROVE  y # Text(<<>>) /\ NameIs(y, server, m)
<1>1. server.uids \in BOOLEAN /\ server.labels \in BOOLEAN
  BY DEF IsServer
<1>2. PICK L, attrs, e : L = addParentResourceLabels(m) /\ attrs = L ++ server.attributes /\ e = Text(<<>>)
  OBVIOUS
<1>3. y = FirstValue(attrs)
  <2>1. PICK o : o = FirstValue(attrs)
    OBVIOUS
  <2>2. y = chooseLabelOrAnnotation(m, server.labels, "service.name", <<"instance", "name">>, o)
    BY <1>2, <2>1, ChooseServiceNameDef
  <2>3. chooseLabelOrAnnotation(m, server.labels, "service.name", <<"instance", "name">>, o) = o
    BY <1>1, ChooseLabelOrAnnotation, KeysAreSeq DEF IsMetadata, Unnamed
  <2> QED BY <2>1, <2>2, <2>3
<1>4. y # e
  BY <1>2, <1>3, FirstValueNotEmpty
<1>5. CASE attributed(m) = {}
  <2>1. IsSeq(m.owners)
    BY DEF IsMetadata, IsSeq
  <2>2. DOMAIN L = {}
    BY <1>1, <1>2, <1>5, <2>1, NoKinds
  <2>3. y = Ref("POD_NAME") \/ y \in Configured(server)
    BY <1>2, <1>3, <2>2, NameOfPod
  <2>4. NameIs(y, server, m)
    BY <1>5, <2>3 DEF NameIs
  <2> QED BY <1>2, <1>4, <2>4
<1>6. CASE attributed(m) # {}
  <2>1. PICK i : i \in attributed(m)
    BY <1>6
  <2>2. ASSUME attributed(m) = {i}, hasParent(m.owners[i]) \/ ~server.uids,
               ~(hasParent(m.owners[i]) /\ m.owners[i].name = m.workload)
        PROVE  y \in Configured(server) \/ y = Text(m.workload)
    <3>1. IsOwner(m, i)
      <4>1. i \in DOMAIN m.owners
        BY <2>1 DEF attributed
      <4> QED BY <2>2, <4>1, OnlyAttributed
    <3>2. PICK n \in 1..6 : /\ Kinds[n] \in DOMAIN L /\ L[Kinds[n]] = Text(m.workload)
                            /\ \A j \in 1..6 : j < n => Kinds[j] \notin DOMAIN L
      BY <1>1, <1>2, <2>2, <3>1, LabelOfWorkload
    <3>3. PICK w : w = m.workload
      OBVIOUS
    <3>4. w # <<>>
      BY <3>3 DEF IsMetadata
    <3>5. FirstValue(attrs) = Text(w) \/ FirstValue(attrs) \in Configured(server)
      BY <1>2, <3>2, <3>3, <3>4, NameOfKind
    <3> QED BY <1>3, <3>3, <3>5
  <2>3. NameIs(y, server, m)
    BY <1>1, <2>1, <2>2 DEF NameIs
  <2> QED BY <1>2, <1>4, <2>3
<1> QED BY <1>5, <1>6

-----------------------------------------------------------------------------
(* addEnvVars.                                                             *)

LEMMA VarsUnion ==
    ASSUME NEW V, NEW M, NEW W, NEW N, NEW R, Vars(V, M, R), Vars(W, N, R)
    PROVE  Vars(V \cup W, M \cup N, R)
BY DEF Vars

LEMMA VarsMore ==
    ASSUME NEW V, NEW M, NEW N, NEW R, NEW Q, Vars(V, M, R), M \subseteq N, R \subseteq Q
    PROVE  Vars(V, N, Q)
BY DEF Vars

LEMMA OnlyKept ==
    ASSUME NEW a, IsSeq(a), NEW b, NEW W, NEW N, NEW R, Ext(a, b, W), Vars(W, N, R), NEW v, v \notin N
    PROVE  /\ AtMostOne(a, v) => AtMostOne(b, v)
           /\ \A e : Only(a, v, e) => Only(b, v, e)
<1>1. \A w \in W : w.name # v
  BY DEF Vars
<1> QED BY <1>1, ExtKeeps

LEMMA JoinedKeeps ==
    ASSUME NEW d, IsSeq(d), NEW fv, IsFields(fv), NEW e, Joined(d, fv, e), NEW v, v \notin FieldNames
    PROVE  /\ AtMostOne(d, v) => AtMostOne(e, v)
           /\ \A x : Only(d, v, x) => Only(e, v, x)
<1>1. \A k \in DOMAIN fv : fv[k].name # v
  BY FieldsShape
<1>2. /\ \A i \in DOMAIN d : i \in DOMAIN e /\ e[i] = d[i]
      /\ \A k \in DOMAIN fv : Len(d) + k \in DOMAIN e /\ e[Len(d) + k] = fv[k]
      /\ \A i \in DOMAIN e : i \in DOMAIN d \/ \E k \in DOMAIN fv : i = Len(d) + k
  BY DEF Joined
<1>3. \A i \in DOMAIN e : e[i].name = v => i \in DOMAIN d /\ e[i] = d[i]
  BY <1>1, <1>2
<1>4. AtMostOne(d, v) => AtMostOne(e, v)
  BY <1>3 DEF AtMostOne
<1>5. \A x : Only(d, v, x) => Only(e, v, x)
  BY <1>2, <1>3 DEF Only
<1> QED BY <1>4, <1>5

LEMMA OnlyHas ==
    ASSUME NEW env, IsSeq(env), NEW v, NEW e, Only(env, v, e)
    PROVE  Has(env, v)
BY FindEnvVar DEF Only

(* the variables before the fields                                         *)
FirstVars(user, c) == setEnvVar(setEnvVars(user, injectorVars), "CONTAINER_NAME", Text(<<c.name>>))

LEMMA FirstStage ==
    ASSUME NEW user, IsSeq(user), \A v : AtMostOne(user, v), NEW c, NEW e, e = FirstVars(user, c)
    PROVE  /\ \E W : Ext(user, e, W) /\ Vars(W, FirstNames, {})
           /\ Only(e, "SDK_PKG_VERSION", Var("SDK_PKG_VERSION", Text(<<server.ver>>)))
           /\ Has(e, "LD_PRELOAD")
           /\ Has(e, "INJECTOR_CONFIG_FILE")
<1>1. PICK s, d : s = injectorVars /\ d = setEnvVars(user, s)
  OBVIOUS
<1>2. /\ IsSettings(s, FirstNames, {}) /\ Len(s) = 7
      /\ s[1] = <<"SDK_PKG_VERSION", Text(<<server.ver>>)>>
      /\ s[2] = <<"LD_PRELOAD", Text(<<"injector">>)>>
      /\ s[3] = <<"INJECTOR_CONFIG_FILE", Text(<<"injector">>)>>
      /\ \A n \in 1..7 : /\ s[n][1] = "SDK_PKG_VERSION" => n = 1
                         /\ s[n][1] = "LD_PRELOAD" => n = 2
                         /\ s[n][1] = "INJECTOR_CONFIG_FILE" => n = 3
  <2>1. IsInjectorVars(s)
    BY <1>1, InjectorVars
  <2> QED BY <2>1 DEF IsInjectorVars
<1>a. IsSeq(s)
  BY <1>2 DEF IsSettings
<1>3. PICK W : W = {Var(s[n][1], s[n][2]) : n \in 1..Len(s)}
  OBVIOUS
<1>4. /\ Ext(user, d, W)
      /\ \A j \in 1..Len(s) :
            /\ AtMostOne(user, s[j][1])
            /\ s[j][2] # Text(<<>>)
            /\ \A i \in 1..Len(s) : s[i][1] = s[j][1] => i = j
            => Only(d, s[j][1], Var(s[j][1], s[j][2]))
  BY <1>1, <1>a, <1>3, SetEnvVars
<1>5. Vars(W, FirstNames, {})
  BY <1>2, <1>3, SettingsVars
<1>6. \A t : Text(<<t>>) # Text(<<>>)
  <2>1. \A t : <<t>> # <<>>
    OBVIOUS
  <2> QED BY <2>1, TextInjective
<1>7. Only(d, s[1][1], Var(s[1][1], s[1][2]))
  <2>1. 1 \in 1..7 /\ s[1][2] # Text(<<>>) /\ \A i \in 1..7 : s[i][1] = s[1][1] => i = 1
    BY <1>2, <1>6
  <2> QED BY <1>2, <1>4, <2>1
<1>8. Only(d, s[2][1], Var(s[2][1], s[2][2]))
  <2>1. 2 \in 1..7 /\ s[2][2] # Text(<<>>) /\ \A i \in 1..7 : s[i][1] = s[2][1] => i = 2
    BY <1>2, <1>6
  <2> QED BY <1>2, <1>4, <2>1
<1>9. Only(d, s[3][1], Var(s[3][1], s[3][2]))
  <2>1. 3 \in 1..7 /\ s[3][2] # Text(<<>>) /\ \A i \in 1..7 : s[i][1] = s[3][1] => i = 3
    BY <1>2, <1>6
  <2> QED BY <1>2, <1>4, <2>1
<1>10. IsSeq(d)
  BY <1>4 DEF Ext
<1>11. PICK w : w = Var("CONTAINER_NAME", Text(<<c.name>>))
  OBVIOUS
<1>12. e = setEnvVar(d, "CONTAINER_NAME", Text(<<c.name>>))
  BY <1>1 DEF FirstVars
<1>13. Ext(d, e, {w})
  BY <1>10, <1>11, <1>12, SetEnvVar
<1>14. Vars({w}, FirstNames, {}) /\ Vars({w}, {"CONTAINER_NAME"}, {})
  <2>1. w.name = "CONTAINER_NAME" /\ w.field = "" /\ RefsOf(w) = {}
    BY <1>11, VarShape, TextShape
  <2> QED BY <2>1 DEF Vars, FirstNames
<1>15. Ext(user, e, W \cup {w})
  BY <1>4, <1>13, ExtTrans
<1>16. Vars(W \cup {w}, FirstNames, {})
  BY <1>5, <1>14 DEF Vars
<1>17. \A v, x : v # "CONTAINER_NAME" /\ Only(d, v, x) => Only(e, v, x)
  <2> TAKE v, x
  <2> HAVE v # "CONTAINER_NAME" /\ Only(d, v, x)
  <2>1. PICK V : V = {w}
    OBVIOUS
  <2>2. Ext(d, e, V) /\ \A y \in V : y.name # v
    BY <1>13, <1>14, <2>1 DEF Vars
  <2>3. Only(d, v, x) => Only(e, v, x)
    BY <1>10, <2>2, ExtKeeps
  <2> QED BY <2>3
<1>18. IsSeq(e)
  BY <1>13 DEF Ext
<1>19. Only(e, "SDK_PKG_VERSION", Var("SDK_PKG_VERSION", Text(<<server.ver>>)))
  <2>1. s[1][1] = "SDK_PKG_VERSION" /\ s[1][2] = Text(<<server.ver>>)
    BY <1>2
  <2> QED BY <1>7, <1>17, <2>1
<1>20. Has(e, "LD_PRELOAD")
  <2>1. s[2][1] = "LD_PRELOAD"
    BY <1>2
  <2>2. Only(e, "LD_PRELOAD", Var(s[2][1], s[2][2]))
    BY <1>8, <1>17, <2>1
  <2> QED BY <1>18, <2>2, OnlyHas
<1>21. Has(e, "INJECTOR_CONFIG_FILE")
  <2>1. s[3][1] = "INJECTOR_CONFIG_FILE"
    BY <1>2
  <2>2. Only(e, "INJECTOR_CONFIG_FILE", Var(s[3][1], s[3][2]))
    BY <1>9, <1>17, <2>1
  <2> QED BY <1>18, <2>2, OnlyHas
<1> QED BY <1>15, <1>16, <1>19, <1>20, <1>21

(* the variable with the list of the attributes                            *)
AttrsVar(m, c) == [Var("RESOURCE_ATTRIBUTES", Text(<<"list">>)) EXCEPT !.attrs = extraResAttrs(m, c)]

LEMMA AttrsVarShape ==
    ASSUME NEW m, IsMetadata(m), IsServer(server), NEW c, NEW e, e = AttrsVar(m, c)
    PROVE  /\ e.name = "RESOURCE_ATTRIBUTES" /\ e.field = "" /\ RefsOf(e) \subseteq RefNames
           /\ e.attrs = extraResAttrs(m, c)
<1>1. /\ e.name = "RESOURCE_ATTRIBUTES" /\ e.field = "" /\ e.value = Text(<<"list">>)
      /\ e.attrs = extraResAttrs(m, c)
  BY DEF AttrsVar, Var
<1>2. PICK A : A = extraResAttrs(m, c)
  OBVIOUS
<1>3. RefsAreFields(A)
  BY <1>2, ExtraResAttrs
<1>4. ToSet(e.value.refs) = {}
  BY <1>1, TextShape
<1>5. \A x \in DOMAIN e.attrs : ToSet(e.attrs[x].refs) \subseteq RefNames
  BY <1>1, <1>2, <1>3 DEF RefsAreFields
<1>6. RefsOf(e) \subseteq RefNames
  BY <1>4, <1>5 DEF RefsOf
<1> QED BY <1>1, <1>6

LEMMA ServerVars ==
    ASSUME IsServer(server)
    PROVE  /\ IsSettings(server.headers, configuredNames(server), {})
           /\ Vars({Var(lang, Text(<<>>)) : lang \in {server.disabled[n] : n \in 1..Len(server.disabled)}},
                   configuredNames(server), {})
           /\ \A v \in OwnNames : v \notin configuredNames(server)
<1>1. PICK hs, ds : hs = server.headers /\ ds = server.disabled
  OBVIOUS
<1>2. hs \in Seq(STRING \X Texts) /\ ds \in Seq(STRING) /\ configuredNames(server) \cap OwnNames = {}
  BY <1>1 DEF IsServer
<1>3. DOMAIN hs = 1..Len(hs) /\ DOMAIN ds = 1..Len(ds)
  BY <1>2, LenProperties
<1>4. \A n \in 1..Len(hs) : hs[n] \in STRING \X Texts
  BY <1>2, ElementOfSeq
<1>5. configuredNames(server) = {ds[n] : n \in 1..Len(ds)} \cup {hs[n][1] : n \in 1..Len(hs)}
  <2>1. ToSet(ds) = {ds[n] : n \in 1..Len(ds)} /\ ToSet(hs) = {hs[n] : n \in 1..Len(hs)}
    BY <1>3 DEF ToSet
  <2> QED BY <1>1, <2>1 DEF configuredNames
<1>6. \A n \in 1..Len(hs) : hs[n][1] \in configuredNames(server) /\ ToSet(hs[n][2].refs) \subseteq {}
  <2> TAKE n \in 1..Len(hs)
  <2>1. hs[n][2] \in Texts
    BY <1>4
  <2>2. ToSet(hs[n][2].refs) = {}
    BY <2>1, TextsShape
  <2> QED BY <1>5, <2>2
<1>7. IsSeq(hs)
  BY <1>2 DEF IsSeq
<1>8. \A n \in 1..Len(ds) : /\ Var(ds[n], Text(<<>>)).name \in configuredNames(server)
                            /\ Var(ds[n], Text(<<>>)).field = ""
                            /\ RefsOf(Var(ds[n], Text(<<>>))) = {}
  <2> TAKE n \in 1..Len(ds)
  <2>1. ds[n] \in configuredNames(server)
    BY <1>5
  <2>2. PICK v, t : v = ds[n] /\ t = Text(<<>>)
    OBVIOUS
  <2>3. Var(v, t).name = v /\ Var(v, t).field = "" /\ RefsOf(Var(v, t)) = ToSet(t.refs)
    BY VarShape
  <2>4. ToSet(t.refs) = {}
    BY <2>2, TextShape
  <2> QED BY <2>1, <2>2, <2>3, <2>4
<1>9. Vars({Var(lang, Text(<<>>)) : lang \in {ds[n] : n \in 1..Len(ds)}}, configuredNames(server), {})
  BY <1>8 DEF Vars
<1> QED BY <1>1, <1>2, <1>6, <1>7, <1>9 DEF IsSettings

(* the variables after the fields                                          *)
LateVars(env, m, c) ==
    setEnvVars(disableUndesiredSDKs(
                 setVar(setEnvVars(setEnvVars(env, serviceVars(m, c)), exporterVars), AttrsVar(m, c))),
               server.headers)

LEMMA AddEnvVarsDef ==
    ASSUME NEW user, NEW m, NEW c
    PROVE  addEnvVars(user, m, c) = LateVars(FirstVars(user, c) \o fieldVars, m, c)
BY DEF addEnvVars, configureContainerEnvVars, setResourceAttributes, LateVars, FirstVars, AttrsVar

LEMMA LateStage ==
    ASSUME NEW env, IsSeq(env), \A v \in LateNames : AtMostOne(env, v),
           NEW m, IsMetadata(m), IsServer(server), NEW c, NEW e, e = LateVars(env, m, c),
           NEW y, y = chooseServiceName(m, addParentResourceLabels(m) ++ server.attributes)
    PROVE  /\ \E W : Ext(env, e, W) /\ Vars(W, LateNames \cup configuredNames(server), RefNames)
           /\ y # Text(<<>>) => Only(e, "SERVICE_NAME", Var("SERVICE_NAME", y))
           /\ Only(e, "RESOURCE_ATTRIBUTES", AttrsVar(m, c))
<1>1. PICK s1, s2, s5, b1, b2, b3, b4, rv :
        /\ s1 = serviceVars(m, c) /\ s2 = exporterVars /\ s5 = server.headers /\ rv = AttrsVar(m, c)
        /\ b1 = setEnvVars(env, s1) /\ b2 = setEnvVars(b1, s2) /\ b3 = setVar(b2, rv)
        /\ b4 = disableUndesiredSDKs(b3)
  OBVIOUS
<1>2. e = setEnvVars(b4, s5)
  BY <1>1 DEF LateVars
<1>3. PICK N : N = configuredNames(server)
  OBVIOUS
<1>4. PICK W1, W2, W4, W5 :
        /\ W1 = {Var(s1[n][1], s1[n][2]) : n \in 1..Len(s1)}
        /\ W2 = {Var(s2[n][1], s2[n][2]) : n \in 1..Len(s2)}
        /\ W4 = {Var(lang, Text(<<>>)) : lang \in {server.disabled[n] : n \in 1..Len(server.disabled)}}
        /\ W5 = {Var(s5[n][1], s5[n][2]) : n \in 1..Len(s5)}
  OBVIOUS
<1>5. /\ IsSettings(s1, ServiceNames, RefNames) /\ Len(s1) = 3
      /\ s1[2] = <<"SERVICE_NAME", y>>
      /\ \A n \in 1..3 : s1[n][1] = "SERVICE_NAME" => n = 2
  BY <1>1, ServiceVars
<1>6. IsSettings(s2, ExporterNames, {})
  BY <1>1, ExporterVars
<1>7. IsSettings(s5, N, {}) /\ Vars(W4, N, {}) /\ \A v \in OwnNames : v \notin N
  BY <1>1, <1>3, <1>4, ServerVars
<1>8. IsSeq(s1) /\ IsSeq(s2) /\ IsSeq(s5)
  BY <1>5, <1>6, <1>7 DEF IsSettings
<1>9. /\ Ext(env, b1, W1)
      /\ \A j \in 1..Len(s1) :
            /\ AtMostOne(env, s1[j][1])
            /\ s1[j][2] # Text(<<>>)
            /\ \A i \in 1..Len(s1) : s1[i][1] = s1[j][1] => i = j
            => Only(b1, s1[j][1], Var(s1[j][1], s1[j][2]))
  BY <1>1, <1>4, <1>8, SetEnvVars
<1>10. IsSeq(b1)
  BY <1>9 DEF Ext
<1>11. Ext(b1, b2, W2)
  BY <1>1, <1>4, <1>8, <1>10, SetEnvVars
<1>12. IsSeq(b2)
  BY <1>11 DEF Ext
<1>13. Ext(b2, b3, {rv}) /\ (AtMostOne(b2, rv.name) => Only(b3, rv.name, rv))
  BY <1>1, <1>12, SetVar
<1>14. IsSeq(b3)
  BY <1>13 DEF Ext
<1>15. Ext(b3, b4, W4)
  <2>1. server.disabled \in Seq(STRING)
    BY DEF IsServer
  <2> QED BY <1>1, <1>4, <1>14, <2>1, DisableUndesiredSDKs
<1>16. IsSeq(b4)
  BY <1>15 DEF Ext
<1>17. Ext(b4, e, W5)
  BY <1>2, <1>4, <1>8, <1>16, SetEnvVars
<1>18. Vars(W1, ServiceNames, RefNames) /\ Vars(W2, ExporterNames, {}) /\ Vars(W5, N, {})
  BY <1>4, <1>5, <1>6, <1>7, SettingsVars
<1>19. rv.name = "RESOURCE_ATTRIBUTES" /\ rv.field = "" /\ RefsOf(rv) \subseteq RefNames
  BY <1>1, AttrsVarShape
<1>20. Vars({rv}, {"RESOURCE_ATTRIBUTES"}, RefNames)
  BY <1>19 DEF Vars
<1>21. \E W : Ext(env, e, W) /\ Vars(W, LateNames \cup configuredNames(server), RefNames)
  <2>1. Ext(env, b2, W1 \cup W2)
    BY <1>9, <1>11, ExtTrans
  <2>2. Ext(env, b3, (W1 \cup W2) \cup {rv})
    BY <1>13, <2>1, ExtTrans
  <2>3. Ext(env, b4, ((W1 \cup W2) \cup {rv}) \cup W4)
    BY <1>15, <2>2, ExtTrans
  <2>4. Ext(env, e, (((W1 \cup W2) \cup {rv}) \cup W4) \cup W5)
    BY <1>17, <2>3, ExtTrans
  <2>5. PICK L : L = LateNames \cup N
    OBVIOUS
  <2>6. /\ ServiceNames \subseteq L /\ ExporterNames \subseteq L /\ {"RESOURCE_ATTRIBUTES"} \subseteq L /\ N \subseteq L
    BY <2>5 DEF LateNames
  <2>7. Vars(W1, L, RefNames) /\ Vars(W2, L, RefNames) /\ Vars({rv}, L, RefNames) /\ Vars(W4, L, RefNames) /\ Vars(W5, L, RefNames)
    BY <1>7, <1>18, <1>20, <2>6 DEF Vars
  <2>8. Vars((((W1 \cup W2) \cup {rv}) \cup W4) \cup W5, L, RefNames)
    BY <2>7 DEF Vars
  <2> QED BY <1>3, <2>4, <2>5, <2>8
<1>22. "SERVICE_NAME" \notin ExporterNames /\ "SERVICE_NAME" \notin {"RESOURCE_ATTRIBUTES"} /\ "SERVICE_NAME" \notin N
  <2>1. "SERVICE_NAME" \in OwnNames
    BY DEF OwnNames
  <2> QED BY <1>7, <2>1 DEF ExporterNames
<1>23. ASSUME y # Text(<<>>)
       PROVE  Only(e, "SERVICE_NAME", Var("SERVICE_NAME", y))
  <2>1. PICK v, x : v = "SERVICE_NAME" /\ x = Var("SERVICE_NAME", y)
    OBVIOUS
  <2>2. AtMostOne(env, v)
    BY <2>1 DEF LateNames, ServiceNames
  <2>3. s1[2][1] = v /\ s1[2][2] = y /\ Var(s1[2][1], s1[2][2]) = x
    BY <1>5, <2>1
  <2>4. \A i \in 1..3 : s1[i][1] = s1[2][1] => i = 2
    BY <1>5, <2>1, <2>3
  <2>5. 2 \in 1..3
    OBVIOUS
  <2>6. Only(b1, v, x)
    BY <1>5, <1>9, <1>23, <2>2, <2>3, <2>4, <2>5
  <2>7. v \notin ExporterNames /\ v \notin {"RESOURCE_ATTRIBUTES"} /\ v \notin N
    BY <1>22, <2>1
  <2>8. Only(b2, v, x)
    BY <1>10, <1>11, <1>18, <2>6, <2>7, OnlyKept
  <2>9. Only(b3, v, x)
    <3>1. PICK W, M : W = {rv} /\ M = {"RESOURCE_ATTRIBUTES"}
      OBVIOUS
    <3>2. Ext(b2, b3, W) /\ Vars(W, M, RefNames) /\ v \notin M
      BY <1>13, <1>20, <2>7, <3>1
    <3> QED BY <1>12, <2>8, <3>2, OnlyKept
  <2>10. Only(b4, v, x)
    BY <1>7, <1>14, <1>15, <2>7, <2>9, OnlyKept
  <2>11. Only(e, v, x)
    BY <1>16, <1>17, <1>18, <2>7, <2>10, OnlyKept
  <2> QED BY <2>1, <2>11
<1>24. Only(e, "RESOURCE_ATTRIBUTES", AttrsVar(m, c))
  <2>1. PICK v : v = "RESOURCE_ATTRIBUTES"
    OBVIOUS
  <2>2. AtMostOne(env, v) /\ v \notin ServiceNames /\ v \notin ExporterNames
    BY <2>1 DEF LateNames, ServiceNames, ExporterNames
  <2>3. v \notin N
    <3>1. v \in OwnNames
      BY <2>1 DEF OwnNames
    <3> QED BY <1>7, <3>1
  <2>4. AtMostOne(b1, v)
    BY <1>9, <1>18, <2>2, OnlyKept
  <2>5. AtMostOne(b2, v)
    BY <1>10, <1>11, <1>18, <2>2, <2>4, OnlyKept
  <2>6. Only(b3, v, rv)
    BY <1>13, <1>19, <2>1, <2>5
  <2>7. Only(b4, v, rv)
    BY <1>7, <1>14, <1>15, <2>3, <2>6, OnlyKept
  <2>8. Only(e, v, rv)
    BY <1>16, <1>17, <1>18, <2>3, <2>7, OnlyKept
  <2> QED BY <1>1, <2>1, <2>8
<1> QED BY <1>21, <1>23, <1>24

(* the variables that some server sets                                     *)
AllNames == OwnNames \cup UNION {configuredNames(s) : s \in Servers}

InstanceId == "service.instance.id"

(* the ID that a container has in the attributes of e                      *)
HasInstanceId(e, m, name) ==
    /\ InstanceId \in DOMAIN e.attrs
    /\ InstanceId \in DOMAIN m.annotations
         => e.attrs[InstanceId] \in Texts /\ e.attrs[InstanceId] = m.annotations[InstanceId]
    /\ InstanceId \notin DOMAIN m.annotations
         => e.attrs[InstanceId] = Value(<<"NAMESPACE", "POD_NAME">>, <<name>>)

(* env is what a server s makes of the environment of a container of a pod *)
(* with the metadata m                                                     *)
Injected(user, env, s, m, name) ==
    /\ Structure(user, env, AllNames)
    /\ Has(env, "LD_PRELOAD")
    /\ Has(env, "INJECTOR_CONFIG_FILE")
    /\ Only(env, "SDK_PKG_VERSION", Var("SDK_PKG_VERSION", Text(<<s.ver>>)))
    /\ s.uids => Has(env, "POD_UID")
    /\ Unnamed(m) => \E y : Only(env, "SERVICE_NAME", Var("SERVICE_NAME", y)) /\ NameIs(y, s, m)
    /\ \E e : Only(env, "RESOURCE_ATTRIBUTES", e) /\ HasInstanceId(e, m, name)

LEMMA StageNames ==
    /\ FirstNames \subseteq OwnNames /\ LateNames \subseteq OwnNames /\ FieldNames \subseteq OwnNames
    /\ Disjoint(FirstNames, LateNames) /\ Disjoint(FieldNames, LateNames)
    /\ Disjoint(LateNames, FirstNames) /\ Disjoint(LateNames, FieldNames) /\ Disjoint(FirstNames, FieldNames)
<1>1. FirstNames \subseteq OwnNames
  BY DEF FirstNames, OwnNames
<1>2. LateNames \subseteq OwnNames
  BY DEF LateNames, ServiceNames, ExporterNames, OwnNames
<1>3. FieldNames \subseteq OwnNames
  BY DEF FieldNames, OwnNames
<1>4. Disjoint(FirstNames, LateNames)
  BY DEF Disjoint, FirstNames, LateNames, ServiceNames, ExporterNames
<1>5. Disjoint(FieldNames, LateNames)
  BY DEF Disjoint, FieldNames, LateNames, ServiceNames, ExporterNames
<1>6. Disjoint(FirstNames, FieldNames)
  BY DEF Disjoint, FieldNames, FirstNames
<1>7. Disjoint(LateNames, FirstNames) /\ Disjoint(LateNames, FieldNames)
  BY <1>4, <1>5 DEF Disjoint
<1> QED BY <1>1, <1>2, <1>3, <1>4, <1>5, <1>6, <1>7

LEMMA StructureMore ==
    ASSUME NEW user, NEW env, NEW M, NEW N, Structure(user, env, M), M \subseteq N
    PROVE  Structure(user, env, N)
BY DEF Structure

LEMMA AddEnvVars ==
    ASSUME NEW user, IsSeq(user), WellFormed(user), \A v : AtMostOne(user, v),
           NEW m, IsMetadata(m), server \in Servers, NEW c, NEW e, e = addEnvVars(user, m, c)
    PROVE  Injected(user, e, server, m, c.name)
<1>0. IsServer(server) /\ server.uids \in BOOLEAN
  BY InputsAssumption DEF IsServer
<1>1. PICK e1, fv, e2 : e1 = FirstVars(user, c) /\ fv = fieldVars /\ e2 = e1 \o fv
  OBVIOUS
<1>2. e = LateVars(e2, m, c)
  BY <1>1, AddEnvVarsDef
<1>3. /\ \E W : Ext(user, e1, W) /\ Vars(W, FirstNames, {})
      /\ Only(e1, "SDK_PKG_VERSION", Var("SDK_PKG_VERSION", Text(<<server.ver>>)))
      /\ Has(e1, "LD_PRELOAD")
      /\ Has(e1, "INJECTOR_CONFIG_FILE")
  BY <1>1, FirstStage
<1>4. PICK W1 : Ext(user, e1, W1) /\ Vars(W1, FirstNames, {})
  BY <1>3
<1>5. IsSeq(e1)
  BY <1>4 DEF Ext
<1>6. IsFields(fv) /\ (server.uids => fv[4] = FieldVar("POD_UID", "uid") /\ Len(fv) = 4)
  BY <1>0, <1>1, FieldVars
<1>7. IsSeq(fv)
  BY <1>6 DEF IsFields
<1>8. Joined(e1, fv, e2)
  BY <1>1, <1>5, <1>7, JoinedConcat
<1>9. IsSeq(e2)
  BY <1>8 DEF Joined
<1>10. \A v \in LateNames : AtMostOne(e2, v)
  <2> TAKE v \in LateNames
  <2>1. v \notin FirstNames /\ v \notin FieldNames
    BY StageNames DEF Disjoint
  <2>2. AtMostOne(e1, v)
    BY <1>4, <2>1, OnlyKept
  <2> QED BY <1>5, <1>6, <1>8, <2>1, <2>2, JoinedKeeps
<1>11. PICK y : y = chooseServiceName(m, addParentResourceLabels(m) ++ server.attributes)
  OBVIOUS
<1>12. /\ \E W : Ext(e2, e, W) /\ Vars(W, LateNames \cup configuredNames(server), RefNames)
       /\ y # Text(<<>>) => Only(e, "SERVICE_NAME", Var("SERVICE_NAME", y))
       /\ Only(e, "RESOURCE_ATTRIBUTES", AttrsVar(m, c))
  BY <1>0, <1>2, <1>9, <1>10, <1>11, LateStage
<1>13. PICK N : N = LateNames \cup configuredNames(server)
  OBVIOUS
<1>14. PICK W3 : Ext(e2, e, W3) /\ Vars(W3, N, RefNames)
  BY <1>12, <1>13
<1>15. \A v \in OwnNames : v \notin configuredNames(server)
  BY <1>0, ServerVars
<1>16. \A v \in FirstNames \cup FieldNames : v \notin N
  BY <1>13, <1>15, StageNames DEF Disjoint
<1>17. Structure(user, e, AllNames)
  <2>1. Disjoint(FirstNames, N) /\ Disjoint(FieldNames, N)
    BY <1>16 DEF Disjoint
  <2>2. Structure(user, e, FirstNames \cup N)
    BY <1>4, <1>6, <1>8, <1>14, <2>1, StructureLemma
  <2>3. FirstNames \cup N \subseteq AllNames
    BY <1>13, StageNames DEF AllNames
  <2> QED BY <2>2, <2>3, StructureMore
<1>18. IsSeq(e) /\ DOMAIN e2 \subseteq DOMAIN e /\ \A i \in DOMAIN e2 : e[i].name = e2[i].name
  BY <1>9, <1>14, ExtNames
<1>19. \A v : Has(e1, v) => Has(e, v)
  <2> TAKE v
  <2> HAVE Has(e1, v)
  <2>1. PICK i \in DOMAIN e1 : e1[i].name = v
    BY <1>5, FindEnvVar
  <2>2. i \in DOMAIN e2 /\ e2[i].name = v
    BY <1>8, <2>1 DEF Joined
  <2>3. i \in DOMAIN e /\ e[i].name = v
    BY <1>18, <2>2
  <2> QED BY <1>18, <2>3, FindEnvVar
<1>20. Only(e, "SDK_PKG_VERSION", Var("SDK_PKG_VERSION", Text(<<server.ver>>)))
  <2>1. PICK v, x : v = "SDK_PKG_VERSION" /\ x = Var("SDK_PKG_VERSION", Text(<<server.ver>>))
    OBVIOUS
  <2>2. v \in FirstNames
    BY <2>1 DEF FirstNames
  <2>3. v \notin FieldNames /\ v \notin N
    BY <1>16, <2>2, StageNames DEF Disjoint
  <2>4. Only(e1, v, x)
    BY <1>3, <2>1
  <2>5. Only(e2, v, x)
    BY <1>5, <1>6, <1>8, <2>3, <2>4, JoinedKeeps
  <2>6. Only(e, v, x)
    BY <1>9, <1>14, <2>3, <2>5, OnlyKept
  <2> QED BY <2>1, <2>6
<1>21. server.uids => Has(e, "POD_UID")
  <2> SUFFICES ASSUME server.uids PROVE Has(e, "POD_UID")
    OBVIOUS
  <2>1. 4 \in DOMAIN fv /\ fv[4].name = "POD_UID"
    BY <1>6, <1>7, SeqShape, FieldVarShape
  <2>2. PICK i \in DOMAIN e2 : e2[i] = fv[4]
    BY <1>8, <2>1 DEF Joined
  <2>3. i \in DOMAIN e /\ e[i].name = "POD_UID"
    BY <1>18, <2>1, <2>2
  <2> QED BY <1>18, <2>3, FindEnvVar
<1>22. ASSUME Unnamed(m)
       PROVE  Only(e, "SERVICE_NAME", Var("SERVICE_NAME", y)) /\ NameIs(y, server, m)
  BY <1>0, <1>11, <1>12, <1>22, ServiceNameOf
<1>23. \E x : Only(e, "RESOURCE_ATTRIBUTES", x) /\ HasInstanceId(x, m, c.name)
  <2>1. PICK x, A : x = AttrsVar(m, c) /\ A = extraResAttrs(m, c)
    OBVIOUS
  <2>2. x.attrs = A
    BY <1>0, <2>1, AttrsVarShape
  <2>3. PICK id : id = InstanceId
    OBVIOUS
  <2>4. id = "service.instance.id"
    BY <2>3 DEF InstanceId
  <2>5. /\ id \in DOMAIN A
        /\ id \in DOMAIN m.annotations => A[id] \in Texts /\ A[id] = m.annotations[id]
        /\ id \notin DOMAIN m.annotations => A[id] = Value(<<"NAMESPACE", "POD_NAME">>, <<c.name>>)
    BY <1>0, <2>1, <2>4, ExtraResAttrs
  <2>6. HasInstanceId(x, m, c.name)
    BY <2>2, <2>3, <2>5 DEF HasInstanceId
  <2> QED BY <1>12, <2>1, <2>6
<1> QED BY <1>3, <1>17, <1>19, <1>20, <1>21, <1>22, <1>23 DEF Injected

-----------------------------------------------------------------------------
(* The inductive invariant: a container has the environment of its user,   *)
(* or one that a server has injected, whose version the pod tells; the     *)
(* metadata are those of the pod unless its containers were copied.        *)

Labels == {""} \cup {s.ver : s \in Servers} \cup {t.label : t \in Templates}

InjectedBy(c, volume, label, copied, meta) ==
    \E s \in Servers, m \in Metadata :
        /\ Injected(c.user, c.env, s, m, c.name)
        /\ volume = s.ver
        /\ label = "" \/ label = s.ver
        /\ ~copied => m = meta

ContainerInv(pod, c) ==
    /\ IsContainer(c)
    /\ \/ c.env = c.user /\ c.mount = FALSE
       \/ /\ ~Has(c.user, "LD_PRELOAD")
          /\ c.mount = TRUE
          /\ InjectedBy(c, pod.volume, pod.label, pod.copied, pod.meta)

PodInv(pod) ==
    /\ pod = [meta |-> pod.meta, containers |-> pod.containers, label |-> pod.label,
              volume |-> pod.volume, copied |-> pod.copied]
    /\ pod.meta \in Metadata
    /\ pod.label \in Labels
    /\ IsSeq(pod.containers)
    /\ \A j, k \in DOMAIN pod.containers : pod.containers[j].name = pod.containers[k].name => j = k
    /\ \A k \in DOMAIN pod.containers : ContainerInv(pod, pod.containers[k])

InjectInv ==
    /\ server \in Servers
    /\ upgrades \in 0..MaxUpgrades
    /\ pods = [p \in PodIDs |-> pods[p]]
    /\ \A p \in Pods : PodInv(pods[p])

LEMMA MetadataShape ==
    ASSUME NEW m \in Metadata
    PROVE  IsMetadata(m)
BY InputsAssumption DEF Metadata

LEMMA UserShape ==
    ASSUME NEW c, IsContainer(c)
    PROVE  IsSeq(c.user) /\ WellFormed(c.user) /\ \A v : AtMostOne(c.user, v)
<1>1. c.user \in Seq(UserVars) /\ \A i, j \in DOMAIN c.user : c.user[i].name = c.user[j].name => i = j
  BY DEF IsContainer
<1>2. IsSeq(c.user)
  BY <1>1 DEF IsSeq
<1>3. \A i \in DOMAIN c.user : c.user[i] \in UserVars
  BY <1>1, LenProperties, ElementOfSeq
<1>4. WellFormed(c.user)
  BY <1>3 DEF WellFormed, UserVars
<1>5. \A v : AtMostOne(c.user, v)
  BY <1>1 DEF AtMostOne
<1> QED BY <1>2, <1>4, <1>5

LEMMA TemplateInv ==
    ASSUME NEW t \in Templates
    PROVE  PodInv(t)
<1>1. IsPod(t)
  BY InputsAssumption
<1>2. t = [meta |-> t.meta, containers |-> t.containers, label |-> t.label,
           volume |-> t.volume, copied |-> t.copied]
  BY <1>1 DEF IsPod
<1>3. t.meta \in Metadata /\ t.label \in Labels
  BY DEF Metadata, Labels
<1>4. IsSeq(t.containers)
  BY <1>1 DEF IsPod, IsSeq
<1>5. \A j, k \in DOMAIN t.containers : t.containers[j].name = t.containers[k].name => j = k
  BY <1>1 DEF IsPod
<1>6. \A k \in DOMAIN t.containers : ContainerInv(t, t.containers[k])
  <2> TAKE k \in DOMAIN t.containers
  <2>1. t.containers[k] \in ToSet(t.containers)
    BY DEF ToSet
  <2>2. IsContainer(t.containers[k]) /\ t.containers[k].env = t.containers[k].user /\ t.containers[k].mount = FALSE
    BY <1>1, <2>1 DEF IsPod
  <2> QED BY <2>2 DEF ContainerInv
<1> QED BY <1>2, <1>3, <1>4, <1>5, <1>6 DEF PodInv

(* instrumentContainer makes the environment of an injected container.     *)
LEMMA InstrumentContainer ==
    ASSUME NEW c, IsContainer(c), c.env = c.user, c.mount = FALSE, NEW m \in Metadata, server \in Servers,
           NEW r, r = instrumentContainer(c, m)
    PROVE  /\ IsContainer(r)
           /\ r.name = c.name
           /\ \/ r.env = r.user /\ r.mount = FALSE
              \/ /\ ~Has(r.user, "LD_PRELOAD")
                 /\ r.mount = TRUE
                 /\ Injected(r.user, r.env, server, m, r.name)
<1>1. CASE Has(c.env, "LD_PRELOAD")
  <2>1. r = c
    BY <1>1 DEF instrumentContainer
  <2> QED BY <2>1
<1>2. CASE ~Has(c.env, "LD_PRELOAD")
  <2>1. PICK env : env = addEnvVars(c.user, m, c)
    OBVIOUS
  <2>2. r = [c EXCEPT !.mount = TRUE, !.env = env]
    BY <1>2, <2>1 DEF instrumentContainer
  <2>3. c = [name |-> c.name, image |-> c.image, user |-> c.user, env |-> c.env, mount |-> c.mount]
    BY DEF IsContainer
  <2>4. r = [name |-> c.name, image |-> c.image, user |-> c.user, env |-> env, mount |-> TRUE]
    BY <2>2, <2>3
  <2>5. r.name = c.name /\ r.user = c.user /\ r.env = env /\ r.mount = TRUE /\ r.image = c.image
    BY <2>4
  <2>6. IsContainer(r)
    <3>1. c.user \in Seq(UserVars) /\ \A i, j \in DOMAIN c.user : c.user[i].name = c.user[j].name => i = j
      BY DEF IsContainer
    <3>2. r.user \in Seq(UserVars) /\ \A i, j \in DOMAIN r.user : r.user[i].name = r.user[j].name => i = j
      BY <2>5, <3>1
    <3>3. r = [name |-> r.name, image |-> r.image, user |-> r.user, env |-> r.env, mount |-> r.mount]
      BY <2>4, <2>5
    <3> QED BY <3>2, <3>3 DEF IsContainer
  <2>7. IsSeq(c.user) /\ WellFormed(c.user) /\ \A v : AtMostOne(c.user, v)
    BY UserShape
  <2>8. Injected(c.user, env, server, m, c.name)
    BY <2>1, <2>7, MetadataShape, AddEnvVars
  <2> QED BY <1>2, <2>5, <2>6, <2>8
<1> QED BY <1>1, <1>2

LEMMA MutatePod ==
    ASSUME NEW pod, PodInv(pod), server \in Servers
    PROVE  PodInv(mutatePod(pod))
<1>1. PICK cs : cs = [k \in DOMAIN pod.containers |-> instrumentContainer(pod.containers[k], pod.meta)]
  OBVIOUS
<1>2. PICK new : new = [pod EXCEPT !.volume = server.ver, !.containers = cs]
  OBVIOUS
<1>3. CASE alreadyInstrumented(pod) \/ ~matchesSelection(pod.meta) \/ new = pod
  <2>1. mutatePod(pod) = pod
    BY <1>1, <1>2, <1>3 DEF mutatePod
  <2> QED BY <2>1
<1>4. CASE ~alreadyInstrumented(pod) /\ ~(~matchesSelection(pod.meta) \/ new = pod)
  <2>1. PICK r : r = [new EXCEPT !.label = server.ver]
    OBVIOUS
  <2>2. mutatePod(pod) = r
    BY <1>1, <1>2, <1>4, <2>1 DEF mutatePod
  <2>3. pod = [meta |-> pod.meta, containers |-> pod.containers, label |-> pod.label,
               volume |-> pod.volume, copied |-> pod.copied]
    BY DEF PodInv
  <2>4. new = [meta |-> pod.meta, containers |-> cs, label |-> pod.label, volume |-> server.ver,
               copied |-> pod.copied]
    BY <1>2, <2>3
  <2>5. r = [meta |-> pod.meta, containers |-> cs, label |-> server.ver, volume |-> server.ver,
             copied |-> pod.copied]
    BY <2>1, <2>4
  <2>6. r.meta = pod.meta /\ r.containers = cs /\ r.label = server.ver /\ r.volume = server.ver /\ r.copied = pod.copied
    BY <2>5
  <2>7. IsSeq(pod.containers) /\ pod.meta \in Metadata
    BY DEF PodInv
  <2>8. Len(pod.containers) \in Nat /\ DOMAIN pod.containers = 1..Len(pod.containers)
    BY <2>7, SeqShape
  <2>9. IsSeq(cs) /\ DOMAIN cs = DOMAIN pod.containers
    <3>1. cs = [i \in 1..Len(pod.containers) |-> cs[i]]
      BY <1>1, <2>8
    <3> QED BY <1>1, <2>8, <3>1, FunctionIsSeq
  <2>10. ASSUME NEW k \in DOMAIN pod.containers, NEW c, c = pod.containers[k], NEW d, d = cs[k]
         PROVE  d.name = c.name /\ ContainerInv(r, d)
    <3>1. ~Has(c.env, "INJECTOR_CONFIG_FILE")
      BY <1>4, <2>10 DEF alreadyInstrumented
    <3>2. ContainerInv(pod, c)
      BY <2>10 DEF PodInv
    <3>3. ~InjectedBy(c, pod.volume, pod.label, pod.copied, pod.meta)
      BY <3>1 DEF InjectedBy, Injected
    <3>4. IsContainer(c) /\ c.env = c.user /\ c.mount = FALSE
      BY <3>2, <3>3 DEF ContainerInv
    <3>5. d = instrumentContainer(c, pod.meta)
      BY <1>1, <2>10
    <3>6. /\ IsContainer(d)
          /\ d.name = c.name
          /\ \/ d.env = d.user /\ d.mount = FALSE
             \/ /\ ~Has(d.user, "LD_PRELOAD")
                /\ d.mount = TRUE
                /\ Injected(d.user, d.env, server, pod.meta, d.name)
      BY <2>7, <3>4, <3>5, InstrumentContainer
    <3>7. ASSUME Injected(d.user, d.env, server, pod.meta, d.name)
          PROVE  InjectedBy(d, r.volume, r.label, r.copied, r.meta)
      BY <2>6, <2>7, <3>7 DEF InjectedBy
    <3> QED BY <3>6, <3>7 DEF ContainerInv
  <2>11. \A k \in DOMAIN cs : cs[k].name = pod.containers[k].name /\ ContainerInv(r, cs[k])
    BY <2>9, <2>10
  <2>12. \A j, k \in DOMAIN cs : cs[j].name = cs[k].name => j = k
    BY <2>9, <2>11 DEF PodInv
  <2>13. r.label \in Labels
    BY <2>6 DEF Labels
  <2>14. r = [meta |-> r.meta, containers |-> r.containers, label |-> r.label,
              volume |-> r.volume, copied |-> r.copied]
    BY <2>5, <2>6
  <2>15. PodInv(r)
    BY <2>6, <2>7, <2>9, <2>11, <2>12, <2>13, <2>14 DEF PodInv
  <2> QED BY <2>2, <2>15
<1> QED BY <1>3, <1>4

Single(t, x) == IsSeq(t) /\ Len(t) = 1 /\ t[1] = x

(* r is s with x at the end                                                *)
OneMore(s, x, r) ==
    /\ IsSeq(r)
    /\ \A i \in DOMAIN s : r[i] = s[i]
    /\ \E n \in DOMAIN r : r[n] = x /\ \A i \in DOMAIN r : i \in DOMAIN s \/ i = n

LEMMA ConcatOne ==
    ASSUME NEW s, IsSeq(s), NEW x, NEW t, Single(t, x)
    PROVE  OneMore(s, x, s \o t)
<1>1. PICK r : r = s \o t
  OBVIOUS
<1>2. Len(t) = 1 /\ t[1] = x
  BY DEF Single
<1>3. IsSeq(t)
  BY DEF Single
<1>5. /\ IsSeq(r)
      /\ Len(r) = Len(s) + Len(t)
      /\ \A i \in 1..Len(s) : r[i] = s[i]
      /\ \A i \in 1..Len(t) : r[Len(s) + i] = t[i]
  BY <1>1, <1>3, ConcatShape
<1>6. Len(s) \in Nat /\ DOMAIN s = 1..Len(s) /\ DOMAIN r = 1..Len(r)
  BY <1>5, SeqShape
<1>7. r[Len(s) + 1] = x /\ Len(s) + 1 \in DOMAIN r
  BY <1>2, <1>5, <1>6
<1>8. \A i \in DOMAIN r : i \in DOMAIN s \/ i = Len(s) + 1
  BY <1>2, <1>5, <1>6
<1>9. OneMore(s, x, r)
  BY <1>5, <1>6, <1>7, <1>8 DEF OneMore
<1> QED BY <1>1, <1>9

LEMMA SidecarShape ==
    IsContainer(sidecar) /\ sidecar.env = sidecar.user /\ sidecar.mount = FALSE /\ sidecar.name = "sidecar"
<1>1. /\ sidecar.name = "sidecar" /\ sidecar.user = <<>> /\ sidecar.env = <<>> /\ sidecar.mount = FALSE
      /\ sidecar = [name |-> sidecar.name, image |-> sidecar.image, user |-> sidecar.user,
                    env |-> sidecar.env, mount |-> sidecar.mount]
  BY DEF sidecar
<1>2. <<>> \in Seq(UserVars) /\ DOMAIN <<>> = {}
  OBVIOUS
<1> QED BY <1>1, <1>2 DEF IsContainer

(* the containers that SubmitCopy adds                                     *)
MayBeAdded(more, pod) ==
    /\ more = <<>> \/ more = <<sidecar>>
    /\ more # <<>> => \A k \in DOMAIN pod.containers : pod.containers[k].name # "sidecar"

(* the pod that SubmitCopy makes                                           *)
CopyOf(pod, t, keep, more, r) ==
    r = [meta |-> t.meta, containers |-> pod.containers \o more,
         label |-> IF keep THEN pod.label ELSE "", volume |-> pod.volume, copied |-> TRUE]

(* A copy of the containers of another pod, with one more or not.          *)
LEMMA CopyInv ==
    ASSUME NEW pod, PodInv(pod), NEW t \in Templates, NEW keep \in BOOLEAN,
           NEW more, MayBeAdded(more, pod),
           NEW r, CopyOf(pod, t, keep, more, r)
    PROVE  PodInv(r)
<1>1. PICK old, cs : old = pod.containers /\ cs = old \o more
  OBVIOUS
<1>2. /\ r.meta = t.meta /\ r.containers = cs /\ r.label = (IF keep THEN pod.label ELSE "")
      /\ r.volume = pod.volume /\ r.copied = TRUE
  BY <1>1 DEF CopyOf
<1>3. r.meta \in Metadata
  BY <1>2 DEF Metadata
<1>4. r.label \in Labels /\ (r.label = pod.label \/ r.label = "")
  <2>1. pod.label \in Labels /\ "" \in Labels
    BY DEF PodInv, Labels
  <2> QED BY <1>2, <2>1
<1>5. IsSeq(old) /\ \A j, k \in DOMAIN old : old[j].name = old[k].name => j = k
  BY <1>1 DEF PodInv
<1>6. ASSUME NEW c, ContainerInv(pod, c)
      PROVE  ContainerInv(r, c)
  <2>1. CASE c.env = c.user /\ c.mount = FALSE
    BY <1>6, <2>1 DEF ContainerInv
  <2>2. CASE ~(c.env = c.user /\ c.mount = FALSE)
    <3>1. /\ IsContainer(c) /\ ~Has(c.user, "LD_PRELOAD") /\ c.mount = TRUE
          /\ InjectedBy(c, pod.volume, pod.label, pod.copied, pod.meta)
      BY <1>6, <2>2 DEF ContainerInv
    <3>2. InjectedBy(c, r.volume, r.label, r.copied, r.meta)
      BY <1>2, <1>4, <3>1 DEF InjectedBy
    <3> QED BY <3>1, <3>2 DEF ContainerInv
  <2> QED BY <2>1, <2>2
<1>7. \A k \in DOMAIN old : ContainerInv(r, old[k])
  BY <1>1, <1>6 DEF PodInv
<1>9. /\ IsSeq(cs)
      /\ \A j, k \in DOMAIN cs : cs[j].name = cs[k].name => j = k
      /\ \A k \in DOMAIN cs : ContainerInv(r, cs[k])
  <2>1. CASE more = <<>>
    <3>1. PICK S : old \in Seq(S)
      BY <1>5 DEF IsSeq
    <3>2. old \o <<>> = old
      BY <3>1, ConcatEmptySeq
    <3>3. cs = old
      BY <1>1, <2>1, <3>2
    <3> QED BY <1>5, <1>7, <3>3
  <2>2. CASE more = <<sidecar>>
    <3>1. more # <<>>
      BY <2>2
    <3>2. \A k \in DOMAIN old : old[k].name # "sidecar"
      BY <1>1, <3>1 DEF MayBeAdded
    <3>3. Single(more, sidecar)
      <4>1. <<sidecar>> \in Seq({sidecar}) /\ Len(<<sidecar>>) = 1 /\ <<sidecar>>[1] = sidecar
        OBVIOUS
      <4> QED BY <2>2, <4>1 DEF IsSeq, Single
    <3>a. cs = old \o more
      BY <1>1
    <3>b. IsSeq(old)
      BY <1>5
    <3>4. /\ IsSeq(cs)
          /\ \A i \in DOMAIN old : cs[i] = old[i]
          /\ \E n \in DOMAIN cs : cs[n] = sidecar /\ \A i \in DOMAIN cs : i \in DOMAIN old \/ i = n
      <4>1. OneMore(old, sidecar, old \o more)
        BY <3>b, <3>3, ConcatOne
      <4>2. OneMore(old, sidecar, cs)
        BY <3>a, <4>1
      <4> QED BY <4>2 DEF OneMore
    <3>5. PICK n \in DOMAIN cs : cs[n] = sidecar /\ \A i \in DOMAIN cs : i \in DOMAIN old \/ i = n
      BY <3>4
    <3>8. sidecar.name = "sidecar" /\ ContainerInv(r, sidecar)
      BY SidecarShape DEF ContainerInv
    <3>9. \A k \in DOMAIN cs : ContainerInv(r, cs[k])
      BY <1>7, <3>4, <3>5, <3>8
    <3>10. \A k \in DOMAIN old : cs[k].name = old[k].name /\ cs[k].name # "sidecar"
      BY <3>2, <3>4
    <3>11. cs[n].name = "sidecar"
      BY <3>5, <3>8
    <3>12. \A j, k \in DOMAIN cs : cs[j].name = cs[k].name => j = k
      BY <1>5, <3>5, <3>10, <3>11
    <3> QED BY <3>4, <3>9, <3>12
  <2> QED BY <2>1, <2>2 DEF MayBeAdded
<1>10. r = [meta |-> r.meta, containers |-> r.containers, label |-> r.label,
            volume |-> r.volume, copied |-> r.copied]
  BY DEF CopyOf
<1> QED BY <1>2, <1>3, <1>4, <1>9, <1>10 DEF PodInv

LEMMA InjectInitInv == InjectInit => InjectInv
<1> SUFFICES ASSUME InjectInit PROVE InjectInv
  OBVIOUS
<1>1. pods = [p \in PodIDs |-> NoPod] /\ server \in Servers /\ upgrades = 0
  BY DEF InjectInit
<1>2. pods = [p \in PodIDs |-> pods[p]] /\ \A p \in PodIDs : pods[p] = NoPod
  BY <1>1
<1>3. upgrades \in 0..MaxUpgrades
  BY <1>1, InputsAssumption
<1> QED BY <1>1, <1>2, <1>3 DEF InjectInv, Pods

(* a pod is submitted                                                      *)
LEMMA PodAdded ==
    ASSUME InjectInv, NEW p \in PodIDs, NEW x, PodInv(x), pods' = [pods EXCEPT ![p] = x],
           UNCHANGED <<server, upgrades>>
    PROVE  InjectInv'
<1>1. pods = [q \in PodIDs |-> pods[q]] /\ server \in Servers /\ upgrades \in 0..MaxUpgrades
  BY DEF InjectInv
<1>2. pods'[p] = x /\ \A q \in PodIDs : q # p => pods'[q] = pods[q]
  BY <1>1
<1>3. pods' = [q \in PodIDs |-> pods'[q]]
  BY <1>1
<1>4. \A q \in PodIDs : pods'[q] # NoPod => PodInv(pods'[q])
  <2> TAKE q \in PodIDs
  <2> HAVE pods'[q] # NoPod
  <2>1. CASE q = p
    BY <1>2, <2>1
  <2>2. CASE q # p
    <3>1. pods'[q] = pods[q] /\ q \in Pods
      BY <1>2, <2>2 DEF Pods
    <3> QED BY <3>1 DEF InjectInv
  <2> QED BY <2>1, <2>2
<1>5. server' \in Servers /\ upgrades' \in 0..MaxUpgrades
  BY <1>1
<1> QED BY <1>3, <1>4, <1>5 DEF InjectInv, Pods

LEMMA InjectNextInv == InjectInv /\ [InjectNext]_injectVars => InjectInv'
<1> SUFFICES ASSUME InjectInv, [InjectNext]_injectVars PROVE InjectInv'
  OBVIOUS
<1>0. server \in Servers
  BY DEF InjectInv
<1>1. ASSUME NEW p \in PodIDs, NEW t \in Templates, Submit(p, t)
      PROVE  InjectInv'
  <2>1. PICK x : x = mutatePod(t)
    OBVIOUS
  <2>2. PodInv(x)
    BY <1>0, <2>1, TemplateInv, MutatePod
  <2>3. pods' = [pods EXCEPT ![p] = x] /\ UNCHANGED <<server, upgrades>>
    BY <1>1, <2>1 DEF Submit
  <2> QED BY <2>2, <2>3, PodAdded
<1>2. ASSUME NEW p \in PodIDs, NEW t \in Templates, SubmitUnseen(p, t)
      PROVE  InjectInv'
  <2>1. pods' = [pods EXCEPT ![p] = t] /\ UNCHANGED <<server, upgrades>>
    BY <1>2 DEF SubmitUnseen
  <2> QED BY <2>1, TemplateInv, PodAdded
<1>3. ASSUME NEW p \in PodIDs, NEW q \in PodIDs, NEW t \in Templates, NEW keep \in BOOLEAN,
             NEW more \in {<<>>, <<sidecar>>}, SubmitCopy(p, q, t, keep, more)
      PROVE  InjectInv'
  <2>1. PICK pod : pod = pods[q]
    OBVIOUS
  <2>2. PICK copy : copy = [pod EXCEPT !.meta = t.meta, !.copied = TRUE,
                                       !.label = IF keep THEN @ ELSE "",
                                       !.containers = @ \o more]
    OBVIOUS
  <2>3. PICK x : x = mutatePod(copy)
    OBVIOUS
  <2>4. pods' = [pods EXCEPT ![p] = x] /\ UNCHANGED <<server, upgrades>>
    BY <1>3, <2>1, <2>2, <2>3 DEF SubmitCopy
  <2>5. PodInv(pod)
    <3>1. q \in Pods
      BY <1>3 DEF SubmitCopy, Pods
    <3> QED BY <2>1, <3>1 DEF InjectInv
  <2>6. MayBeAdded(more, pod)
    BY <1>3, <2>1 DEF SubmitCopy, MayBeAdded
  <2>7. CopyOf(pod, t, keep, more, copy)
    <3>1. pod = [meta |-> pod.meta, containers |-> pod.containers, label |-> pod.label,
                 volume |-> pod.volume, copied |-> pod.copied]
      BY <2>5 DEF PodInv
    <3> QED BY <2>2, <3>1 DEF CopyOf
  <2>8. PodInv(copy)
    BY <2>5, <2>6, <2>7, CopyInv
  <2>9. PodInv(x)
    BY <1>0, <2>3, <2>8, MutatePod
  <2> QED BY <2>4, <2>9, PodAdded
<1>4. ASSUME NEW s \in Servers, Upgrade(s)
      PROVE  InjectInv'
  <2>1. /\ upgrades < MaxUpgrades /\ server' = s /\ upgrades' = upgrades + 1 /\ UNCHANGED pods
        /\ upgrades \in 0..MaxUpgrades
    BY <1>4 DEF Upgrade, InjectInv
  <2>2. upgrades' \in 0..MaxUpgrades
    BY <2>1, InputsAssumption
  <2> QED BY <2>1, <2>2 DEF InjectInv, Pods
<1>5. CASE UNCHANGED injectVars
  BY <1>5 DEF injectVars, InjectInv, Pods
<1> QED BY <1>1, <1>2, <1>3, <1>4, <1>5 DEF InjectNext

(* Every reachable state satisfies the inductive invariant.                *)
THEOREM InjectInvCorrect == InjectSpec => []InjectInv
<1>1. InjectInit => InjectInv
  BY InjectInitInv
<1>2. InjectInv /\ [InjectNext]_injectVars => InjectInv'
  BY InjectNextInv
<1> QED BY <1>1, <1>2, PTL DEF InjectSpec

-----------------------------------------------------------------------------
(* What the invariant says of one container.                               *)

LEMMA ContainerCases ==
    ASSUME InjectInv, NEW p \in Pods, NEW k \in DOMAIN pods[p].containers,
           NEW c, c = pods[p].containers[k]
    PROVE  /\ IsContainer(c)
           /\ \/ c.env = c.user /\ c.mount = FALSE
              \/ /\ ~Has(c.user, "LD_PRELOAD")
                 /\ c.mount = TRUE
                 /\ InjectedBy(c, pods[p].volume, pods[p].label, pods[p].copied, pods[p].meta)
BY DEF InjectInv, PodInv, ContainerInv

LEMMA EnvWellFormed ==
    ASSUME InjectInv, NEW p \in Pods, NEW k \in DOMAIN pods[p].containers,
           NEW c, c = pods[p].containers[k]
    PROVE  WellFormed(c.env)
<1>1. IsContainer(c) /\ (c.env = c.user \/ InjectedBy(c, pods[p].volume, pods[p].label, pods[p].copied, pods[p].meta))
  BY ContainerCases
<1>2. WellFormed(c.user)
  BY <1>1, UserShape
<1>3. InjectedBy(c, pods[p].volume, pods[p].label, pods[p].copied, pods[p].meta) => WellFormed(c.env)
  BY DEF InjectedBy, Injected, Structure
<1> QED BY <1>1, <1>2, <1>3

(* The types of the variables: a variable of a container has a value or a  *)
(* source, whatever the webhook did to it.                                 *)
THEOREM InjectTypeCorrect == InjectSpec => []InjectTypeOK
<1>1. InjectInv => InjectTypeOK
  <2> SUFFICES ASSUME InjectInv PROVE InjectTypeOK
    OBVIOUS
  <2>1. server \in Servers /\ upgrades \in 0..MaxUpgrades
    BY DEF InjectInv
  <2>2. ASSUME NEW p \in Pods
        PROVE  pods[p].label \in {""} \cup {s.ver : s \in Servers} \cup {t.label : t \in Templates}
    BY DEF InjectInv, PodInv, Labels
  <2>3. ASSUME NEW p \in Pods, NEW k \in DOMAIN pods[p].containers,
               NEW i \in DOMAIN pods[p].containers[k].env, pods[p].containers[k].env[i].field # ""
        PROVE  pods[p].containers[k].env[i].value = Text(<<>>)
    <3>1. PICK c : c = pods[p].containers[k]
      OBVIOUS
    <3>2. WellFormed(c.env)
      BY <3>1, EnvWellFormed
    <3> QED BY <2>3, <3>1, <3>2 DEF WellFormed
  <2> QED BY <2>1, <2>2, <2>3 DEF InjectTypeOK
<1> QED BY <1>1, InjectInvCorrect, PTL

(* What a user sets is kept: all of a container that preloads something,   *)
(* and in the others the variables that are not the webhook's.             *)
THEOREM UserSettingsKeptCorrect == InjectSpec => []UserSettingsKept
<1>1. InjectInv => UserSettingsKept
  <2> SUFFICES ASSUME InjectInv, NEW p \in Pods, NEW k \in DOMAIN pods[p].containers,
                      NEW c, c = pods[p].containers[k]
               PROVE  /\ Has(c.user, "LD_PRELOAD") => c.env = c.user /\ ~c.mount
                      /\ \A i \in DOMAIN c.user :
                           /\ c.env[i].name = c.user[i].name
                           /\ c.user[i].name \notin AllNames => c.env[i] = c.user[i]
    BY DEF UserSettingsKept, AllNames
  <2>1. CASE c.env = c.user /\ c.mount = FALSE
    BY <2>1
  <2>2. CASE ~(c.env = c.user /\ c.mount = FALSE)
    <3>1. /\ ~Has(c.user, "LD_PRELOAD")
          /\ InjectedBy(c, pods[p].volume, pods[p].label, pods[p].copied, pods[p].meta)
      BY <2>2, ContainerCases
    <3>2. Structure(c.user, c.env, AllNames)
      BY <3>1 DEF InjectedBy, Injected
    <3> QED BY <3>1, <3>2 DEF Structure
  <2> QED BY <2>1, <2>2
<1> QED BY <1>1, InjectInvCorrect, PTL

-----------------------------------------------------------------------------
(* The environment that the kubelet makes.                                 *)

LastVar(env, v) == SelectLastInSeq(env, LAMBDA e : e.name = v)

LEMMA LastVarShape ==
    ASSUME NEW env, IsSeq(env), NEW v, NEW j \in DOMAIN env, env[j].name = v
    PROVE  /\ LastVar(env, v) \in DOMAIN env
           /\ env[LastVar(env, v)].name = v
           /\ \A n \in DOMAIN env : env[n].name = v => n <= LastVar(env, v)
<1>1. PICK I : I = {n \in 1..Len(env) : env[n].name = v}
  OBVIOUS
<1>2. LastVar(env, v) = IF I # {} THEN Max(I) ELSE 0
  BY <1>1 DEF LastVar, SelectLastInSeq
<1>3. Len(env) \in Nat /\ DOMAIN env = 1..Len(env)
  BY SeqShape
<1>4. I \in SUBSET (1..Len(env)) /\ I # {}
  BY <1>1, <1>3
<1>5. Max(I) \in I /\ \A y \in I : y <= Max(I)
  BY <1>3, <1>4, MaxOfPositions
<1>6. LastVar(env, v) = Max(I)
  BY <1>2, <1>4
<1> QED BY <1>1, <1>3, <1>5, <1>6

LEMMA LastOfOnly ==
    ASSUME NEW env, IsSeq(env), NEW v, NEW e, Only(env, v, e)
    PROVE  LastVar(env, v) \in DOMAIN env /\ env[LastVar(env, v)] = e /\ e.name = v
<1>1. PICK j \in DOMAIN env : env[j].name = v
  BY DEF Only
<1>2. LastVar(env, v) \in DOMAIN env /\ env[LastVar(env, v)].name = v
  BY <1>1, LastVarShape
<1> QED BY <1>2 DEF Only

(* A reference that is resolved expands to the field of the pod.           *)
LEMMA LookupResolved ==
    ASSUME NEW p, NEW env, IsSeq(env), NEW i \in DOMAIN env, NEW v, Resolved(env, i, v)
    PROVE  lookup(p, env, i, v) = fieldOf(p, FieldName(v))
<1>1. PICK j \in 1..i - 1 : /\ j \in DOMAIN env
                            /\ env[j] = FieldVar(v, FieldName(v))
                            /\ \A n \in j + 1..i - 1 : env[n].name # v
  BY DEF Resolved
<1>2. v \in RefNames
  BY DEF Resolved
<1>3. Len(env) \in Nat /\ DOMAIN env = 1..Len(env)
  BY SeqShape
<1>4. PICK sub : sub = SubSeq(env, 1, i - 1)
  OBVIOUS
<1>5. IsSeq(sub) /\ Len(sub) = i - 1 /\ \A n \in 1..i - 1 : sub[n] = env[n]
  <2>1. PICK S : env \in Seq(S)
    BY DEF IsSeq
  <2>2. 1 \in 1..Len(env) + 1 /\ i - 1 \in 0..Len(env) /\ i - 1 \in Nat
    BY <1>3
  <2>3. sub \in Seq(S) /\ Len(sub) = i - 1 /\ \A n \in 1..i - 1 : sub[n] = env[n]
    <3>1. PICK b : b = i - 1
      OBVIOUS
    <3>2. sub = SubSeq(env, 1, b) /\ b \in 0..Len(env) /\ 1 \in 1..Len(env) + 1
      BY <1>4, <2>2, <3>1
    <3>3. /\ SubSeq(env, 1, b) \in Seq(S)
          /\ Len(SubSeq(env, 1, b)) = IF 1 <= b THEN b - 1 + 1 ELSE 0
          /\ \A n \in 1..b - 1 + 1 : SubSeq(env, 1, b)[n] = env[1 + n - 1]
      BY <2>1, <3>2, SubSeqProperties
    <3>4. Len(SubSeq(env, 1, b)) = b /\ \A n \in 1..b : SubSeq(env, 1, b)[n] = env[n]
      BY <1>3, <3>2, <3>3
    <3> QED BY <3>1, <3>2, <3>3, <3>4
  <2> QED BY <2>3 DEF IsSeq
<1>6. DOMAIN sub = 1..i - 1
  BY <1>5, SeqShape
<1>7. env[j].name = v /\ env[j].field = FieldName(v)
  BY <1>1, FieldVarShape
<1>8. sub[j].name = v /\ j \in DOMAIN sub
  BY <1>1, <1>5, <1>6, <1>7
<1>9. PICK l : l = LastVar(sub, v)
  OBVIOUS
<1>10. l \in DOMAIN sub /\ sub[l].name = v /\ j <= l
  BY <1>5, <1>8, <1>9, LastVarShape
<1>11. l = j
  <2>1. l \in 1..i - 1 /\ env[l].name = v
    BY <1>5, <1>6, <1>10
  <2>2. l \notin j + 1..i - 1
    BY <1>1, <2>1
  <2> QED BY <1>1, <1>3, <1>10, <2>1, <2>2
<1>12. j # 0
  BY <1>1, <1>3
<1>13. FieldName(v) # ""
  BY <1>2 DEF FieldName, RefNames
<1>14. lookup(p, env, i, v) = fieldOf(p, env[j].field)
  <2>1. j = LastVar(SubSeq(env, 1, i - 1), v)
    BY <1>4, <1>9, <1>11
  <2>2. env[j].field # ""
    BY <1>7, <1>13
  <2> QED BY <1>12, <2>1, <2>2 DEF lookup, LastVar
<1> QED BY <1>7, <1>14

(* Every reference that the webhook writes expands to the field of the pod *)
(* that it is about, for every server, pod and environment of a user.      *)
THEOREM ReferencesResolveCorrect == InjectSpec => []ReferencesResolve
<1>1. InjectInv => ReferencesResolve
  <2> SUFFICES ASSUME InjectInv, NEW p \in Pods, NEW k \in DOMAIN pods[p].containers,
                      NEW c, c = pods[p].containers[k], NEW i \in DOMAIN c.env, NEW v \in RefsOf(c.env[i]),
                      ~Has(c.user, c.env[i].name)
               PROVE  lookup(p, c.env, i, v) = fieldOf(p, FieldName(v))
    BY DEF ReferencesResolve
  <2>1. /\ IsContainer(c)
        /\ c.env = c.user \/ InjectedBy(c, pods[p].volume, pods[p].label, pods[p].copied, pods[p].meta)
    BY ContainerCases
  <2>2. c.env # c.user
    <3>1. IsSeq(c.user)
      BY <2>1, UserShape
    <3> QED BY <3>1, FindEnvVar
  <2>3. Structure(c.user, c.env, AllNames)
    BY <2>1, <2>2 DEF InjectedBy, Injected
  <2>4. IsSeq(c.env) /\ Resolved(c.env, i, v)
    BY <2>3 DEF Structure
  <2> QED BY <2>4, LookupResolved
<1> QED BY <1>1, InjectInvCorrect, PTL

LEMMA FlattenNone ==
    ASSUME NEW s, DOMAIN s = {}, s = [k \in DOMAIN s |-> s[k]]
    PROVE  FlattenSeq(s) = <<>>
<1>1. s = <<>>
  OBVIOUS
<1>2. Len(<<>>) = 0
  OBVIOUS
<1> QED BY <1>1, <1>2 DEF FlattenSeq

(* a text without references expands to itself                             *)
LEMMA ExpandText ==
    ASSUME NEW p, NEW env, NEW i, NEW value, value.refs = <<>>, IsSeq(value.text)
    PROVE  expand(p, env, i, value) = value.text
<1>1. PICK s : s = [k \in DOMAIN value.refs |-> lookup(p, env, i, value.refs[k])]
  OBVIOUS
<1>2. DOMAIN s = {} /\ s = [k \in DOMAIN s |-> s[k]]
  BY <1>1
<1>3. expand(p, env, i, value) = <<>> \o value.text
  BY <1>1, <1>2, FlattenNone DEF expand
<1>4. PICK S : value.text \in Seq(S)
  BY DEF IsSeq
<1> QED BY <1>3, <1>4, ConcatEmptySeq

LEMMA VarValue ==
    ASSUME NEW v, NEW value
    PROVE  Var(v, value).value = value
BY DEF Var

LEMMA TextOfOnly ==
    ASSUME NEW p, NEW env, IsSeq(env), NEW v, NEW t, IsSeq(t), Only(env, v, Var(v, Text(t)))
    PROVE  textOf(p, env, v) = t
<1>1. PICK i, x, value : i = LastVar(env, v) /\ x = Var(v, value) /\ value = Text(t)
  OBVIOUS
<1>2. Only(env, v, x)
  BY <1>1
<1>3. env[i] = x
  BY <1>1, <1>2, LastOfOnly
<1>4. x.field = "" /\ x.value = value
  <2>1. Var(v, value).field = "" /\ Var(v, value).value = value
    BY VarShape, VarValue
  <2> QED BY <1>1, <2>1
<1>5. env[i].field = "" /\ env[i].value = value
  BY <1>3, <1>4
<1>6. textOf(p, env, v) = expand(p, env, i, value)
  BY <1>1, <1>5 DEF textOf, LastVar
<1>7. value.refs = <<>> /\ value.text = t
  BY <1>1, TextShape
<1> QED BY <1>6, <1>7, ExpandText

LEMMA InstrumentedCases ==
    ASSUME InjectInv, NEW p \in Pods, NEW k \in DOMAIN pods[p].containers,
           NEW c, c = pods[p].containers[k], Instrumented(c)
    PROVE  /\ c.mount = TRUE
           /\ InjectedBy(c, pods[p].volume, pods[p].label, pods[p].copied, pods[p].meta)
<1>1. c.env # c.user
  BY DEF Instrumented
<1> QED BY <1>1, ContainerCases

(* The label, the environment and the volume of a pod tell one version.    *)
THEOREM VersionsAgreeCorrect == InjectSpec => []VersionsAgree
<1>1. InjectInv => VersionsAgree
  <2> SUFFICES ASSUME InjectInv, NEW p \in Pods, NEW k \in DOMAIN pods[p].containers,
                      NEW c, c = pods[p].containers[k], Instrumented(c)
               PROVE  /\ c.mount
                      /\ textOf(p, c.env, "SDK_PKG_VERSION") = <<pods[p].volume>>
                      /\ pods[p].label # "" => textOf(p, c.env, "SDK_PKG_VERSION") = <<pods[p].label>>
    BY DEF VersionsAgree
  <2>1. c.mount = TRUE /\ InjectedBy(c, pods[p].volume, pods[p].label, pods[p].copied, pods[p].meta)
    BY InstrumentedCases
  <2>2. PICK s \in Servers, m \in Metadata :
          /\ Injected(c.user, c.env, s, m, c.name)
          /\ pods[p].volume = s.ver
          /\ pods[p].label = "" \/ pods[p].label = s.ver
    BY <2>1 DEF InjectedBy
  <2>3. PICK t : t = <<s.ver>>
    OBVIOUS
  <2>4. IsSeq(t)
    <3>1. \A x : <<x>> \in Seq({x})
      OBVIOUS
    <3> QED BY <2>3, <3>1 DEF IsSeq
  <2>5. IsSeq(c.env) /\ Only(c.env, "SDK_PKG_VERSION", Var("SDK_PKG_VERSION", Text(t)))
    BY <2>2, <2>3 DEF Injected, Structure
  <2>6. textOf(p, c.env, "SDK_PKG_VERSION") = t
    BY <2>4, <2>5, TextOfOnly
  <2> QED BY <2>1, <2>2, <2>3, <2>6
<1> QED BY <1>1, InjectInvCorrect, PTL

LEMMA FlattenOne ==
    ASSUME NEW s, IsSeq(s), Len(s) = 1
    PROVE  FlattenSeq(s) = s[1]
<1> DEFINE Rec(g) == g = [i \in 1..1 |-> IF i = 1 THEN s[i] ELSE g[i - 1] \o s[i]]
           h == [i \in 1..1 |-> s[1]]
           f == CHOOSE g : Rec(g)
<1>1. Rec(h)
  <2>1. \A i \in 1..1 : i = 1
    OBVIOUS
  <2>2. h[1] = s[1]
    OBVIOUS
  <2>3. \A i \in 1..1 : h[i] = IF i = 1 THEN s[i] ELSE h[i - 1] \o s[i]
    BY <2>1, <2>2
  <2>4. h = [i \in 1..1 |-> h[i]]
    OBVIOUS
  <2> HIDE DEF h
  <2> QED BY <2>3, <2>4
<1>2. Rec(f)
  BY <1>1
<1>3. FlattenSeq(s) = f[1]
  BY DEF FlattenSeq
<1> HIDE DEF f
<1>4. f[1] = s[1]
  BY <1>2
<1> QED BY <1>3, <1>4

(* a variable that refers to the name of the pod expands to it             *)
LEMMA TextOfPodName ==
    ASSUME NEW p, NEW env, IsSeq(env), NEW v, Only(env, v, Var(v, Ref("POD_NAME"))),
           \A i \in DOMAIN env : env[i].name = v => \A r \in RefsOf(env[i]) : Resolved(env, i, r)
    PROVE  textOf(p, env, v) = fieldOf(p, "name")
<1>1. PICK i, x, value : i = LastVar(env, v) /\ x = Var(v, value) /\ value = Ref("POD_NAME")
  OBVIOUS
<1>2. Only(env, v, x)
  BY <1>1
<1>3. i \in DOMAIN env /\ env[i] = x /\ x.name = v
  BY <1>1, <1>2, LastOfOnly
<1>4. x.field = "" /\ x.value = value /\ RefsOf(x) = ToSet(value.refs)
  <2>1. Var(v, value).field = "" /\ Var(v, value).value = value /\ RefsOf(Var(v, value)) = ToSet(value.refs)
    BY VarShape, VarValue
  <2> QED BY <1>1, <2>1
<1>5. env[i].field = "" /\ env[i].value = value
  BY <1>3, <1>4
<1>6. textOf(p, env, v) = expand(p, env, i, value)
  BY <1>1, <1>5 DEF textOf, LastVar
<1>7. value.refs = <<"POD_NAME">> /\ value.text = <<>>
  BY <1>1 DEF Ref, Value
<1>8. 1 \in DOMAIN value.refs /\ value.refs[1] = "POD_NAME" /\ DOMAIN value.refs = 1..1
  BY <1>7
<1>9. "POD_NAME" \in RefsOf(env[i])
  <2>1. "POD_NAME" \in ToSet(value.refs)
    BY <1>8 DEF ToSet
  <2> QED BY <1>3, <1>4, <2>1
<1>10. Resolved(env, i, "POD_NAME")
  BY <1>3, <1>9
<1>11. lookup(p, env, i, "POD_NAME") = fieldOf(p, FieldName("POD_NAME"))
  BY <1>3, <1>10, LookupResolved
<1>12. lookup(p, env, i, "POD_NAME") = <<"pod", p>>
  BY <1>11 DEF FieldName, fieldOf
<1>13. PICK t : t = [n \in DOMAIN value.refs |-> lookup(p, env, i, value.refs[n])]
  OBVIOUS
<1>14. IsSeq(t) /\ Len(t) = 1
  <2>1. t = [n \in 1..1 |-> t[n]]
    BY <1>8, <1>13
  <2>2. 1 \in Nat
    OBVIOUS
  <2> QED BY <2>1, <2>2, FunctionIsSeq
<1>15. t[1] = <<"pod", p>>
  BY <1>8, <1>12, <1>13
<1>16. FlattenSeq(t) = t[1]
  BY <1>14, FlattenOne
<1>17. expand(p, env, i, value) = t[1] \o <<>>
  BY <1>7, <1>13, <1>16 DEF expand
<1>18. PICK w : w = <<"pod", p>>
  OBVIOUS
<1>19. w \o <<>> = w
  <2>1. w \in Seq({"pod", p})
    BY <1>18
  <2> QED BY <2>1, ConcatEmptySeq
<1>20. fieldOf(p, "name") = w
  BY <1>18 DEF fieldOf
<1> QED BY <1>6, <1>15, <1>17, <1>18, <1>19, <1>20

(* A pod reports the name of its workload, or its own if no workload of a  *)
(* known kind owns it.                                                     *)
THEOREM ServiceNameIsWorkloadCorrect == InjectSpec => []ServiceNameIsWorkload
<1>1. InjectInv => ServiceNameIsWorkload
  <2> DEFINE configured(p) ==
        UNION {{s.attributes[a].text : a \in DOMAIN s.attributes \cap ToSet(Kinds)} :
                 s \in {s \in Servers : s.ver = pods[p].volume}}
  <2> SUFFICES ASSUME InjectInv, NEW p \in Pods, NEW k \in DOMAIN pods[p].containers,
                      NEW c, c = pods[p].containers[k], NEW meta, meta = pods[p].meta,
                      Instrumented(c), ~pods[p].copied,
                      "service.name" \notin DOMAIN meta.annotations, meta.labels = <<>>
               PROVE  LET name == textOf(p, c.env, "SERVICE_NAME")
                      IN \/ name \in configured(p)
                         \/ attributed(meta) = {} /\ (Has(c.user, "SERVICE_NAME") \/ name = fieldOf(p, "name"))
                         \/ \E i \in attributed(meta) :
                               \/ attributed(meta) # {i}
                               \/ Has(c.env, "POD_UID") /\ ~hasParent(meta.owners[i])
                               \/ hasParent(meta.owners[i]) /\ meta.owners[i].name = meta.workload
                               \/ name = meta.workload
    BY DEF ServiceNameIsWorkload
  <2>1. InjectedBy(c, pods[p].volume, pods[p].label, pods[p].copied, pods[p].meta)
    BY InstrumentedCases
  <2>2. PICK s \in Servers : Injected(c.user, c.env, s, meta, c.name) /\ meta \in Metadata /\ pods[p].volume = s.ver
    BY <2>1 DEF InjectedBy
  <2>3. Unnamed(meta)
    BY DEF Unnamed
  <2>4. PICK y : Only(c.env, "SERVICE_NAME", Var("SERVICE_NAME", y)) /\ NameIs(y, s, meta)
    BY <2>2, <2>3 DEF Injected
  <2>5. PICK name : name = textOf(p, c.env, "SERVICE_NAME")
    OBVIOUS
  <2>6. IsSeq(c.env) /\ Structure(c.user, c.env, AllNames)
    BY <2>2 DEF Injected, Structure
  <2>7. ASSUME y \in Configured(s)
        PROVE  name \in configured(p)
    <3>1. PICK a \in DOMAIN s.attributes \cap ToSet(Kinds) : y = s.attributes[a]
      BY <2>7 DEF Configured
    <3>2. s.attributes[a] \in Texts
      BY <3>1, InputsAssumption DEF IsServer
    <3>3. PICK t : t = y.text
      OBVIOUS
    <3>4. y = Text(t) /\ IsSeq(t)
      BY <3>1, <3>2, <3>3 DEF Texts, Text, Value, IsSeq
    <3>5. name = t
      BY <2>4, <2>5, <2>6, <3>4, TextOfOnly
    <3> QED BY <2>2, <3>1, <3>3, <3>5
  <2>8. ASSUME y = Ref("POD_NAME"), ~Has(c.user, "SERVICE_NAME")
        PROVE  name = fieldOf(p, "name")
    <3>1. PICK v : v = "SERVICE_NAME"
      OBVIOUS
    <3>2. \A i \in DOMAIN c.env : c.env[i].name = v => \A r \in RefsOf(c.env[i]) : Resolved(c.env, i, r)
      BY <2>6, <2>8, <3>1 DEF Structure
    <3>3. Only(c.env, v, Var(v, Ref("POD_NAME")))
      BY <2>4, <2>8, <3>1
    <3>4. textOf(p, c.env, v) = fieldOf(p, "name")
      BY <2>6, <3>2, <3>3, TextOfPodName
    <3> QED BY <2>5, <3>1, <3>4
  <2>9. ASSUME y = Text(meta.workload)
        PROVE  name = meta.workload
    <3>1. IsSeq(meta.workload)
      BY <2>2, MetadataShape DEF IsMetadata, IsSeq
    <3> QED BY <2>4, <2>5, <2>6, <2>9, <3>1, TextOfOnly
  <2>10. s.uids => Has(c.env, "POD_UID")
    BY <2>2 DEF Injected
  <2> HIDE DEF configured
  <2> QED BY <2>4, <2>5, <2>7, <2>8, <2>9, <2>10 DEF NameIs
<1> QED BY <1>1, InjectInvCorrect, PTL

LEMMA FlattenTwo ==
    ASSUME NEW s, IsSeq(s), Len(s) = 2
    PROVE  FlattenSeq(s) = s[1] \o s[2]
<1> DEFINE Rec(g) == g = [i \in 1..2 |-> IF i = 1 THEN s[i] ELSE g[i - 1] \o s[i]]
           h == [i \in 1..2 |-> IF i = 1 THEN s[1] ELSE s[1] \o s[2]]
           f == CHOOSE g : Rec(g)
<1>1. Rec(h)
  <2>1. \A i \in 1..2 : i = 1 \/ i = 2
    OBVIOUS
  <2>2. h[1] = s[1] /\ h[2] = s[1] \o s[2]
    OBVIOUS
  <2>3. \A i \in 1..2 : h[i] = IF i = 1 THEN s[i] ELSE h[i - 1] \o s[i]
    BY <2>1, <2>2
  <2>4. h = [i \in 1..2 |-> h[i]]
    OBVIOUS
  <2> HIDE DEF h
  <2> QED BY <2>3, <2>4
<1>2. Rec(f)
  BY <1>1
<1>3. FlattenSeq(s) = f[2]
  BY DEF FlattenSeq
<1> HIDE DEF f
<1>4. f[1] = s[1] /\ f[2] = f[1] \o s[2]
  BY <1>2
<1> QED BY <1>3, <1>4

(* an ID that ends with p and n                                            *)
IsId(id, p, n) == id[3] = p /\ id[4] = n

LEMMA IdShape ==
    ASSUME NEW x, NEW y, NEW p, NEW n
    PROVE  IsId((<<x>> \o <<y, p>>) \o <<n>>, p, n)
<1>1. PICK a, b, c, d, r : a = <<x>> /\ b = <<y, p>> /\ c = <<n>> /\ d = a \o b /\ r = d \o c
  OBVIOUS
<1>2. a \in Seq({x}) /\ b \in Seq({y, p}) /\ c \in Seq({n})
  BY <1>1
<1>3. Len(a) = 1 /\ Len(b) = 2 /\ Len(c) = 1 /\ b[2] = p /\ c[1] = n
  BY <1>1
<1>4. IsSeq(a) /\ IsSeq(b) /\ IsSeq(c)
  BY <1>2 DEF IsSeq
<1>5. d = a \o b /\ r = d \o c
  BY <1>1
<1>6. IsSeq(d) /\ Len(d) = Len(a) + Len(b) /\ \A i \in 1..Len(b) : d[Len(a) + i] = b[i]
  <2>1. d = a \o b
    BY <1>5
  <2> QED BY <1>4, <2>1, ConcatShape
<1>7. Len(d) = 3 /\ d[3] = p
  <2>1. 2 \in 1..2 /\ 1 + 2 = 3
    OBVIOUS
  <2> QED BY <1>3, <1>6, <2>1
<1>8. (\A i \in 1..Len(d) : r[i] = d[i]) /\ \A i \in 1..Len(c) : r[Len(d) + i] = c[i]
  <2>1. r = d \o c
    BY <1>5
  <2>2. IsSeq(d) /\ IsSeq(c)
    BY <1>4, <1>6
  <2> QED BY <2>1, <2>2, ConcatShape
<1>9. r[3] = p
  BY <1>7, <1>8
<1>10. r[4] = n
  BY <1>3, <1>7, <1>8
<1>11. IsId(r, p, n)
  BY <1>9, <1>10 DEF IsId
<1>12. r = (<<x>> \o <<y, p>>) \o <<n>>
  BY <1>1
<1> QED BY <1>11, <1>12

IsOwnId(id, p, n) == id \in AnnotatedIds \/ IsId(id, p, n)

(* The ID of a container: that of an annotation, or the namespace, the     *)
(* name of the pod (two words) and the name of the container.              *)
LEMMA InstanceIdOf ==
    ASSUME InjectInv, NEW p \in Pods, NEW k \in DOMAIN pods[p].containers,
           NEW c, c = pods[p].containers[k], Instrumented(c), ~Has(c.user, "RESOURCE_ATTRIBUTES")
    PROVE  IsOwnId(attrOf(p, c.env, InstanceId), p, c.name)
<1>0. PICK id : id = attrOf(p, c.env, InstanceId)
  OBVIOUS
<1>1. InjectedBy(c, pods[p].volume, pods[p].label, pods[p].copied, pods[p].meta)
  BY InstrumentedCases
<1>2. PICK s \in Servers, m \in Metadata : Injected(c.user, c.env, s, m, c.name)
  BY <1>1 DEF InjectedBy
<1>3. PICK e : Only(c.env, "RESOURCE_ATTRIBUTES", e) /\ HasInstanceId(e, m, c.name)
  BY <1>2 DEF Injected
<1>4. PICK env, i : env = c.env /\ i = LastVar(env, "RESOURCE_ATTRIBUTES")
  OBVIOUS
<1>5. IsSeq(env) /\ Structure(c.user, env, AllNames) /\ Only(env, "RESOURCE_ATTRIBUTES", e)
  BY <1>2, <1>3, <1>4 DEF Injected, Structure
<1>6. i \in DOMAIN env /\ env[i] = e /\ e.name = "RESOURCE_ATTRIBUTES"
  BY <1>4, <1>5, LastOfOnly
<1>7. PICK value : value = e.attrs[InstanceId]
  OBVIOUS
<1>8. id = expand(p, env, i, value)
  BY <1>0, <1>4, <1>6, <1>7 DEF attrOf, LastVar
<1>9. CASE InstanceId \in DOMAIN m.annotations
  <2>1. value \in Texts /\ value = m.annotations[InstanceId]
    BY <1>3, <1>7, <1>9 DEF HasInstanceId
  <2>2. value.refs = <<>> /\ value.text \in Seq(STRING)
    BY <2>1 DEF Texts
  <2>3. IsSeq(value.text)
    BY <2>2 DEF IsSeq
  <2>4. id = value.text
    BY <1>8, <2>2, <2>3, ExpandText
  <2>5. id \in AnnotatedIds
    BY <1>9, <2>1, <2>4 DEF AnnotatedIds, InstanceId
  <2> QED BY <1>0, <2>5 DEF IsOwnId
<1>10. CASE InstanceId \notin DOMAIN m.annotations
  <2>1. value = Value(<<"NAMESPACE", "POD_NAME">>, <<c.name>>)
    BY <1>3, <1>7, <1>10 DEF HasInstanceId
  <2>2. value.refs = <<"NAMESPACE", "POD_NAME">> /\ value.text = <<c.name>>
    BY <2>1 DEF Value
  <2>3. "NAMESPACE" \in ToSet(value.refs) /\ "POD_NAME" \in ToSet(value.refs)
    <3>1. 1 \in DOMAIN value.refs /\ 2 \in DOMAIN value.refs
      BY <2>2
    <3>2. value.refs[1] = "NAMESPACE" /\ value.refs[2] = "POD_NAME"
      BY <2>2
    <3> QED BY <3>1, <3>2 DEF ToSet
  <2>4. InstanceId \in DOMAIN e.attrs
    BY <1>3 DEF HasInstanceId
  <2>5. "NAMESPACE" \in RefsOf(e) /\ "POD_NAME" \in RefsOf(e)
    BY <1>7, <2>3, <2>4 DEF RefsOf
  <2>6. ~Has(c.user, env[i].name)
    BY <1>6
  <2>7. \A v \in RefsOf(env[i]) : Resolved(env, i, v)
    BY <1>5, <1>6, <2>6 DEF Structure
  <2>8. Resolved(env, i, "NAMESPACE") /\ Resolved(env, i, "POD_NAME")
    BY <1>6, <2>5, <2>7
  <2>9. lookup(p, env, i, "NAMESPACE") = fieldOf(p, FieldName("NAMESPACE"))
    BY <1>5, <1>6, <2>8, LookupResolved
  <2>10. lookup(p, env, i, "POD_NAME") = fieldOf(p, FieldName("POD_NAME"))
    BY <1>5, <1>6, <2>8, LookupResolved
  <2>11. lookup(p, env, i, "NAMESPACE") = <<pods[p].meta.namespace>>
    BY <2>9 DEF FieldName, fieldOf
  <2>12. lookup(p, env, i, "POD_NAME") = <<"pod", p>>
    BY <2>10 DEF FieldName, fieldOf
  <2>13. PICK t : t = [n \in DOMAIN value.refs |-> lookup(p, env, i, value.refs[n])]
    OBVIOUS
  <2>14. DOMAIN value.refs = 1..2
    BY <2>2
  <2>15. IsSeq(t) /\ Len(t) = 2
    <3>1. t = [n \in 1..2 |-> t[n]]
      BY <2>13, <2>14
    <3>2. 2 \in Nat
      OBVIOUS
    <3> QED BY <3>1, <3>2, FunctionIsSeq
  <2>16. t[1] = <<pods[p].meta.namespace>> /\ t[2] = <<"pod", p>>
    <3>1. 1 \in DOMAIN value.refs /\ 2 \in DOMAIN value.refs
      BY <2>2
    <3>2. value.refs[1] = "NAMESPACE" /\ value.refs[2] = "POD_NAME"
      BY <2>2
    <3> QED BY <2>11, <2>12, <2>13, <3>1, <3>2
  <2>17. id = (t[1] \o t[2]) \o <<c.name>>
    <3>1. FlattenSeq(t) = t[1] \o t[2]
      BY <2>15, FlattenTwo
    <3> QED BY <1>8, <2>2, <2>13, <3>1 DEF expand
  <2>18. id = (<<pods[p].meta.namespace>> \o <<"pod", p>>) \o <<c.name>>
    BY <2>16, <2>17
  <2>19. IsId(id, p, c.name)
    BY <2>18, IdShape
  <2> QED BY <1>0, <2>19 DEF IsOwnId
<1> QED BY <1>9, <1>10

(* No two containers that were instrumented report one service.instance.id *)
(* unless a user gave it to them.                                          *)
THEOREM InstanceIdsUniqueCorrect == InjectSpec => []InstanceIdsUnique
<1>1. InjectInv => InstanceIdsUnique
  <2> SUFFICES ASSUME InjectInv, NEW p \in Pods, NEW q \in Pods,
                      NEW j \in DOMAIN pods[p].containers, NEW k \in DOMAIN pods[q].containers,
                      NEW c, c = pods[p].containers[j], NEW d, d = pods[q].containers[k],
                      Instrumented(c), ~Has(c.user, "RESOURCE_ATTRIBUTES"),
                      Instrumented(d), ~Has(d.user, "RESOURCE_ATTRIBUTES"),
                      attrOf(p, c.env, "service.instance.id") = attrOf(q, d.env, "service.instance.id")
               PROVE  <<p, j>> = <<q, k>> \/ attrOf(p, c.env, "service.instance.id") \in AnnotatedIds
    BY DEF InstanceIdsUnique
  <2>1. IsOwnId(attrOf(p, c.env, InstanceId), p, c.name) /\ IsOwnId(attrOf(q, d.env, InstanceId), q, d.name)
    BY InstanceIdOf
  <2>2. PICK id : id = attrOf(p, c.env, InstanceId)
    OBVIOUS
  <2>3. id = attrOf(p, c.env, "service.instance.id") /\ id = attrOf(q, d.env, InstanceId)
    BY <2>2 DEF InstanceId
  <2>4. IsOwnId(id, p, c.name) /\ IsOwnId(id, q, d.name)
    BY <2>1, <2>2, <2>3
  <2>5. CASE p = q /\ c.name = d.name
    <3>1. j = k
      BY <2>5 DEF InjectInv, PodInv
    <3> QED BY <2>5, <3>1
  <2>6. id \in AnnotatedIds \/ (p = q /\ c.name = d.name)
    BY <2>4 DEF IsOwnId, IsId
  <2> QED BY <2>3, <2>5, <2>6
<1> QED BY <1>1, InjectInvCorrect, PTL
=============================================================================
